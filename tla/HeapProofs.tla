----------------------------- MODULE HeapProofs -----------------------------
(* What the words of the heap say, for every page, every set of requests,  *)
(* every content of the words around the page and every sequence of calls, *)
(* until the first of the accidents that Heap names.                       *)
EXTENDS MCHeap, FiniteSetTheorems, WellFoundedInduction, TLAPS

-----------------------------------------------------------------------------
(* Numbers and words.                                                      *)

Memory == [Addr -> Addr]

LEMMA ConstantFacts ==
    /\ TOP \in Nat /\ PAGE \in Nat /\ Start \in Nat
    /\ PAGE >= 8 /\ Start > TOP /\ Start + PAGE + 3 < 2 * TOP
    /\ FirstHeader = Start + 2 /\ ArenaEnd = Start + PAGE + 2 /\ free_list = Start
    /\ Addr = 0 .. (2 * TOP - 1) /\ NULL = 0
    /\ \A s \in Requests : s \in 1 .. (TOP - 3)
<1> DEFINE n == PAGE * MaxPages
<1>1. n \in Nat /\ n >= PAGE
  BY HeapAssumption
<1>2. Start + n + 3 < 2 * TOP
  BY HeapAssumption
<1> HIDE DEF n
<1> QED
  BY <1>1, <1>2, HeapAssumption DEF FirstHeader, ArenaEnd, free_list, Addr, NULL

LEMMA AtFacts ==
    /\ \A a \in Addr : At(a) = a
    /\ \A a \in Int : At(a) \in Addr
  BY ConstantFacts DEF At, Addr

LEMMA SizeFacts ==
    /\ \A w \in Addr : size(w) \in 0 .. (TOP - 1) /\ in_use(w) \in BOOLEAN
    /\ \A w \in 0 .. (TOP - 1) : size(w) = w /\ ~in_use(w) /\ size(w + TOP) = w /\ in_use(w + TOP)
    /\ \A w \in Int : w % TOP \in 0 .. (TOP - 1)
    /\ \A w \in 0 .. (TOP - 1) : w % TOP = w
<1> DEFINE T == TOP
<1>1. T \in Nat /\ T > 0
  BY ConstantFacts
<1> HIDE DEF T
<1>2. /\ \A w \in Int : w % T \in 0 .. (T - 1)
      /\ \A w \in 0 .. (T - 1) : w % T = w /\ (w + T) % T = w
      /\ \A w \in 0 .. (T - 1) : w + T >= T /\ ~(w >= T)
  BY <1>1
<1> QED
  BY <1>1, <1>2, ConstantFacts DEF T, size, in_use, Addr

-----------------------------------------------------------------------------
(* Induction, and walks.                                                   *)

LEMMA LeastNatural ==
    ASSUME NEW T \in SUBSET Nat, T # {}
    PROVE  \E n \in T : \A m \in T : n <= m
<1>1. PICK n \in T : \A m \in T : <<m, n>> \notin OpToRel(<, Nat)
  BY WFMin, NatLessThanWellFounded, Zenon
<1>2. \A m \in T : ~(m < n)
  <2> SUFFICES ASSUME NEW m \in T, m < n PROVE FALSE
    OBVIOUS
  <2>1. m \in Nat /\ n \in Nat
    OBVIOUS
  <2> QED
    BY <1>1, <2>1, Zenon DEF OpToRel
<1> QED
  BY <1>2

\* A bounded set of integers has a largest member.
LEMMA GreatestBelow ==
    ASSUME NEW b \in Int, NEW T \in SUBSET Int, T # {}, \A t \in T : t <= b
    PROVE  \E n \in T : \A m \in T : m <= n
<1> DEFINE D == {n \in Nat : b - n \in T}
<1>1. D \in SUBSET Nat /\ D # {}
  <2>1. PICK t \in T : TRUE
    OBVIOUS
  <2>2. b - t \in Nat /\ b - (b - t) = t
    BY <2>1
  <2> QED
    BY <2>1, <2>2
<1>2. PICK n \in D : \A m \in D : n <= m
  <2> HIDE DEF D
  <2> QED
    BY <1>1, LeastNatural
<1>3. n \in Nat /\ b - n \in T
  BY <1>2
<1>4. ASSUME NEW m \in T PROVE m <= b - n
  <2>1. m \in Int /\ b - m \in Nat /\ b - (b - m) = m
    BY <1>4
  <2>2. b - m \in D
    BY <2>1
  <2>3. n <= b - m
    BY <1>2, <2>2, Zenon
  <2> QED
    BY <1>3, <2>1, <2>3
<1> QED
  BY <1>3, <1>4

\* What a walk from e meets: up to the first word in S, wherever nx leads.
Closed(nx, S, T) == \A y \in T \ S : nx[y] \in T
Reach(nx, S, e) == {x \in Addr : \A T \in SUBSET Addr : e \in T /\ Closed(nx, S, T) => x \in T}

LEMMA ReachStep ==
    ASSUME NEW nx \in Memory, NEW S \in SUBSET Addr, NEW e \in Addr
    PROVE  /\ e \in S => Reach(nx, S, e) = {e}
           /\ e \notin S => Reach(nx, S, e) = {e} \cup Reach(nx, S, nx[e])
<1>1. e \in Reach(nx, S, e)
  BY DEF Reach
<1>2. ASSUME e \in S, NEW x \in Reach(nx, S, e) PROVE x = e
  <2>1. {e} \in SUBSET Addr /\ e \in {e} /\ Closed(nx, S, {e})
    BY <1>2 DEF Closed
  <2>2. x \in {e}
    BY <1>2, <2>1 DEF Reach
  <2> QED
    BY <2>2
<1> DEFINE R == Reach(nx, S, nx[e])
           U == {e} \cup R
<1>3. nx[e] \in Addr /\ R \in SUBSET Addr /\ nx[e] \in R
  BY DEF Reach, Memory
<1>4. ASSUME NEW y \in R, y \notin S PROVE nx[y] \in R
  <2>1. nx[y] \in Addr
    BY <1>4 DEF Reach, Memory
  <2>2. ASSUME NEW T \in SUBSET Addr, nx[e] \in T, Closed(nx, S, T) PROVE nx[y] \in T
    <3>1. y \in T
      BY <1>4, <2>2 DEF Reach
    <3> QED
      BY <1>4, <2>2, <3>1 DEF Closed
  <2> QED
    BY <2>1, <2>2 DEF Reach
<1>5. ASSUME NEW x \in Reach(nx, S, e) PROVE x \in U
  <2>1. U \in SUBSET Addr /\ e \in U
    BY <1>3
  <2>2. Closed(nx, S, U)
    <3> HIDE DEF R
    <3> QED
      BY <1>3, <1>4 DEF Closed
  <2> QED
    BY <1>5, <2>1, <2>2 DEF Reach
<1>6. ASSUME e \notin S, NEW x \in R PROVE x \in Reach(nx, S, e)
  <2>1. ASSUME NEW T \in SUBSET Addr, e \in T, Closed(nx, S, T) PROVE x \in T
    <3>1. nx[e] \in T
      BY <1>6, <2>1 DEF Closed
    <3> QED
      BY <1>6, <2>1, <3>1 DEF Reach
  <2> QED
    BY <1>3, <1>6, <2>1 DEF Reach
<1> QED
  BY <1>1, <1>2, <1>5, <1>6

\* The functions that follow the list exist, whatever lies in memory.
Walks(walk, next, stop, value) ==
    \A e \in Addr : walk[e] = IF e \in stop THEN value[e] ELSE walk[next[e]]

LEMMA WalkExists ==
    ASSUME NEW nx \in Memory, NEW S \in SUBSET Addr, NEW out \in [Addr -> Addr]
    PROVE  \E f \in [Addr -> Addr] : Walks(f, nx, S, out)
<1> DEFINE R(e) == Reach(nx, S, e) \cap S
           f == [e \in Addr |-> IF R(e) = {} THEN 0 ELSE out[CHOOSE x \in R(e) : TRUE]]
<1>1. ASSUME NEW e \in Addr PROVE f[e] = IF e \in S THEN out[e] ELSE f[nx[e]]
  <2>1. CASE e \in S
    <3>1. R(e) = {e}
      BY <2>1, ReachStep
    <3>2. (CHOOSE x \in {e} : TRUE) = e
      OBVIOUS
    <3> QED
      BY <2>1, <3>1, <3>2
  <2>2. CASE e \notin S
    <3>1. R(e) = R(nx[e])
      BY <2>2, ReachStep
    <3>2. nx[e] \in Addr
      BY DEF Memory
    <3> QED
      BY <2>2, <3>1, <3>2
  <2> QED
    BY <2>1, <2>2
<1>2. f \in [Addr -> Addr]
  <2>1. 0 \in Addr
    BY ConstantFacts
  <2>2. \A e \in Addr : R(e) # {} => (CHOOSE x \in R(e) : TRUE) \in Addr
    OBVIOUS
  <2> HIDE DEF R
  <2> QED
    BY <2>1, <2>2
<1> HIDE DEF f
<1> QED
  BY <1>1, <1>2 DEF Walks

\* Along a path that stops nowhere the walk gives what it gives at the end.
Path(next, stop, k, d) ==
    /\ k \in Nat /\ d \in [0 .. k -> Addr]
    /\ \A i \in 0 .. (k - 1) : d[i] \notin stop /\ next[d[i]] = d[i + 1]

LEMMA WalkAlong ==
    ASSUME NEW nx, NEW S, NEW out, NEW f, Walks(f, nx, S, out), NEW k, NEW d, Path(nx, S, k, d)
    PROVE  f[d[0]] = f[d[k]]
<1>0. /\ k \in Nat /\ d \in [0 .. k -> Addr]
      /\ \A i \in 0 .. (k - 1) : d[i] \notin S /\ nx[d[i]] = d[i + 1]
  BY DEF Path
<1> SUFFICES ASSUME f[d[0]] # f[d[k]] PROVE FALSE
  OBVIOUS
<1> DEFINE T == {i \in 0 .. k : f[d[i]] # f[d[k]]}
<1>1. PICK i \in T : \A j \in T : j <= i
  <2>1. k \in Int /\ T \in SUBSET Int /\ T # {} /\ \A t \in T : t <= k
    <3>1. 0 \in T
      BY <1>0
    <3>2. T \in SUBSET Int /\ \A t \in T : t <= k
      BY <1>0
    <3> QED
      BY <1>0, <3>1, <3>2
  <2> HIDE DEF T
  <2> QED
    BY <2>1, GreatestBelow
<1>2. i \in 0 .. k /\ f[d[i]] # f[d[k]]
  BY <1>1
<1>3. i # k
  BY <1>2
<1>4. i \in 0 .. (k - 1) /\ i + 1 \in 0 .. k
  BY <1>0, <1>2, <1>3
<1>5. d[i] \in Addr /\ d[i] \notin S /\ nx[d[i]] = d[i + 1]
  BY <1>0, <1>4
<1>6. f[d[i]] = f[d[i + 1]]
  BY <1>5 DEF Walks
<1>7. i + 1 \in T
  BY <1>2, <1>4, <1>6
<1> QED
  BY <1>1, <1>2, <1>7

-----------------------------------------------------------------------------
(* The free list.                                                          *)

\* Headers with room for a payload and a footer between them, where the blocks
\* of the page lie.
Spaced(B) ==
    /\ B \subseteq FirstHeader .. (ArenaEnd - 3)
    /\ \A g, h \in B : g < h => g + 3 <= h

LEMMA SpacedFacts ==
    ASSUME NEW B, Spaced(B)
    PROVE  /\ \A h \in B : /\ h \in Int /\ h \in Addr /\ h + 1 \in Addr /\ h # NULL /\ h + 1 # NULL
                           /\ Start + 2 <= h /\ h + 3 <= ArenaEnd
                           /\ entry_of(h) = h + 1 /\ header_of_free_block(h + 1) = h
           /\ \A g, h \in B : g < h => g + 3 <= h
<1>1. ASSUME NEW h \in B
      PROVE  /\ h \in Int /\ Start + 2 <= h /\ h + 3 <= ArenaEnd
             /\ h \in Addr /\ h + 1 \in Addr /\ h # NULL /\ h + 1 # NULL
  <2>1. h \in FirstHeader .. (ArenaEnd - 3)
    BY <1>1 DEF Spaced
  <2> QED
    BY <2>1, ConstantFacts
<1>2. ASSUME NEW h \in B PROVE entry_of(h) = h + 1 /\ header_of_free_block(h + 1) = h
  <2>1. At(h + 1) = h + 1 /\ At(h) = h /\ (h + 1) - 1 = h
    BY <1>1, AtFacts
  <2> QED
    BY <2>1 DEF entry_of, header_of_free_block
<1>3. \A g, h \in B : g < h => g + 3 <= h
  BY DEF Spaced
<1> QED
  BY <1>1, <1>2, <1>3

\* The words from the sentinel on: c[i] is the entry of a block of F, smaller
\* blocks first.
List(m, F, n, c) ==
    /\ n \in Nat /\ c \in [0 .. n -> Addr]
    /\ c[0] = Start /\ m[c[n]] = NULL
    /\ \A i \in 0 .. (n - 1) : m[c[i]] = c[i + 1]
    /\ \A i \in 1 .. n : c[i] - 1 \in F
    /\ \A h \in F : \E i \in 1 .. n : c[i] = h + 1
    /\ \A i, j \in 1 .. n : i < j => c[i] # c[j] /\ size(m[c[i] - 1]) <= size(m[c[j] - 1])
Listed(m, F) == \E n, c : List(m, F, n, c)

Chained(F, n, c) ==
    /\ n \in Nat /\ 0 \in 0 .. n /\ n \in 0 .. n
    /\ \A i \in 0 .. n : c[i] \in Addr /\ c[i] \in Int /\ c[i] # NULL
    /\ \A i \in 1 .. n : /\ c[i] - 1 \in F /\ c[i] = (c[i] - 1) + 1
                         /\ c[i] # Start /\ header_of_free_block(c[i]) = c[i] - 1
    /\ \A i, j \in 0 .. n : c[i] = c[j] => i = j

LEMMA ListFacts ==
    ASSUME NEW m, NEW F, Spaced(F), NEW n, NEW c, List(m, F, n, c)
    PROVE  Chained(F, n, c)
<1>1. n \in Nat /\ c[0] = Start
  BY DEF List
<1>2. ASSUME NEW i \in 0 .. n PROVE c[i] \in Addr /\ c[i] \in Int
  <2>1. c[i] \in Addr
    BY <1>2 DEF List
  <2> QED
    BY <2>1, ConstantFacts
<1>3. ASSUME NEW i \in 1 .. n
      PROVE  /\ c[i] - 1 \in F /\ c[i] = (c[i] - 1) + 1
             /\ c[i] # Start /\ c[i] # NULL /\ header_of_free_block(c[i]) = c[i] - 1
  <2>1. c[i] - 1 \in F
    BY <1>3 DEF List
  <2>2. c[i] \in Int
    BY <1>1, <1>2
  <2>3. c[i] = (c[i] - 1) + 1
    BY <2>2
  <2>4. Start + 2 <= c[i] - 1 /\ header_of_free_block((c[i] - 1) + 1) = c[i] - 1
    BY <2>1, SpacedFacts
  <2> QED
    BY <2>1, <2>2, <2>3, <2>4, ConstantFacts
<1>4. ASSUME NEW i \in 0 .. n PROVE c[i] # NULL
  <2>1. i = 0 \/ i \in 1 .. n
    BY <1>1
  <2> QED
    BY <1>1, <1>3, <2>1, ConstantFacts
<1>5. ASSUME NEW i \in 0 .. n, NEW j \in 0 .. n, i < j PROVE c[i] # c[j]
  <2>1. j \in 1 .. n /\ (i = 0 \/ i \in 1 .. n)
    BY <1>1, <1>5
  <2>2. CASE i = 0
    BY <1>1, <1>3, <2>1, <2>2
  <2>3. CASE i \in 1 .. n
    BY <1>5, <2>1, <2>3 DEF List
  <2> QED
    BY <2>1, <2>2, <2>3
<1>6. ASSUME NEW i \in 0 .. n, NEW j \in 0 .. n, c[i] = c[j] PROVE i = j
  <2>1. i < j \/ j < i \/ i = j
    BY <1>1
  <2> QED
    BY <1>5, <1>6, <2>1
<1>7. 0 \in 0 .. n /\ n \in 0 .. n
  BY <1>1
<1> QED
  BY <1>1, <1>2, <1>3, <1>4, <1>6, <1>7 DEF Chained

LEMMA WalkStops ==
    ASSUME NEW m \in Memory, NEW F, Spaced(F), NEW n, NEW c, List(m, F, n, c),
           NEW S \in SUBSET Addr, NEW out \in [Addr -> Addr], NEW f, Walks(f, m, S, out),
           NEW p \in 0 .. n, \A i \in 0 .. (p - 1) : c[i] \notin S, c[p] \in S
    PROVE  f[Start] = out[c[p]]
<1> DEFINE d == [i \in 0 .. p |-> c[i]]
<1>1. n \in Nat /\ p \in Nat /\ c[0] = Start /\ c[p] \in Addr
  BY DEF List
<1>2. d \in [0 .. p -> Addr]
  <2>1. \A i \in 0 .. p : i \in 0 .. n
    BY <1>1
  <2> QED
    BY <2>1, ListFacts DEF Chained
<1>3. \A i \in 0 .. (p - 1) : d[i] \notin S /\ m[d[i]] = d[i + 1]
  <2> SUFFICES ASSUME NEW i \in 0 .. (p - 1) PROVE d[i] \notin S /\ m[d[i]] = d[i + 1]
    OBVIOUS
  <2>1. i \in 0 .. p /\ i + 1 \in 0 .. p /\ i \in 0 .. (n - 1)
    BY <1>1
  <2>2. d[i] = c[i] /\ d[i + 1] = c[i + 1]
    BY <2>1
  <2>3. m[c[i]] = c[i + 1]
    BY <2>1 DEF List
  <2> QED
    BY <2>2, <2>3
<1>4. d[0] = Start /\ d[p] = c[p]
  BY <1>1
<1> HIDE DEF d
<1>5. f[d[0]] = f[d[p]]
  <2>1. Path(m, S, p, d)
    BY <1>1, <1>2, <1>3 DEF Path
  <2> QED
    BY <2>1, WalkAlong
<1>6. f[c[p]] = out[c[p]]
  BY <1>1 DEF Walks
<1> QED
  BY <1>4, <1>5, <1>6

LEMMA WalkEnds ==
    ASSUME NEW m \in Memory, NEW F, Spaced(F), NEW n, NEW c, List(m, F, n, c),
           NEW S \in SUBSET Addr, NEW out \in [Addr -> Addr], NEW f, Walks(f, m, S, out),
           \A i \in 0 .. n : c[i] \notin S, NULL \in S
    PROVE  f[Start] = out[NULL]
<1> DEFINE d == [i \in 0 .. (n + 1) |-> IF i = n + 1 THEN NULL ELSE c[i]]
<1>1. n \in Nat /\ n + 1 \in Nat /\ c[0] = Start /\ m[c[n]] = NULL
  BY DEF List
<1>2. d \in [0 .. (n + 1) -> Addr]
  <2>1. \A i \in 0 .. (n + 1) : i = n + 1 \/ i \in 0 .. n
    BY <1>1
  <2> QED
    BY <2>1, ListFacts DEF Chained
<1>3. \A i \in 0 .. ((n + 1) - 1) : d[i] \notin S /\ m[d[i]] = d[i + 1]
  <2> SUFFICES ASSUME NEW i \in 0 .. ((n + 1) - 1) PROVE d[i] \notin S /\ m[d[i]] = d[i + 1]
    OBVIOUS
  <2>1. i \in 0 .. n /\ i \in 0 .. (n + 1) /\ i + 1 \in 0 .. (n + 1) /\ i # n + 1
    BY <1>1
  <2>2. d[i] = c[i] /\ d[i] \notin S
    BY <2>1
  <2>3. CASE i = n
    BY <1>1, <2>1, <2>2, <2>3
  <2>4. CASE i # n
    <3>1. i \in 0 .. (n - 1) /\ i + 1 # n + 1
      BY <1>1, <2>1, <2>4
    <3>2. m[c[i]] = c[i + 1] /\ d[i + 1] = c[i + 1]
      BY <2>1, <3>1 DEF List
    <3> QED
      BY <2>2, <3>2
  <2> QED
    BY <2>3, <2>4
<1>4. d[0] = Start /\ d[n + 1] = NULL
  BY <1>1
<1> HIDE DEF d
<1>5. f[d[0]] = f[d[n + 1]]
  <2>1. Path(m, S, n + 1, d)
    BY <1>1, <1>2, <1>3 DEF Path
  <2> QED
    BY <2>1, WalkAlong
<1>6. f[NULL] = out[NULL]
  BY <1>1 DEF Walks
<1> QED
  BY <1>4, <1>5, <1>6

\* Of the places on a list with a property, one is the first.
LEMMA FirstPlace ==
    ASSUME NEW n \in Nat, NEW P \in SUBSET (0 .. n), P # {}
    PROVE  \E p \in P : \A i \in 0 .. (p - 1) : i \notin P
<1>1. PICK p \in P : \A i \in P : p <= i
  <2>1. P \in SUBSET Nat
    OBVIOUS
  <2> QED
    BY <2>1, LeastNatural
<1>2. ASSUME NEW i \in 0 .. (p - 1) PROVE i \notin P
  <2>1. i \in Int /\ p \in Int /\ ~(p <= i)
    OBVIOUS
  <2> QED
    BY <1>1, <2>1
<1> QED
  BY <1>2

LEMMA FindIs ==
    ASSUME NEW m \in Memory, NEW F, NEW h, Spaced(F), Spaced({h}), Listed(m, F)
    PROVE  free_list_find(m, h) = IF h \in F THEN h + 1 ELSE NULL
<1> DEFINE S == {e \in Addr : e = NULL \/ header_of_free_block(e) = h}
           out == [e \in Addr |-> e]
           Is(f) == f = [e \in Addr |-> IF e = NULL \/ header_of_free_block(e) = h
                                          THEN e ELSE f[m[e]]]
           walk == CHOOSE f : Is(f)
<1>1. free_list_find(m, h) = walk[free_list]
  BY Zenon DEF free_list_find
<1>2. S \in SUBSET Addr /\ out \in [Addr -> Addr]
  OBVIOUS
<1>3. Is(walk)
  <2>1. PICK f \in [Addr -> Addr] : Walks(f, m, S, out)
    <3> HIDE DEF S, out
    <3> QED
      BY <1>2, WalkExists
  <2>2. Is(f)
    BY <2>1 DEF Walks
  <2> HIDE DEF Is
  <2> QED
    BY <2>2
<1>4. Walks(walk, m, S, out)
  <2>1. \A e \in Addr : walk[e] = IF e = NULL \/ header_of_free_block(e) = h THEN e ELSE walk[m[e]]
    <3> HIDE DEF walk
    <3> QED
      BY <1>3
  <2> HIDE DEF walk
  <2> QED
    BY <2>1 DEF Walks
<1> HIDE DEF walk, Is
<1>5. PICK n, c : List(m, F, n, c)
  BY DEF Listed
<1>list. Chained(F, n, c)
  BY <1>5, ListFacts
<1>6. h \in Addr /\ h + 1 \in Addr /\ h + 1 # NULL /\ header_of_free_block(h + 1) = h /\ h >= Start + 2
  BY SpacedFacts
<1>7. NULL \in S /\ out[NULL] = NULL
  BY ConstantFacts
<1>8. c[0] = Start /\ Start \in Addr /\ Start # NULL /\ header_of_free_block(Start) # h /\ Start \notin S
  <2>1. c[0] = Start
    BY <1>5 DEF List
  <2>2. Start \in Addr /\ Start - 1 \in Addr /\ Start # NULL
    BY ConstantFacts
  <2>3. header_of_free_block(Start) = Start - 1
    BY <2>2, AtFacts DEF header_of_free_block
  <2> QED
    BY <1>6, <2>1, <2>2, <2>3, ConstantFacts
<1>9. \A i \in 1 .. n : c[i] \in S <=> c[i] = h + 1
  <2> SUFFICES ASSUME NEW i \in 1 .. n PROVE c[i] \in S <=> c[i] = h + 1
    OBVIOUS
  <2>1. n \in Nat
    BY <1>list DEF Chained
  <2>2. c[i] \in Addr /\ c[i] \in Int /\ c[i] # NULL /\ header_of_free_block(c[i]) = c[i] - 1
    BY <1>list, <2>1 DEF Chained
  <2> QED
    BY <1>6, <2>2, ConstantFacts
<1>10. CASE h \in F
  <2>1. PICK q \in 1 .. n : c[q] = h + 1
    BY <1>5, <1>10 DEF List
  <2>2. q \in 0 .. n /\ c[q] \in S
    BY <1>9, <2>1
  <2>3. \A i \in 0 .. (q - 1) : c[i] \notin S
    <3> SUFFICES ASSUME NEW i \in 0 .. (q - 1), c[i] \in S PROVE FALSE
      OBVIOUS
    <3>1. n \in Nat
      BY <1>list DEF Chained
    <3>2. i \in 0 .. n /\ i # q /\ (i = 0 \/ i \in 1 .. n)
      BY <2>1, <3>1
    <3>3. c[i] # c[q]
      BY <1>list, <2>2, <3>2 DEF Chained
    <3> QED
      BY <1>8, <1>9, <2>1, <3>2, <3>3
  <2> HIDE DEF S, out
  <2>4. walk[Start] = out[c[q]]
    BY <1>2, <1>4, <1>5, <2>2, <2>3, WalkStops
  <2> QED
    BY <1>1, <1>6, <1>10, <2>1, <2>4, ConstantFacts DEF out
<1>11. CASE h \notin F
  <2>1. \A i \in 0 .. n : c[i] \notin S
    <3> SUFFICES ASSUME NEW i \in 0 .. n PROVE c[i] \notin S
      OBVIOUS
    <3>1. i = 0 \/ i \in 1 .. n
      BY <1>list DEF Chained
    <3>2. i \in 1 .. n => c[i] # h + 1
      <4> SUFFICES ASSUME i \in 1 .. n, c[i] = h + 1 PROVE FALSE
        OBVIOUS
      <4>1. c[i] - 1 \in F /\ c[i] - 1 = h
        BY <1>6, <1>list, ConstantFacts DEF Chained
      <4> QED
        BY <1>11, <4>1
    <3> QED
      BY <1>8, <1>9, <3>1, <3>2
  <2> HIDE DEF S, out
  <2>2. walk[Start] = out[NULL]
    BY <1>2, <1>4, <1>5, <1>7, <2>1, WalkEnds
  <2> QED
    BY <1>1, <1>7, <1>11, <2>2, ConstantFacts
<1> QED
  BY <1>10, <1>11

\* The list functions write the sentinel and the entries of free blocks only.
OnlyLinks(m, m2, F) ==
    /\ m \in Memory /\ m2 \in Memory
    /\ \A a \in Addr : a # Start /\ a - 1 \notin F => m2[a] = m[a]

LEMMA LinksKeepHeaders ==
    ASSUME NEW m, NEW m2, NEW F, NEW B, Spaced(B), F \subseteq B, OnlyLinks(m, m2, F)
    PROVE  \A h \in B : m2[h] = m[h]
<1> SUFFICES ASSUME NEW h \in B PROVE m2[h] = m[h]
  OBVIOUS
<1>1. h \in Addr /\ h \in Int /\ h >= Start + 2
  BY SpacedFacts
<1>2. h - 1 \notin F
  <2> SUFFICES ASSUME h - 1 \in F PROVE FALSE
    OBVIOUS
  <2>1. h - 1 \in B /\ h - 1 < h
    BY <1>1
  <2>2. (h - 1) + 3 <= h
    BY <2>1, SpacedFacts
  <2> QED
    BY <1>1, <2>2
<1>3. h # Start
  BY <1>1, ConstantFacts
<1> QED
  BY <1>1, <1>2, <1>3 DEF OnlyLinks

\* Taking the q-th entry off a list, and putting one behind the p-th.
LEMMA Unlink ==
    ASSUME NEW m \in Memory, NEW F, Spaced(F), NEW n, NEW c, List(m, F, n, c), NEW q \in 1 .. n
    PROVE  LET m2 == [m EXCEPT ![c[q - 1]] = m[c[q]]]
           IN  Listed(m2, F \ {c[q] - 1}) /\ OnlyLinks(m, m2, F)
<1> DEFINE m2 == [m EXCEPT ![c[q - 1]] = m[c[q]]]
           G == F \ {c[q] - 1}
           d == [i \in 0 .. (n - 1) |-> IF i < q THEN c[i] ELSE c[i + 1]]
<1>list. Chained(F, n, c)
  BY ListFacts
<1>1. /\ n \in Nat /\ q \in Nat /\ q - 1 \in 0 .. n /\ q \in 0 .. n /\ q # q - 1 /\ n - 1 \in Nat
      /\ c[q - 1] \in Addr /\ c[q] \in Addr
  BY <1>list DEF Chained
<1>2. m[c[q]] \in Addr
  BY <1>1 DEF Memory
<1>3. OnlyLinks(m, m2, F)
  <2>1. m2 \in Memory
    BY <1>1, <1>2 DEF Memory
  <2>2. c[q - 1] = Start \/ c[q - 1] - 1 \in F
    <3>1. q - 1 = 0 \/ q - 1 \in 1 .. n
      BY <1>1
    <3> QED
      BY <1>list, <3>1 DEF List, Chained
  <2>3. \A a \in Addr : a # c[q - 1] => m2[a] = m[a]
    BY DEF Memory
  <2> QED
    BY <2>1, <2>2, <2>3 DEF OnlyLinks
<1>4. \A g \in F : m2[g] = m[g]
  <2> HIDE DEF m2
  <2> QED
    BY <1>3, LinksKeepHeaders
<1>5. m2[c[q - 1]] = m[c[q]] /\ \A i \in 0 .. n : i # q - 1 => m2[c[i]] = m[c[i]]
  <2>1. \A i \in 0 .. n : i # q - 1 => c[i] # c[q - 1] /\ c[i] \in Addr
    BY <1>1, <1>list DEF Chained
  <2> QED
    BY <1>1, <2>1 DEF Memory
<1> HIDE DEF m2
<1>6. \A i \in 0 .. (n - 1) : /\ i < q => d[i] = c[i]
                              /\ ~(i < q) => d[i] = c[i + 1]
                              /\ i \in 0 .. n /\ i + 1 \in 0 .. n
  BY <1>1
<1>7. d \in [0 .. (n - 1) -> Addr]
  <2>1. \A i \in 0 .. n : c[i] \in Addr
    BY <1>list DEF Chained
  <2> QED
    BY <1>6, <2>1
<1> HIDE DEF d
<1>8. d[0] = Start
  <2>1. 0 \in 0 .. (n - 1) /\ 0 < q
    BY <1>1
  <2> QED
    BY <1>6, <2>1 DEF List
<1>9. m2[d[n - 1]] = NULL
  <2>1. n - 1 \in 0 .. (n - 1) /\ (n - 1) + 1 = n
    BY <1>1
  <2>2. m[c[n]] = NULL
    BY DEF List
  <2>3. CASE q = n
    <3>1. d[n - 1] = c[q - 1]
      BY <1>1, <1>6, <2>1, <2>3
    <3> QED
      BY <1>5, <2>2, <2>3, <3>1
  <2>4. CASE q # n
    <3>1. d[n - 1] = c[n] /\ n # q - 1
      BY <1>1, <1>6, <2>1, <2>4
    <3> QED
      BY <1>1, <1>5, <2>2, <3>1
  <2> QED
    BY <2>3, <2>4
<1>10. ASSUME NEW i \in 0 .. ((n - 1) - 1) PROVE m2[d[i]] = d[i + 1]
  <2>1. /\ i \in 0 .. (n - 1) /\ i + 1 \in 0 .. (n - 1) /\ i \in 0 .. n /\ i + 1 \in 0 .. n
        /\ (i + 1) + 1 \in 0 .. n /\ i \in Int
    BY <1>1
  <2>2. m[c[i]] = c[i + 1] /\ m[c[i + 1]] = c[(i + 1) + 1]
    BY <2>1 DEF List
  <2>3. CASE i < q - 1
    <3>1. d[i] = c[i] /\ d[i + 1] = c[i + 1] /\ i # q - 1
      BY <1>1, <1>6, <2>1, <2>3
    <3> QED
      BY <1>5, <2>1, <2>2, <3>1
  <2>4. CASE i = q - 1
    <3>1. i + 1 = q
      BY <1>1, <2>4
    <3>2. d[i] = c[q - 1] /\ d[i + 1] = c[(i + 1) + 1]
      BY <1>1, <1>6, <2>1, <2>4, <3>1
    <3> QED
      BY <1>5, <2>2, <3>1, <3>2
  <2>5. CASE i > q - 1
    <3>1. d[i] = c[i + 1] /\ d[i + 1] = c[(i + 1) + 1] /\ i + 1 # q - 1
      BY <1>1, <1>6, <2>1, <2>5
    <3> QED
      BY <1>5, <2>1, <2>2, <3>1
  <2> QED
    BY <1>1, <2>1, <2>3, <2>4, <2>5
<1> DEFINE from(i) == IF i < q THEN i ELSE i + 1
<1>11. \A i \in 1 .. (n - 1) : /\ from(i) \in 1 .. n /\ from(i) # q /\ d[i] = c[from(i)]
                               /\ \A j \in 1 .. (n - 1) : i < j => from(i) < from(j)
  <2>1. \A i \in 1 .. (n - 1) : i \in 0 .. (n - 1)
    BY <1>1
  <2> QED
    BY <1>1, <1>6, <2>1
<1>12. \A k \in 1 .. n : k # q => \E i \in 1 .. (n - 1) : from(i) = k
  <2> SUFFICES ASSUME NEW k \in 1 .. n, k # q PROVE \E i \in 1 .. (n - 1) : from(i) = k
    OBVIOUS
  <2>1. CASE k < q
    <3>1. k \in 1 .. (n - 1) /\ from(k) = k
      BY <1>1, <2>1
    <3> QED
      BY <3>1
  <2>2. CASE k > q
    <3>1. k - 1 \in 1 .. (n - 1) /\ from(k - 1) = k
      BY <1>1, <2>2
    <3> QED
      BY <3>1
  <2> QED
    BY <1>1, <2>1, <2>2
<1> HIDE DEF from
<1>13. ASSUME NEW i \in 1 .. (n - 1) PROVE d[i] - 1 \in G
  <2>1. c[from(i)] # c[q] /\ c[from(i)] - 1 \in F /\ c[from(i)] \in Int /\ c[q] \in Int
    <3>1. from(i) \in 0 .. n
      BY <1>1, <1>11
    <3> QED
      BY <1>1, <1>11, <1>list, <3>1 DEF Chained
  <2>2. c[from(i)] - 1 # c[q] - 1
    BY <2>1
  <2> QED
    BY <1>11, <2>1, <2>2
<1>14. ASSUME NEW h \in G PROVE \E i \in 1 .. (n - 1) : d[i] = h + 1
  <2>1. PICK k \in 1 .. n : c[k] = h + 1
    BY <1>14 DEF List
  <2>2. h \in Int
    BY <1>14, SpacedFacts
  <2>3. k # q
    BY <1>14, <2>1, <2>2
  <2> QED
    BY <1>11, <1>12, <2>1, <2>3
<1>15. ASSUME NEW i \in 1 .. (n - 1), NEW j \in 1 .. (n - 1), i < j
       PROVE  d[i] # d[j] /\ size(m2[d[i] - 1]) <= size(m2[d[j] - 1])
  <2>1. from(i) < from(j) /\ d[i] = c[from(i)] /\ d[j] = c[from(j)]
        /\ from(i) \in 1 .. n /\ from(j) \in 1 .. n
    BY <1>11, <1>15
  <2>2. c[from(i)] # c[from(j)] /\ size(m[c[from(i)] - 1]) <= size(m[c[from(j)] - 1])
    BY <2>1 DEF List
  <2>3. d[i] - 1 \in F /\ d[j] - 1 \in F
    BY <1>13, <1>15
  <2> QED
    BY <1>4, <2>1, <2>2, <2>3
<1>16. List(m2, G, n - 1, d)
  <2> HIDE DEF G
  <2> QED
    BY <1>1, <1>7, <1>8, <1>9, <1>10, <1>13, <1>14, <1>15 DEF List
<1>17. Listed(m2, G)
  BY <1>16 DEF Listed
<1> QED
  BY <1>3, <1>17 DEF m2

LEMMA Link ==
    ASSUME NEW m \in Memory, NEW F, NEW h, h \notin F, Spaced(F \cup {h}),
           NEW n, NEW c, List(m, F, n, c), NEW p \in 0 .. n,
           \A i \in 1 .. p : size(m[c[i] - 1]) <= size(m[h]),
           \A i \in (p + 1) .. n : size(m[h]) <= size(m[c[i] - 1])
    PROVE  LET m2 == [m EXCEPT ![h + 1] = m[c[p]], ![c[p]] = h + 1]
           IN  Listed(m2, F \cup {h}) /\ OnlyLinks(m, m2, F \cup {h})
<1> DEFINE m2 == [m EXCEPT ![h + 1] = m[c[p]], ![c[p]] = h + 1]
           G == F \cup {h}
           d == [i \in 0 .. (n + 1) |-> IF i <= p THEN c[i] ELSE IF i = p + 1 THEN h + 1 ELSE c[i - 1]]
<1>spaced. Spaced(F)
  BY DEF Spaced
<1>list. Chained(F, n, c)
  BY <1>spaced, ListFacts
<1>1. /\ n \in Nat /\ p \in Nat /\ p \in 0 .. n /\ c[p] \in Addr /\ n + 1 \in Nat
      /\ \A i \in 0 .. n : c[i] \in Addr /\ c[i] \in Int
  BY <1>list DEF Chained
<1>2. m[c[p]] \in Addr /\ h \in Addr /\ h + 1 \in Addr /\ h \in Int /\ h >= Start + 2
  BY <1>1, SpacedFacts DEF Memory
<1>3. \A i \in 0 .. n : c[i] # h + 1
  <2> SUFFICES ASSUME NEW i \in 0 .. n, c[i] = h + 1 PROVE FALSE
    OBVIOUS
  <2>1. i = 0 \/ i \in 1 .. n
    BY <1>1
  <2>2. c[0] = Start
    BY DEF List
  <2>3. i # 0
    BY <1>2, <2>2, ConstantFacts
  <2>4. c[i] - 1 \in F
    BY <2>1, <2>3, <1>list DEF Chained
  <2> QED
    BY <1>2, <2>4
<1>4. OnlyLinks(m, m2, G)
  <2>1. m2 \in Memory
    BY <1>1, <1>2 DEF Memory
  <2>2. c[p] = Start \/ c[p] - 1 \in F
    <3>1. p = 0 \/ p \in 1 .. n
      BY <1>1
    <3> QED
      BY <1>list, <3>1 DEF List, Chained
  <2>3. \A a \in Addr : a # c[p] /\ a # h + 1 => m2[a] = m[a]
    BY DEF Memory
  <2>4. \A a \in Addr : a - 1 \notin G => a # h + 1
    BY <1>2
  <2> QED
    BY <2>1, <2>2, <2>3, <2>4 DEF OnlyLinks
<1>5. \A g \in G : m2[g] = m[g]
  <2> HIDE DEF m2, G
  <2> QED
    BY <1>4, LinksKeepHeaders DEF G
<1>6. m2[c[p]] = h + 1 /\ m2[h + 1] = m[c[p]] /\ \A i \in 0 .. n : i # p => m2[c[i]] = m[c[i]]
  <2>1. \A i \in 0 .. n : i # p => c[i] # c[p] /\ c[i] \in Addr
    BY <1>1, <1>list DEF Chained
  <2> QED
    BY <1>1, <1>2, <1>3, <2>1 DEF Memory
<1> HIDE DEF m2
<1>7. \A i \in 0 .. (n + 1) : /\ i <= p => d[i] = c[i] /\ i \in 0 .. n
                              /\ i = p + 1 => d[i] = h + 1
                              /\ i > p + 1 => d[i] = c[i - 1] /\ i - 1 \in 0 .. n
  BY <1>1
<1>8. d \in [0 .. (n + 1) -> Addr]
  <2>1. \A i \in 0 .. (n + 1) : d[i] \in Addr
    <3> HIDE DEF d
    <3> QED
      BY <1>1, <1>2, <1>7
  <2> QED
    BY <2>1
<1> HIDE DEF d
<1>9. d[0] = Start
  <2>1. 0 \in 0 .. (n + 1) /\ 0 <= p
    BY <1>1
  <2> QED
    BY <1>7, <2>1 DEF List
<1>10. m2[d[n + 1]] = NULL
  <2>1. n + 1 \in 0 .. (n + 1) /\ (n + 1) - 1 = n
    BY <1>1
  <2>2. m[c[n]] = NULL
    BY DEF List
  <2>3. CASE p = n
    <3>1. d[n + 1] = h + 1
      BY <1>7, <2>1, <2>3
    <3> QED
      BY <1>6, <2>2, <2>3, <3>1
  <2>4. CASE p # n
    <3>1. d[n + 1] = c[n]
      BY <1>1, <1>7, <2>1, <2>4
    <3> QED
      BY <1>1, <1>6, <1>list, <2>2, <2>4, <3>1 DEF Chained
  <2> QED
    BY <2>3, <2>4
<1>11. ASSUME NEW i \in 0 .. ((n + 1) - 1) PROVE m2[d[i]] = d[i + 1]
  <2>1. i \in 0 .. (n + 1) /\ i + 1 \in 0 .. (n + 1) /\ i \in 0 .. n /\ i \in Int /\ (i + 1) - 1 = i
    BY <1>1
  <2>2. i < n => m[c[i]] = c[i + 1]
    <3>1. i < n => i \in 0 .. (n - 1)
      BY <1>1, <2>1
    <3> QED
      BY <3>1 DEF List
  <2>3. CASE i < p
    <3>1. d[i] = c[i] /\ d[i + 1] = c[i + 1] /\ i # p /\ i < n
      BY <1>1, <1>7, <2>1, <2>3
    <3> QED
      BY <1>6, <2>1, <2>2, <3>1
  <2>4. CASE i = p
    <3>1. d[i] = c[p] /\ d[i + 1] = h + 1
      BY <1>1, <1>7, <2>1, <2>4
    <3> QED
      BY <1>6, <3>1
  <2>5. CASE i = p + 1
    <3>1. d[i] = h + 1 /\ d[i + 1] = c[i] /\ p < n
      BY <1>1, <1>7, <2>1, <2>5
    <3>2. m[c[p]] = c[p + 1]
      <4>1. p \in 0 .. (n - 1)
        BY <1>1, <3>1
      <4> QED
        BY <4>1 DEF List
    <3> QED
      BY <1>6, <2>5, <3>1, <3>2
  <2>6. CASE i > p + 1
    <3>1. d[i] = c[i - 1] /\ d[i + 1] = c[i] /\ i - 1 # p /\ i - 1 \in 0 .. (n - 1) /\ i - 1 \in 0 .. n
      BY <1>1, <1>7, <2>1, <2>6
    <3>2. m[c[i - 1]] = c[(i - 1) + 1] /\ (i - 1) + 1 = i
      BY <2>1, <3>1 DEF List
    <3> QED
      BY <1>6, <3>1, <3>2
  <2> QED
    BY <1>1, <2>1, <2>3, <2>4, <2>5, <2>6
<1>12. ASSUME NEW i \in 1 .. (n + 1), i # p + 1
       PROVE  LET k == IF i <= p THEN i ELSE i - 1 IN k \in 1 .. n /\ d[i] = c[k]
  <2>1. i \in 0 .. (n + 1)
    BY <1>1
  <2> QED
    BY <1>1, <1>7, <1>12, <2>1
<1>13. d[p + 1] = h + 1 /\ p + 1 \in 1 .. (n + 1)
  <2>1. p + 1 \in 0 .. (n + 1) /\ p + 1 \in 1 .. (n + 1)
    BY <1>1
  <2> QED
    BY <1>7, <2>1
<1> DEFINE at(i) == IF i <= p THEN i ELSE i - 1
<1>14. \A i \in 1 .. (n + 1) : i # p + 1 => at(i) \in 1 .. n /\ d[i] = c[at(i)]
  BY <1>12
<1>15. \A k \in 1 .. n : \E i \in 1 .. (n + 1) : i # p + 1 /\ at(i) = k
  <2> SUFFICES ASSUME NEW k \in 1 .. n PROVE \E i \in 1 .. (n + 1) : i # p + 1 /\ at(i) = k
    OBVIOUS
  <2>1. CASE k <= p
    <3>1. k \in 1 .. (n + 1) /\ k # p + 1 /\ at(k) = k
      BY <1>1, <2>1
    <3> QED
      BY <3>1
  <2>2. CASE k > p
    <3>1. k + 1 \in 1 .. (n + 1) /\ k + 1 # p + 1 /\ at(k + 1) = k
      BY <1>1, <2>2
    <3> QED
      BY <3>1
  <2> QED
    BY <1>1, <2>1, <2>2
<1>16. ASSUME NEW i \in 1 .. (n + 1) PROVE d[i] - 1 \in G
  <2>1. CASE i = p + 1
    BY <1>2, <1>13, <2>1
  <2>2. CASE i # p + 1
    <3> HIDE DEF at
    <3> QED
      BY <1>14, <2>2, <1>list DEF Chained
  <2> QED
    BY <2>1, <2>2
<1>17. ASSUME NEW g \in G PROVE \E i \in 1 .. (n + 1) : d[i] = g + 1
  <2>1. CASE g = h
    BY <1>13, <2>1
  <2>2. CASE g \in F
    <3>1. PICK k \in 1 .. n : c[k] = g + 1
      BY <2>2 DEF List
    <3> HIDE DEF at
    <3> QED
      BY <1>14, <1>15, <3>1
  <2> QED
    BY <1>17, <2>1, <2>2
<1>18. ASSUME NEW i \in 1 .. (n + 1), NEW j \in 1 .. (n + 1), i < j
       PROVE  d[i] # d[j] /\ size(m2[d[i] - 1]) <= size(m2[d[j] - 1])
  <2>1. d[i] - 1 \in G /\ d[j] - 1 \in G
    BY <1>16, <1>18
  <2>2. m2[d[i] - 1] = m[d[i] - 1] /\ m2[d[j] - 1] = m[d[j] - 1]
    <3> HIDE DEF G
    <3> QED
      BY <1>5, <2>1
  <2>3. CASE i = p + 1
    <3>1. at(j) \in (p + 1) .. n /\ at(j) \in 1 .. n /\ at(j) \in 0 .. n /\ d[j] = c[at(j)]
      BY <1>1, <1>12, <1>18, <2>3
    <3> HIDE DEF at
    <3>2. size(m[h]) <= size(m[c[at(j)] - 1]) /\ c[at(j)] # h + 1
      BY <1>3, <3>1
    <3>3. d[i] - 1 = h /\ d[i] = h + 1
      BY <1>2, <1>13, <2>3
    <3> QED
      BY <2>2, <3>1, <3>2, <3>3
  <2>4. CASE j = p + 1
    <3>1. at(i) \in 1 .. p /\ at(i) \in 1 .. n /\ at(i) \in 0 .. n /\ d[i] = c[at(i)]
      BY <1>1, <1>12, <1>18, <2>4
    <3> HIDE DEF at
    <3>2. size(m[c[at(i)] - 1]) <= size(m[h]) /\ c[at(i)] # h + 1
      BY <1>3, <3>1
    <3>3. d[j] - 1 = h /\ d[j] = h + 1
      BY <1>2, <1>13, <2>4
    <3> QED
      BY <2>2, <3>1, <3>2, <3>3
  <2>5. CASE i # p + 1 /\ j # p + 1
    <3>1. /\ at(i) \in 1 .. n /\ at(j) \in 1 .. n /\ at(i) < at(j)
          /\ d[i] = c[at(i)] /\ d[j] = c[at(j)]
      BY <1>1, <1>12, <1>18, <2>5
    <3> HIDE DEF at
    <3>2. c[at(i)] # c[at(j)] /\ size(m[c[at(i)] - 1]) <= size(m[c[at(j)] - 1])
      BY <3>1 DEF List
    <3> QED
      BY <2>2, <3>1, <3>2
  <2> QED
    BY <2>3, <2>4, <2>5
<1>19. List(m2, G, n + 1, d)
  <2> HIDE DEF G
  <2> QED
    BY <1>1, <1>8, <1>9, <1>10, <1>11, <1>16, <1>17, <1>18 DEF List
<1>20. Listed(m2, G)
  BY <1>19 DEF Listed
<1> QED
  BY <1>4, <1>20 DEF m2

LEMMA DeleteIs ==
    ASSUME NEW m \in Memory, NEW F, NEW h, Spaced(F), Spaced({h}), Listed(m, F)
    PROVE  /\ h \notin F => free_list_delete(m, h) = m
           /\ Listed(free_list_delete(m, h), F \ {h})
           /\ OnlyLinks(m, free_list_delete(m, h), F)
<1> DEFINE to_delete == free_list_find(m, h)
           S == {e \in Addr : ~(m[e] # NULL /\ m[e] # to_delete)}
           out == [e \in Addr |-> e]
           Is(f) == f = [e \in Addr |-> IF m[e] # NULL /\ m[e] # to_delete THEN f[m[e]] ELSE e]
           walk == CHOOSE f : Is(f)
           prev == walk[free_list]
<1>1. free_list_delete(m, h) = IF m[prev] # NULL THEN [m EXCEPT ![prev] = m[m[prev]]] ELSE m
  BY Zenon DEF free_list_delete
<1>2. S \in SUBSET Addr /\ out \in [Addr -> Addr]
  OBVIOUS
<1>find. to_delete = IF h \in F THEN h + 1 ELSE NULL
  BY FindIs
<1> HIDE DEF to_delete
<1>3. Is(walk)
  <2>1. PICK f \in [Addr -> Addr] : Walks(f, m, S, out)
    <3> HIDE DEF S, out
    <3> QED
      BY <1>2, WalkExists
  <2>2. Is(f)
    BY <2>1 DEF Walks
  <2> HIDE DEF Is
  <2> QED
    BY <2>2
<1>4. Walks(walk, m, S, out)
  <2>1. \A e \in Addr : walk[e] = IF m[e] # NULL /\ m[e] # to_delete THEN walk[m[e]] ELSE e
    <3> HIDE DEF walk
    <3> QED
      BY <1>3
  <2> HIDE DEF walk
  <2> QED
    BY <2>1 DEF Walks
<1> HIDE DEF walk, Is
<1>5. PICK n, c : List(m, F, n, c)
  BY DEF Listed
<1>list. Chained(F, n, c)
  BY <1>5, ListFacts
<1>6. /\ \A i \in 0 .. n : c[i] \in S <=> m[c[i]] = NULL \/ m[c[i]] = to_delete
      /\ \A i \in 0 .. n : out[c[i]] = c[i]
  BY <1>list DEF Chained
<1>7. \A i \in 0 .. (n - 1) : i \in 0 .. n /\ m[c[i]] = c[i + 1] /\ m[c[i]] # NULL /\ i + 1 \in 1 .. n
  <2> SUFFICES ASSUME NEW i \in 0 .. (n - 1)
               PROVE  i \in 0 .. n /\ m[c[i]] = c[i + 1] /\ m[c[i]] # NULL /\ i + 1 \in 1 .. n
    OBVIOUS
  <2>1. i \in 0 .. n /\ i + 1 \in 1 .. n /\ i + 1 \in 0 .. n
    BY <1>list DEF Chained
  <2>2. m[c[i]] = c[i + 1]
    BY <1>5 DEF List
  <2> QED
    BY <1>list, <2>1, <2>2 DEF Chained
<1>stop. ASSUME NEW p \in 0 .. n, c[p] \in S, \A i \in 0 .. (p - 1) : c[i] \notin S
         PROVE  prev = c[p]
  <2> HIDE DEF S, out
  <2>1. walk[Start] = out[c[p]]
    BY <1>2, <1>4, <1>5, <1>stop, WalkStops
  <2> QED
    BY <1>6, <2>1, ConstantFacts
<1> HIDE DEF prev
<1>8. CASE h \notin F
  <2>1. n \in 0 .. n /\ m[c[n]] = NULL
    BY <1>5, <1>list DEF List, Chained
  <2>2. c[n] \in S /\ \A i \in 0 .. (n - 1) : c[i] \notin S
    <3> HIDE DEF S
    <3> QED
      BY <1>6, <1>7, <1>8, <1>find, <2>1
  <2>3. prev = c[n]
    <3> HIDE DEF S
    <3> QED
      BY <1>stop, <2>1, <2>2
  <2>4. free_list_delete(m, h) = m
    BY <1>1, <2>1, <2>3
  <2>5. F \ {h} = F
    BY <1>8
  <2>6. OnlyLinks(m, m, F)
    BY DEF OnlyLinks
  <2> QED
    BY <2>4, <2>5, <2>6
<1>9. CASE h \in F
  <2>1. PICK q \in 1 .. n : c[q] = h + 1
    BY <1>5, <1>9 DEF List
  <2>2. q - 1 \in 0 .. (n - 1) /\ q - 1 \in 0 .. n /\ (q - 1) + 1 = q /\ h \in Int /\ c[q] - 1 = h
    <3>1. n \in Int /\ q \in Int
      BY <1>list DEF Chained
    <3>2. h \in Int
      BY SpacedFacts
    <3> QED
      BY <2>1, <3>1, <3>2
  <2>3. m[c[q - 1]] = c[q] /\ c[q] # NULL
    BY <1>7, <2>2
  <2>4. c[q - 1] \in S
    <3> HIDE DEF S
    <3> QED
      BY <1>6, <1>9, <1>find, <2>1, <2>2, <2>3
  <2>5. \A i \in 0 .. ((q - 1) - 1) : c[i] \notin S
    <3> SUFFICES ASSUME NEW i \in 0 .. ((q - 1) - 1) PROVE c[i] \notin S
      OBVIOUS
    <3>1. n \in Nat /\ q \in 0 .. n
      BY <1>list DEF Chained
    <3>2. i \in 0 .. (n - 1) /\ i + 1 \in 0 .. n /\ i + 1 # q
      BY <3>1
    <3>3. m[c[i]] = c[i + 1] /\ m[c[i]] # NULL /\ i \in 0 .. n
      BY <1>7, <3>2
    <3>4. c[i + 1] # c[q]
      BY <1>list, <3>1, <3>2 DEF Chained
    <3> HIDE DEF S
    <3> QED
      BY <1>6, <1>9, <1>find, <2>1, <3>3, <3>4
  <2>6. prev = c[q - 1]
    <3> HIDE DEF S
    <3> QED
      BY <1>stop, <2>2, <2>4, <2>5
  <2>7. free_list_delete(m, h) = [m EXCEPT ![c[q - 1]] = m[c[q]]]
    BY <1>1, <2>3, <2>6
  <2>8. Listed(free_list_delete(m, h), F \ {c[q] - 1}) /\ OnlyLinks(m, free_list_delete(m, h), F)
    <3> DEFINE m2 == [m EXCEPT ![c[q - 1]] = m[c[q]]]
    <3>1. Listed(m2, F \ {c[q] - 1}) /\ OnlyLinks(m, m2, F)
      BY <1>5, <2>1, Unlink
    <3> QED
      BY <2>7, <3>1, Zenon
  <2> QED
    BY <1>9, <2>2, <2>8
<1> QED
  BY <1>8, <1>9

LEMMA InsertIs ==
    ASSUME NEW m \in Memory, NEW F, NEW h, h \notin F, Spaced(F \cup {h}), Listed(m, F)
    PROVE  /\ Listed(free_list_insert(m, h), F \cup {h})
           /\ OnlyLinks(m, free_list_insert(m, h), F \cup {h})
<1> DEFINE Small(e) == m[e] # NULL /\ size(m[header_of_free_block(m[e])]) < size(m[h])
           S == {e \in Addr : ~Small(e)}
           out == [e \in Addr |-> e]
           Is(f) == f = [e \in Addr |-> IF Small(e) THEN f[m[e]] ELSE e]
           walk == CHOOSE f : Is(f)
           prev == walk[free_list]
<1>1. free_list_insert(m, h) = IF free_list_find(m, h) # NULL THEN m
                               ELSE [m EXCEPT ![entry_of(h)] = m[prev], ![prev] = entry_of(h)]
  BY Zenon DEF free_list_insert
<1>2. S \in SUBSET Addr /\ out \in [Addr -> Addr]
  OBVIOUS
<1>3. Is(walk)
  <2>1. PICK f \in [Addr -> Addr] : Walks(f, m, S, out)
    <3> HIDE DEF S, out
    <3> QED
      BY <1>2, WalkExists
  <2>2. Is(f)
    <3> HIDE DEF Small
    <3> QED
      BY <2>1 DEF Walks
  <2> HIDE DEF Is
  <2> QED
    BY <2>2
<1>4. Walks(walk, m, S, out)
  <2> HIDE DEF Small
  <2>1. \A e \in Addr : walk[e] = IF Small(e) THEN walk[m[e]] ELSE e
    <3> HIDE DEF walk
    <3> QED
      BY <1>3
  <2> HIDE DEF walk
  <2> QED
    BY <2>1 DEF Walks
<1> HIDE DEF walk, Is
<1>spaced. Spaced(F) /\ Spaced({h})
  BY DEF Spaced
<1>find. free_list_find(m, h) = NULL /\ entry_of(h) = h + 1
  BY <1>spaced, FindIs, SpacedFacts
<1>5. PICK n, c : List(m, F, n, c)
  BY DEF Listed
<1>list. Chained(F, n, c)
  BY <1>5, <1>spaced, ListFacts
<1>sizes. /\ size(m[h]) \in Int
          /\ \A g \in F : size(m[g]) \in Int
  <2>1. \A g \in F \cup {h} : g \in Addr
    BY SpacedFacts
  <2>2. \A g \in F \cup {h} : size(m[g]) \in 0 .. (TOP - 1)
    BY <2>1, SizeFacts DEF Memory
  <2> QED
    BY <2>2, ConstantFacts
<1>6. /\ \A i \in 0 .. n : c[i] \in S <=> ~Small(c[i])
      /\ \A i \in 0 .. n : out[c[i]] = c[i]
  <2> HIDE DEF Small
  <2> QED
    BY <1>list DEF Chained
<1>7. /\ ~Small(c[n])
      /\ \A i \in 1 .. n : Small(c[i - 1]) <=> size(m[c[i] - 1]) < size(m[h])
  <2>1. m[c[n]] = NULL
    BY <1>5 DEF List
  <2>2. ASSUME NEW i \in 1 .. n PROVE Small(c[i - 1]) <=> size(m[c[i] - 1]) < size(m[h])
    <3>1. i - 1 \in 0 .. (n - 1) /\ (i - 1) + 1 = i /\ i \in 0 .. n
      BY <1>list DEF Chained
    <3>2. m[c[i - 1]] = c[i]
      BY <1>5, <3>1 DEF List
    <3>3. c[i] # NULL /\ header_of_free_block(c[i]) = c[i] - 1
      BY <1>list, <3>1 DEF Chained
    <3> QED
      BY <3>2, <3>3
  <2> QED
    BY <2>1, <2>2
<1> HIDE DEF Small
<1>stop. ASSUME NEW p \in 0 .. n, c[p] \in S, \A i \in 0 .. (p - 1) : c[i] \notin S
         PROVE  prev = c[p]
  <2> HIDE DEF S, out
  <2>1. walk[Start] = out[c[p]]
    BY <1>2, <1>4, <1>5, <1>spaced, <1>stop, WalkStops
  <2> QED
    BY <1>6, <2>1, ConstantFacts
<1> HIDE DEF prev
<1>8. PICK p \in 0 .. n : c[p] \in S /\ \A i \in 0 .. (p - 1) : c[i] \notin S
  <2> DEFINE P == {i \in 0 .. n : c[i] \in S}
  <2>1. n \in Nat /\ P \in SUBSET (0 .. n) /\ P # {}
    <3>1. n \in Nat /\ n \in 0 .. n
      BY <1>list DEF Chained
    <3>2. n \in P
      BY <1>6, <1>7, <3>1
    <3> QED
      BY <3>1, <3>2
  <2>2. PICK p \in P : \A i \in 0 .. (p - 1) : i \notin P
    <3> HIDE DEF P
    <3> QED
      BY <2>1, FirstPlace
  <2>3. p \in 0 .. n /\ c[p] \in S /\ \A i \in 0 .. (p - 1) : i \in 0 .. n
    BY <2>1, <2>2
  <2> QED
    BY <2>2, <2>3
<1>9. prev = c[p]
  <2> HIDE DEF S
  <2> QED
    BY <1>8, <1>stop
<1>10. \A i \in 1 .. p : size(m[c[i] - 1]) <= size(m[h])
  <2> SUFFICES ASSUME NEW i \in 1 .. p PROVE size(m[c[i] - 1]) <= size(m[h])
    OBVIOUS
  <2>1. i \in 1 .. n /\ i - 1 \in 0 .. (p - 1) /\ i - 1 \in 0 .. n
    BY <1>list DEF Chained
  <2>2. Small(c[i - 1])
    <3> HIDE DEF S
    <3> QED
      BY <1>6, <1>8, <2>1
  <2>3. c[i] - 1 \in F
    BY <1>list, <2>1 DEF Chained
  <2> QED
    BY <1>7, <1>sizes, <2>1, <2>2, <2>3
<1>11. \A i \in (p + 1) .. n : size(m[h]) <= size(m[c[i] - 1])
  <2> SUFFICES ASSUME NEW i \in (p + 1) .. n PROVE size(m[h]) <= size(m[c[i] - 1])
    OBVIOUS
  <2>1. n \in Nat /\ i \in 1 .. n /\ p + 1 \in 1 .. n /\ (p + 1) - 1 = p /\ p \in Int /\ i \in Int
    BY <1>list DEF Chained
  <2>2. ~Small(c[p])
    <3> HIDE DEF S
    <3> QED
      BY <1>6, <1>8
  <2>3. c[p + 1] - 1 \in F /\ c[i] - 1 \in F
    BY <1>list, <2>1 DEF Chained
  <2>4. ~(size(m[c[p + 1] - 1]) < size(m[h]))
    BY <1>7, <2>1, <2>2
  <2>5. size(m[h]) <= size(m[c[p + 1] - 1])
    BY <1>sizes, <2>3, <2>4
  <2>6. CASE i = p + 1
    BY <2>5, <2>6
  <2>7. CASE p + 1 < i
    <3>1. size(m[c[p + 1] - 1]) <= size(m[c[i] - 1])
      BY <1>5, <2>1, <2>7 DEF List
    <3> QED
      BY <1>sizes, <2>3, <2>5, <3>1
  <2> QED
    BY <2>1, <2>6, <2>7
<1>12. free_list_insert(m, h) = [m EXCEPT ![h + 1] = m[c[p]], ![c[p]] = h + 1]
  BY <1>1, <1>9, <1>find
<1> DEFINE m2 == [m EXCEPT ![h + 1] = m[c[p]], ![c[p]] = h + 1]
<1>13. Listed(m2, F \cup {h}) /\ OnlyLinks(m, m2, F \cup {h})
  BY <1>5, <1>10, <1>11, Link
<1> QED
  BY <1>12, <1>13, Zenon

\* What alloc_memory starts from: the smallest block with room, or none has; or
\* the word below the page looks like one.
LEMMA CanFillIs ==
    ASSUME NEW m \in Memory, NEW F, NEW s \in Int, Spaced(F), Listed(m, F)
    PROVE  LET found == free_list_find_can_fill(m, s)
           IN  \/ found = Start - 1
               \/ found = NULL /\ \A g \in F : size(m[g]) < s
               \/ /\ found \in F /\ found # NULL /\ size(m[found]) >= s
                  /\ \A g \in F : size(m[g]) >= s => size(m[found]) <= size(m[g])
<1> DEFINE Fits(e) == size(m[header_of_free_block(e)]) >= s
           S == {e \in Addr : e = NULL \/ Fits(e)}
           out == [e \in Addr |-> IF e = NULL THEN NULL ELSE header_of_free_block(e)]
           Is(f) == f = [e \in Addr |-> CASE e = NULL -> NULL
                                          [] e # NULL /\ Fits(e) -> header_of_free_block(e)
                                          [] OTHER -> f[m[e]]]
           walk == CHOOSE f : Is(f)
           found == free_list_find_can_fill(m, s)
<1>1. found = walk[free_list]
  BY Zenon DEF free_list_find_can_fill
<1>2. S \in SUBSET Addr /\ out \in [Addr -> Addr]
  <2>1. \A e \in Addr : header_of_free_block(e) \in Addr /\ NULL \in Addr
    <3>1. \A e \in Addr : e - 1 \in Int
      BY ConstantFacts
    <3> QED
      BY <3>1, AtFacts, ConstantFacts DEF header_of_free_block
  <2> QED
    BY <2>1
<1>3. Is(walk)
  <2>1. PICK f \in [Addr -> Addr] : Walks(f, m, S, out)
    <3> HIDE DEF S, out
    <3> QED
      BY <1>2, WalkExists
  <2>2. Is(f)
    <3> HIDE DEF Fits
    <3> QED
      BY <2>1 DEF Walks
  <2> HIDE DEF Is
  <2> QED
    BY <2>2
<1>4. Walks(walk, m, S, out)
  <2> HIDE DEF Fits
  <2>1. \A e \in Addr : walk[e] = CASE e = NULL -> NULL
                                    [] e # NULL /\ Fits(e) -> header_of_free_block(e)
                                    [] OTHER -> walk[m[e]]
    <3> HIDE DEF walk
    <3> QED
      BY <1>3
  <2> HIDE DEF walk
  <2> QED
    BY <2>1 DEF Walks
<1> HIDE DEF walk, Is, found
<1>5. PICK n, c : List(m, F, n, c)
  BY DEF Listed
<1>list. Chained(F, n, c)
  BY <1>5, ListFacts
<1>sizes. \A g \in F : size(m[g]) \in Int
  <2>1. \A g \in F : g \in Addr
    BY SpacedFacts
  <2>2. \A g \in F : size(m[g]) \in 0 .. (TOP - 1)
    BY <2>1, SizeFacts DEF Memory
  <2> QED
    BY <2>2, ConstantFacts
<1>6. c[0] = Start /\ Start \in Addr /\ out[Start] = Start - 1
  <2>1. c[0] = Start
    BY <1>5 DEF List
  <2>2. Start \in Addr /\ Start - 1 \in Addr /\ Start # NULL
    BY ConstantFacts
  <2>3. header_of_free_block(Start) = Start - 1
    BY <2>2, AtFacts DEF header_of_free_block
  <2> QED
    BY <2>1, <2>2, <2>3
<1>7. \A i \in 1 .. n : /\ c[i] \in S <=> size(m[c[i] - 1]) >= s
                        /\ out[c[i]] = c[i] - 1
  <2> SUFFICES ASSUME NEW i \in 1 .. n
               PROVE  (c[i] \in S <=> size(m[c[i] - 1]) >= s) /\ out[c[i]] = c[i] - 1
    OBVIOUS
  <2>1. i \in 0 .. n
    BY <1>list DEF Chained
  <2>2. c[i] \in Addr /\ c[i] # NULL /\ header_of_free_block(c[i]) = c[i] - 1
    BY <1>list, <2>1 DEF Chained
  <2> QED
    BY <2>2
<1>8. NULL \in S /\ out[NULL] = NULL
  BY ConstantFacts
<1> HIDE DEF S, out
<1>11. CASE Start \in S
  <2>1. walk[Start] = Start - 1
    BY <1>4, <1>6, <1>11 DEF Walks
  <2>2. free_list = Start
    BY ConstantFacts
  <2>3. found = Start - 1
    BY <1>1, <2>1, <2>2
  <2> QED
    BY <2>3 DEF found
<1>9. CASE \A i \in 0 .. n : c[i] \notin S
  <2>1. walk[Start] = out[NULL]
    BY <1>2, <1>4, <1>5, <1>8, <1>9, WalkEnds
  <2>2. found = NULL
    BY <1>1, <1>8, <2>1, ConstantFacts
  <2>3. ASSUME NEW g \in F PROVE size(m[g]) < s
    <3>1. PICK i \in 1 .. n : c[i] = g + 1
      BY <1>5 DEF List
    <3>2. i \in 0 .. n /\ g \in Int
      BY <1>list, SpacedFacts DEF Chained
    <3>3. c[i] - 1 = g /\ ~(size(m[c[i] - 1]) >= s)
      BY <1>7, <1>9, <3>1, <3>2
    <3> QED
      BY <1>sizes, <3>3
  <2> QED
    BY <2>2, <2>3 DEF found
<1>10. CASE Start \notin S /\ \E i \in 0 .. n : c[i] \in S
  <2> DEFINE P == {i \in 0 .. n : c[i] \in S}
  <2>1. PICK p \in P : \A i \in 0 .. (p - 1) : i \notin P
    <3>1. n \in Nat /\ P \in SUBSET (0 .. n) /\ P # {}
      BY <1>10, <1>list DEF Chained
    <3> HIDE DEF P
    <3> QED
      BY <3>1, FirstPlace
  <2>2. /\ n \in Nat /\ p \in 0 .. n /\ c[p] \in S /\ p \in 1 .. n /\ p \in Int
        /\ \A i \in 0 .. (p - 1) : c[i] \notin S
    <3>1. n \in Nat /\ p \in 0 .. n /\ c[p] \in S
      BY <2>1, <1>list DEF Chained
    <3>2. p # 0
      BY <1>6, <1>10, <3>1
    <3>3. \A i \in 0 .. (p - 1) : i \in 0 .. n
      BY <3>1
    <3> QED
      BY <2>1, <3>1, <3>2, <3>3
  <2> HIDE DEF P
  <2>3. walk[Start] = out[c[p]]
    BY <1>2, <1>4, <1>5, <2>2, WalkStops
  <2>4. found = c[p] - 1
    BY <1>1, <1>7, <2>2, <2>3, ConstantFacts
  <2>5. found \in F /\ size(m[found]) >= s
    BY <1>7, <1>list, <2>2, <2>4 DEF Chained
  <2>6. found # NULL
    BY <2>5, SpacedFacts
  <2>7. ASSUME NEW g \in F, size(m[g]) >= s PROVE size(m[found]) <= size(m[g])
    <3>1. PICK j \in 1 .. n : c[j] = g + 1
      BY <1>5 DEF List
    <3>2. g \in Int /\ c[j] - 1 = g
      BY <3>1, SpacedFacts
    <3>3. c[j] \in S
      BY <1>7, <2>7, <3>1, <3>2
    <3>4. j \in Int /\ ~(j < p)
      BY <2>2, <3>3
    <3>5. CASE j = p
      BY <1>sizes, <2>4, <2>5, <3>2, <3>5
    <3>6. CASE p < j
      BY <1>5, <2>2, <2>4, <3>1, <3>2, <3>6 DEF List
    <3> QED
      BY <2>2, <3>4, <3>5, <3>6
  <2> QED
    BY <2>5, <2>6, <2>7 DEF found
<1> QED
  BY <1>9, <1>10, <1>11

-----------------------------------------------------------------------------
(* The blocks.                                                             *)

\* Where the block behind h starts.
After(m, h) == h + size(m[h]) + 2

\* The headers in B tile the page, and each footer that has a block behind it
\* says where its block starts.
Shape(m, B) ==
    /\ m \in Memory
    /\ Spaced(B) /\ FirstHeader \in B
    /\ \A h \in B : After(m, h) \in B \cup {ArenaEnd}
    /\ \A g, h \in B : g < h => After(m, g) <= h
    /\ \A h \in B : After(m, h) # ArenaEnd => m[After(m, h) - 1] = h
    /\ m[Start + 1] = NULL

\* And the free list holds the blocks in F.
Good(m, B, F) == Shape(m, B) /\ F \subseteq B /\ Listed(m, F)

\* The header and the payload of h.
Untouched(m, m2, h) == \A w \in h .. (h + size(m[h])) : m2[w] = m[w]

LEMMA ShapeFacts ==
    ASSUME NEW m, NEW B, Shape(m, B), NEW h \in B
    PROVE  /\ h \in Int /\ h \in Addr /\ Start + 2 <= h
           /\ m[h] \in Addr /\ m[h] # NULL
           /\ size(m[h]) \in 1 .. (TOP - 1) /\ size(m[h]) = After(m, h) - h - 2
           /\ After(m, h) \in Int
           /\ h + 3 <= After(m, h) /\ After(m, h) <= ArenaEnd
           /\ footer_of(m, h) = After(m, h) - 1 /\ next_block(m, h) = After(m, h)
<1>1. h \in Int /\ h \in Addr /\ Start + 2 <= h /\ h + 3 <= ArenaEnd
  BY SpacedFacts DEF Shape
<1>2. m[h] \in Addr /\ size(m[h]) \in 0 .. (TOP - 1)
  BY <1>1, SizeFacts DEF Shape, Memory
<1>3. After(m, h) \in Int /\ size(m[h]) = After(m, h) - h - 2 /\ h < After(m, h)
  BY <1>1, <1>2, ConstantFacts DEF After
<1>4. After(m, h) \in B \/ After(m, h) = ArenaEnd
  BY DEF Shape
<1>5. h + 3 <= After(m, h) /\ After(m, h) <= ArenaEnd
  <2> DEFINE a == After(m, h)
  <2>1. a \in B => h + 3 <= a /\ a + 3 <= ArenaEnd
    BY <1>3, SpacedFacts DEF Shape
  <2> HIDE DEF a
  <2>2. a \in Int /\ ArenaEnd \in Int /\ (a \in B \/ a = ArenaEnd)
    BY <1>3, <1>4, ConstantFacts DEF a
  <2> QED
    BY <1>1, <2>1, <2>2 DEF a
<1>6. size(m[h]) \in 1 .. (TOP - 1)
  BY <1>1, <1>2, <1>3, <1>5
<1>7. m[h] # NULL
  <2>1. size(0) = 0
    BY SizeFacts, ConstantFacts
  <2> QED
    BY <1>6, <2>1, ConstantFacts
<1>8. footer_of(m, h) = After(m, h) - 1 /\ next_block(m, h) = After(m, h)
  <2>1. After(m, h) \in Addr /\ After(m, h) - 1 \in Addr
    BY <1>1, <1>3, <1>4, <1>5, ConstantFacts
  <2>2. h + 1 + size(m[h]) = After(m, h) - 1 /\ (After(m, h) - 1) + 1 = After(m, h)
    BY <1>1, <1>3
  <2> QED
    BY <2>1, <2>2, AtFacts DEF footer_of, next_block
<1> QED
  BY <1>1, <1>2, <1>3, <1>4, <1>5, <1>6, <1>7, <1>8

\* Every block but the first has one that ends where it starts.
LEMMA BlockBelow ==
    ASSUME NEW m, NEW B, Shape(m, B), NEW h \in B, h # FirstHeader
    PROVE  \E g \in B : After(m, g) = h
<1> DEFINE T == {g \in B : g < h}
<1>1. T \in SUBSET Int /\ T # {} /\ \A t \in T : t <= h
  <2>1. \A g \in B : g \in Int
    BY ShapeFacts
  <2>2. h > FirstHeader
    BY ShapeFacts, ConstantFacts
  <2>3. FirstHeader \in T
    BY <2>2 DEF Shape
  <2> QED
    BY <2>1, <2>3
<1>2. PICK g \in T : \A t \in T : t <= g
  <2>1. h \in Int
    BY ShapeFacts
  <2> HIDE DEF T
  <2> QED
    BY <1>1, <2>1, GreatestBelow
<1>3. g \in B /\ g < h /\ After(m, g) \in Int /\ h \in Int /\ g \in Int /\ g < After(m, g) /\ h < ArenaEnd
  <2>1. g \in B /\ g < h
    BY <1>2
  <2>2. g \in Int /\ After(m, g) \in Int /\ g + 3 <= After(m, g)
    BY <2>1, ShapeFacts
  <2>3. h \in Int /\ h + 3 <= ArenaEnd
    BY SpacedFacts DEF Shape
  <2> QED
    BY <2>1, <2>2, <2>3, ConstantFacts
<1>4. After(m, g) <= h
  BY <1>3 DEF Shape
<1>5. ASSUME After(m, g) # h PROVE FALSE
  <2>1. After(m, g) < h /\ After(m, g) # ArenaEnd
    BY <1>3, <1>4, <1>5, ConstantFacts
  <2>2. After(m, g) \in B
    BY <1>3, <2>1 DEF Shape
  <2>3. After(m, g) <= g
    BY <1>2, <2>1, <2>2
  <2> QED
    BY <1>3, <2>3
<1> QED
  BY <1>3, <1>5

\* The free list touches nothing that the shape is made of, and no block that
\* is not on it.
LEMMA LinksKeepShape ==
    ASSUME NEW m, NEW m2, NEW B, NEW F, Shape(m, B), F \subseteq B, OnlyLinks(m, m2, F)
    PROVE  /\ Shape(m2, B)
           /\ \A h \in B : m2[h] = m[h] /\ After(m2, h) = After(m, h)
           /\ \A h \in B \ F : Untouched(m, m2, h)
<1>1. Spaced(B)
  BY DEF Shape
<1>2. \A h \in B : m2[h] = m[h] /\ After(m2, h) = After(m, h)
  BY <1>1, LinksKeepHeaders DEF After
<1>3. \A g \in F : g \in Int /\ g >= Start + 2 /\ g + 3 <= ArenaEnd /\ g \in B
  BY <1>1, SpacedFacts
<1>4. ASSUME NEW h \in B, After(m, h) # ArenaEnd PROVE m2[After(m, h) - 1] = m[After(m, h) - 1]
  <2> DEFINE a == After(m, h)
  <2>1. a \in Int /\ a >= Start + 5 /\ a <= ArenaEnd
    BY ShapeFacts, ConstantFacts
  <2>2. a \in B
    BY <1>4 DEF Shape
  <2> HIDE DEF a
  <2>3. (a - 1) - 1 \notin F
    <3> SUFFICES ASSUME a - 2 \in F PROVE FALSE
      BY <2>1
    <3>1. a - 2 \in B /\ a - 2 < a
      BY <1>3, <2>1
    <3>2. (a - 2) + 3 <= a
      BY <1>1, <2>2, <3>1, SpacedFacts
    <3> QED
      BY <2>1, <3>2
  <2>4. a - 1 \in Addr /\ a - 1 # Start
    BY <2>1, ConstantFacts
  <2> QED
    BY <2>3, <2>4 DEF OnlyLinks, a
<1>5. m2[Start + 1] = m[Start + 1] /\ m2[Start - 1] = m[Start - 1] /\ m2[ArenaEnd] = m[ArenaEnd]
  <2>1. /\ Start + 1 \in Addr /\ Start + 1 # Start /\ (Start + 1) - 1 \notin F
        /\ Start - 1 \in Addr /\ Start - 1 # Start /\ (Start - 1) - 1 \notin F
        /\ ArenaEnd \in Addr /\ ArenaEnd # Start /\ ArenaEnd - 1 \notin F
    BY <1>3, ConstantFacts
  <2> QED
    BY <2>1 DEF OnlyLinks
<1>6. Shape(m2, B)
  BY <1>2, <1>4, <1>5 DEF Shape, OnlyLinks
<1>7. ASSUME NEW h \in B \ F, NEW w \in h .. (h + size(m[h])) PROVE m2[w] = m[w]
  <2>1. h \in Int /\ h >= Start + 2 /\ After(m, h) \in Int /\ h + size(m[h]) = After(m, h) - 2
        /\ After(m, h) <= ArenaEnd
    BY ShapeFacts, ConstantFacts
  <2>2. w \in Int /\ w >= h /\ w <= After(m, h) - 2
    BY <2>1
  <2>3. w \in Addr /\ w # Start
    BY <2>1, <2>2, ConstantFacts
  <2>4. w - 1 \notin F
    <3> SUFFICES ASSUME NEW g \in F, g = w - 1 PROVE FALSE
      OBVIOUS
    <3>1. g \in B /\ g \in Int /\ g # h
      BY <1>3
    <3>2. CASE h < g
      <4>1. After(m, h) <= g
        BY <3>1, <3>2 DEF Shape
      <4> QED
        BY <2>1, <2>2, <3>1, <4>1
    <3>3. CASE g < h
      <4>1. g + 3 <= h
        BY <1>1, <3>1, <3>3, SpacedFacts
      <4> QED
        BY <2>1, <2>2, <3>1, <4>1
    <3> QED
      BY <2>1, <3>1, <3>2, <3>3
  <2> QED
    BY <2>3, <2>4 DEF OnlyLinks
<1> QED
  BY <1>2, <1>6, <1>7 DEF Untouched

LEMMA DeleteGood ==
    ASSUME NEW m, NEW B, NEW F, Good(m, B, F), NEW h \in B
    PROVE  LET m2 == free_list_delete(m, h)
           IN  /\ Good(m2, B, F \ {h})
               /\ h \notin F => m2 = m
               /\ \A g \in B : m2[g] = m[g] /\ After(m2, g) = After(m, g)
               /\ \A g \in B \ F : Untouched(m, m2, g)
<1> DEFINE m2 == free_list_delete(m, h)
<1>1. m \in Memory /\ Spaced(F) /\ Spaced({h}) /\ Shape(m, B) /\ F \subseteq B /\ Listed(m, F)
  BY DEF Good, Shape, Spaced
<1>2. (h \notin F => m2 = m) /\ Listed(m2, F \ {h}) /\ OnlyLinks(m, m2, F)
  BY <1>1, DeleteIs
<1> HIDE DEF m2
<1>3. /\ Shape(m2, B)
      /\ \A g \in B : m2[g] = m[g] /\ After(m2, g) = After(m, g)
      /\ \A g \in B \ F : Untouched(m, m2, g)
  BY <1>1, <1>2, LinksKeepShape
<1>4. Good(m2, B, F \ {h})
  BY <1>1, <1>2, <1>3 DEF Good
<1> QED
  BY <1>2, <1>3, <1>4 DEF m2

LEMMA InsertGood ==
    ASSUME NEW m, NEW B, NEW F, Good(m, B, F), NEW h \in B, h \notin F
    PROVE  LET m2 == free_list_insert(m, h)
           IN  /\ Good(m2, B, F \cup {h})
               /\ \A g \in B : m2[g] = m[g] /\ After(m2, g) = After(m, g)
               /\ \A g \in B \ (F \cup {h}) : Untouched(m, m2, g)
<1> DEFINE m2 == free_list_insert(m, h)
           G == F \cup {h}
<1>1. m \in Memory /\ Spaced(G) /\ Shape(m, B) /\ G \subseteq B /\ Listed(m, F)
  BY DEF Good, Shape, Spaced
<1>2. Listed(m2, G) /\ OnlyLinks(m, m2, G)
  BY <1>1, InsertIs
<1> HIDE DEF m2, G
<1>3. /\ Shape(m2, B)
      /\ \A g \in B : m2[g] = m[g] /\ After(m2, g) = After(m, g)
      /\ \A g \in B \ G : Untouched(m, m2, g)
  BY <1>1, <1>2, LinksKeepShape
<1>4. Good(m2, B, G)
  BY <1>1, <1>2, <1>3 DEF Good
<1> QED
  BY <1>3, <1>4 DEF m2, G

LEMMA ListKept ==
    ASSUME NEW m \in Memory, NEW m2 \in Memory, NEW F, Spaced(F), Listed(m, F), m2[Start] = m[Start],
           \A g \in F : m2[g + 1] = m[g + 1] /\ size(m2[g]) = size(m[g])
    PROVE  Listed(m2, F)
<1>1. PICK n, c : List(m, F, n, c)
  BY DEF Listed
<1>list. Chained(F, n, c)
  BY <1>1, ListFacts
<1>2. \A i \in 0 .. n : m2[c[i]] = m[c[i]]
  <2> SUFFICES ASSUME NEW i \in 0 .. n PROVE m2[c[i]] = m[c[i]]
    OBVIOUS
  <2>1. CASE i = 0
    BY <1>1, <2>1 DEF List
  <2>2. CASE i # 0
    <3>1. i \in 1 .. n
      BY <1>list, <2>2 DEF Chained
    <3>2. c[i] - 1 \in F /\ c[i] = (c[i] - 1) + 1
      BY <1>list, <3>1 DEF Chained
    <3>3. m2[(c[i] - 1) + 1] = m[(c[i] - 1) + 1]
      BY <3>2
    <3> QED
      BY <3>2, <3>3
  <2> QED
    BY <2>1, <2>2
<1>3. \A i \in 1 .. n : size(m2[c[i] - 1]) = size(m[c[i] - 1])
  BY <1>list DEF Chained
<1>4. \A i \in 0 .. (n - 1) : i \in 0 .. n
  BY <1>list DEF Chained
<1>5. List(m2, F, n, c)
  <2>1. n \in Nat /\ n \in 0 .. n /\ c \in [0 .. n -> Addr]
    BY <1>1, <1>list DEF List, Chained
  <2>2. m2[c[n]] = NULL
    BY <1>1, <1>2, <2>1 DEF List
  <2>3. \A i \in 0 .. (n - 1) : m2[c[i]] = c[i + 1]
    BY <1>1, <1>2, <1>4 DEF List
  <2>4. \A i, j \in 1 .. n : i < j => c[i] # c[j] /\ size(m2[c[i] - 1]) <= size(m2[c[j] - 1])
    BY <1>1, <1>3 DEF List
  <2> QED
    BY <1>1, <2>1, <2>2, <2>3, <2>4 DEF List
<1> QED
  BY <1>5 DEF Listed

\* A write inside the blocks from lo up to hi leaves the others alone.
Rewrites(m, m2, lo, hi) ==
    /\ m2 \in Memory
    /\ \A a \in Addr : a < lo \/ a >= hi => m2[a] = m[a]

LEMMA OutsideKept ==
    ASSUME NEW m, NEW m2, NEW B, Shape(m, B), NEW lo \in B, NEW hi \in B \cup {ArenaEnd}, lo < hi,
           Rewrites(m, m2, lo, hi)
    PROVE  /\ \A g \in B : g < lo \/ g >= hi =>
                 /\ Untouched(m, m2, g) /\ m2[g] = m[g] /\ After(m2, g) = After(m, g)
                 /\ m2[g + 1] = m[g + 1] /\ m2[After(m, g) - 1] = m[After(m, g) - 1]
           /\ m2[Start] = m[Start]
           /\ m2[Start + 1] = m[Start + 1] /\ m2[Start - 1] = m[Start - 1]
           /\ m2[ArenaEnd] = m[ArenaEnd]
<1>1. lo \in Int /\ lo >= Start + 2 /\ hi \in Int /\ hi <= ArenaEnd
  <2>1. \A h \in B : h \in Int /\ h >= Start + 2 /\ h <= ArenaEnd
    BY SpacedFacts, ConstantFacts DEF Shape
  <2>2. ArenaEnd \in Int /\ ArenaEnd <= ArenaEnd
    BY ConstantFacts
  <2> QED
    BY <2>1, <2>2
<1>2. ASSUME NEW g \in B, g < lo \/ g >= hi
      PROVE  /\ Untouched(m, m2, g) /\ m2[g] = m[g] /\ After(m2, g) = After(m, g)
             /\ m2[g + 1] = m[g + 1] /\ m2[After(m, g) - 1] = m[After(m, g) - 1]
  <2>1. /\ g \in Int /\ g >= Start + 2 /\ After(m, g) \in Int /\ g + size(m[g]) = After(m, g) - 2
        /\ After(m, g) <= ArenaEnd /\ g + 3 <= After(m, g)
    <3>1. /\ g \in Int /\ Start + 2 <= g /\ After(m, g) \in Int /\ size(m[g]) = After(m, g) - g - 2
          /\ After(m, g) <= ArenaEnd /\ g + 3 <= After(m, g)
      BY ShapeFacts
    <3> QED
      BY <3>1, ConstantFacts
  <2>2. g < lo => After(m, g) <= lo
    BY DEF Shape
  <2>3. ASSUME NEW w \in Int, w >= g, w <= After(m, g) - 1 PROVE m2[w] = m[w]
    <3>1. w \in Addr
      BY <2>1, <2>3, ConstantFacts
    <3>2. w < lo \/ w >= hi
      BY <1>1, <1>2, <2>1, <2>2, <2>3
    <3> QED
      BY <3>1, <3>2 DEF Rewrites
  <2>4. m2[g] = m[g] /\ m2[g + 1] = m[g + 1] /\ m2[After(m, g) - 1] = m[After(m, g) - 1]
    BY <2>1, <2>3
  <2>5. Untouched(m, m2, g)
    <3> SUFFICES ASSUME NEW w \in g .. (g + size(m[g])) PROVE m2[w] = m[w]
      BY DEF Untouched
    <3>1. w \in Int /\ w >= g /\ w <= After(m, g) - 1
      BY <2>1
    <3> QED
      BY <2>3, <3>1
  <2> QED
    BY <2>4, <2>5 DEF After
<1>3. /\ m2[Start] = m[Start]
      /\ m2[Start + 1] = m[Start + 1] /\ m2[Start - 1] = m[Start - 1]
      /\ m2[ArenaEnd] = m[ArenaEnd]
  <2>1. /\ Start \in Addr /\ Start < lo /\ Start + 1 \in Addr /\ Start + 1 < lo
        /\ Start - 1 \in Addr /\ Start - 1 < lo /\ ArenaEnd \in Addr /\ ArenaEnd >= hi
    BY <1>1, ConstantFacts
  <2> QED
    BY <2>1 DEF Rewrites
<1> QED
  BY <1>2, <1>3

\* The writes of spilt_block make two blocks of h.
LEMMA CutGood ==
    ASSUME NEW m, NEW B, NEW F, Good(m, B, F), NEW h \in B, h \notin F,
           NEW s \in Requests, size(m[h]) >= s + 3, NEW second, second = h + s + 2,
           NEW m2 \in Memory,
           \A a \in Addr : a \notin {h, second - 1, second, After(m, h) - 1} => m2[a] = m[a],
           size(m2[h]) = s, m2[second - 1] = h,
           size(m2[second]) = After(m, h) - second - 2, m2[After(m, h) - 1] = second
    PROVE  /\ Good(m2, B \cup {second}, F) /\ second \notin B
           /\ After(m2, h) = second /\ After(m2, second) = After(m, h)
           /\ \A g \in B : g # h => Untouched(m, m2, g) /\ m2[g] = m[g]
<1> DEFINE hi == After(m, h)
           C == B \cup {second}
<1>1. Shape(m, B) /\ Spaced(B) /\ F \subseteq B /\ Listed(m, F)
  BY DEF Good, Shape
<1>2. /\ h \in Int /\ h >= Start + 2 /\ hi \in Int /\ hi <= ArenaEnd /\ size(m[h]) = hi - h - 2
      /\ hi \in B \cup {ArenaEnd} /\ h + 3 <= hi
  BY <1>1, ShapeFacts DEF Shape
<1>3. s \in Nat /\ s >= 1 /\ second \in Int /\ h + 3 <= second /\ second + 3 <= hi
  <2>1. s \in Nat /\ s >= 1
    BY ConstantFacts
  <2> HIDE DEF hi
  <2> QED
    BY <1>2, <2>1
<1>6. \A g \in B : g # h => g < h \/ g >= hi
  <2> SUFFICES ASSUME NEW g \in B, g # h PROVE g < h \/ g >= hi
    OBVIOUS
  <2>1. g \in Int /\ (h < g => hi <= g)
    BY <1>1, SpacedFacts DEF Shape
  <2> QED
    BY <1>2, <2>1
<1>7. second \notin B
  <2> SUFFICES ASSUME second \in B PROVE FALSE
    OBVIOUS
  <2>1. second < h \/ second >= hi
    BY <1>2, <1>3, <1>6
  <2> QED
    BY <1>2, <1>3, <2>1
<1>8. Rewrites(m, m2, h, hi)
  <2>1. \A a \in Addr : a < h \/ a >= hi => a \notin {h, second - 1, second, hi - 1}
    <3> HIDE DEF hi
    <3>1. \A a \in Addr : a \in Int
      BY ConstantFacts
    <3> QED
      BY <1>2, <1>3, <3>1
  <2> QED
    BY <2>1 DEF Rewrites
<1>9. /\ \A g \in B : g # h =>
             /\ Untouched(m, m2, g) /\ m2[g] = m[g] /\ After(m2, g) = After(m, g)
             /\ m2[g + 1] = m[g + 1] /\ m2[After(m, g) - 1] = m[After(m, g) - 1]
      /\ m2[Start] = m[Start]
      /\ m2[Start + 1] = m[Start + 1] /\ m2[Start - 1] = m[Start - 1]
      /\ m2[ArenaEnd] = m[ArenaEnd]
  <2>1. h < hi
    BY <1>2
  <2> HIDE DEF hi
  <2> QED
    BY <1>1, <1>2, <1>6, <1>8, <2>1, OutsideKept
<1>10. After(m2, h) = second /\ After(m2, second) = hi
  BY <1>2, <1>3 DEF After
<1>11. Listed(m2, F)
  <2>1. m \in Memory /\ Spaced(F)
    BY <1>1 DEF Shape, Spaced
  <2>2. \A g \in F : g \in B /\ g # h
    BY <1>1
  <2>3. \A g \in F : m2[g + 1] = m[g + 1] /\ size(m2[g]) = size(m[g])
    BY <1>9, <2>2
  <2> QED
    BY <1>1, <1>9, <2>1, <2>3, ListKept
<1> HIDE DEF hi
<1>12. Spaced(C)
  <2>1. second \in FirstHeader .. (ArenaEnd - 3)
    BY <1>2, <1>3, ConstantFacts
  <2>2. ASSUME NEW g \in B
        PROVE  (g < second => g + 3 <= second) /\ (second < g => second + 3 <= g)
    <3>1. g \in Int /\ (g < h => g + 3 <= h)
      BY <1>1, SpacedFacts
    <3>2. g = h \/ g < h \/ g >= hi
      BY <1>6
    <3> QED
      BY <1>2, <1>3, <3>1, <3>2
  <2>3. ~(second < second)
    BY <1>3
  <2> QED
    BY <1>1, <2>1, <2>2, <2>3 DEF Spaced
<1>13. ASSUME NEW g \in C
       PROVE  After(m2, g) \in C \cup {ArenaEnd} /\ (After(m2, g) # ArenaEnd => m2[After(m2, g) - 1] = g)
  <2>1. CASE g = h
    BY <1>10, <2>1
  <2>2. CASE g = second
    BY <1>2, <1>10, <2>2 DEF hi
  <2>3. CASE g \in B /\ g # h
    BY <1>1, <1>9, <2>3 DEF Shape
  <2> QED
    BY <1>13, <2>1, <2>2, <2>3
<1>14. ASSUME NEW f \in C, NEW g \in C, f < g PROVE After(m2, f) <= g
  <2>1. CASE f = h
    <3>1. CASE g = second
      BY <1>3, <1>10, <2>1, <3>1
    <3>2. CASE g \in B
      <4>1. g >= hi /\ g \in Int
        BY <1>1, <1>2, <1>6, <1>14, <2>1, <3>2, SpacedFacts
      <4> QED
        BY <1>2, <1>3, <1>10, <2>1, <4>1
    <3> QED
      BY <1>14, <3>1, <3>2
  <2>2. CASE f = second
    <3>1. g \in B /\ g \in Int /\ g # h
      BY <1>1, <1>2, <1>3, <1>14, <2>2, SpacedFacts
    <3>2. g >= hi
      BY <1>2, <1>3, <1>6, <1>14, <2>2, <3>1
    <3> QED
      BY <1>2, <1>10, <2>2, <3>1, <3>2
  <2>3. CASE f \in B /\ f # h
    <3>1. f \in Int /\ After(m2, f) = After(m, f)
      BY <1>1, <1>9, <2>3, SpacedFacts
    <3>2. CASE g \in B
      BY <1>1, <1>14, <2>3, <3>1, <3>2 DEF Shape
    <3>3. CASE g = second
      <4>1. f < h
        BY <1>2, <1>3, <1>6, <1>14, <2>3, <3>1, <3>3
      <4>2. After(m, f) <= h /\ After(m, f) \in Int
        BY <1>1, <2>3, <4>1, ShapeFacts DEF Shape
      <4> QED
        BY <1>2, <1>3, <3>1, <3>3, <4>2
    <3> QED
      BY <1>14, <3>2, <3>3
  <2> QED
    BY <1>14, <2>1, <2>2, <2>3
<1>15. Shape(m2, C)
  <2>1. FirstHeader \in C
    BY <1>1 DEF Shape
  <2>2. m2[Start + 1] = NULL
    BY <1>1, <1>9 DEF Shape
  <2> HIDE DEF C
  <2> QED
    BY <1>12, <1>13, <1>14, <2>1, <2>2 DEF Shape
<1>16. Good(m2, C, F)
  BY <1>1, <1>11, <1>15 DEF Good
<1> QED
  BY <1>7, <1>9, <1>10, <1>16 DEF C, hi

\* The writes of merge_block make one block of two.
LEMMA JoinGood ==
    ASSUME NEW m, NEW B, NEW F, Good(m, B, F), NEW first \in B, first \notin F,
           NEW second \in B, second \notin F, After(m, first) = second,
           NEW m2 \in Memory,
           \A a \in Addr : a \notin {first, After(m, second) - 1} => m2[a] = m[a],
           size(m2[first]) = After(m, second) - first - 2, m2[After(m, second) - 1] = first
    PROVE  /\ Good(m2, B \ {second}, F)
           /\ After(m2, first) = After(m, second)
           /\ \A g \in B : g # first /\ g # second => Untouched(m, m2, g) /\ m2[g] = m[g]
<1> DEFINE hi == After(m, second)
           C == B \ {second}
<1>1. Shape(m, B) /\ Spaced(B) /\ F \subseteq B /\ Listed(m, F)
  BY DEF Good, Shape
<1>2. /\ first \in Int /\ first >= Start + 2 /\ first + 3 <= second
      /\ second \in Int /\ hi \in Int /\ hi <= ArenaEnd /\ second + 3 <= hi
      /\ hi \in B \cup {ArenaEnd}
  BY <1>1, ShapeFacts DEF Shape
<1>3. \A g \in B : g # first /\ g # second => g < first \/ g >= hi
  <2> SUFFICES ASSUME NEW g \in B, g # first, g # second PROVE g < first \/ g >= hi
    OBVIOUS
  <2>1. g \in Int /\ (first < g => second <= g) /\ (second < g => hi <= g)
    BY <1>1, SpacedFacts DEF Shape
  <2> QED
    BY <1>2, <2>1
<1>4. Rewrites(m, m2, first, hi)
  <2>1. \A a \in Addr : a < first \/ a >= hi => a \notin {first, hi - 1}
    BY <1>2, ConstantFacts
  <2> QED
    BY <2>1 DEF Rewrites
<1>5. /\ \A g \in C : g # first =>
             /\ Untouched(m, m2, g) /\ m2[g] = m[g] /\ After(m2, g) = After(m, g)
             /\ m2[g + 1] = m[g + 1] /\ m2[After(m, g) - 1] = m[After(m, g) - 1]
      /\ m2[Start] = m[Start]
      /\ m2[Start + 1] = m[Start + 1] /\ m2[Start - 1] = m[Start - 1]
      /\ m2[ArenaEnd] = m[ArenaEnd]
  <2>1. first < hi
    BY <1>2
  <2> HIDE DEF hi
  <2> QED
    BY <1>1, <1>2, <1>3, <1>4, <2>1, OutsideKept
<1>6. After(m2, first) = hi
  BY <1>2 DEF After
<1>7. Listed(m2, F)
  <2>1. m \in Memory /\ Spaced(F)
    BY <1>1 DEF Shape, Spaced
  <2>2. \A g \in F : g \in C /\ g # first
    BY <1>1
  <2>3. \A g \in F : m2[g + 1] = m[g + 1] /\ size(m2[g]) = size(m[g])
    BY <1>5, <2>2
  <2> QED
    BY <1>1, <1>5, <2>1, <2>3, ListKept
<1> HIDE DEF hi
<1>8. Spaced(C)
  BY <1>1 DEF Spaced
<1>9. hi # second
  BY <1>2
<1>10. ASSUME NEW g \in C
       PROVE  After(m2, g) \in C \cup {ArenaEnd} /\ (After(m2, g) # ArenaEnd => m2[After(m2, g) - 1] = g)
  <2>1. CASE g = first
    BY <1>2, <1>6, <1>9, <2>1 DEF hi
  <2>2. CASE g # first
    <3>1. After(m, g) # second
      <4> SUFFICES ASSUME After(m, g) = second PROVE FALSE
        OBVIOUS
      <4>1. g \in Int /\ g < second
        BY <1>1, <1>2, ShapeFacts
      <4>2. g < first
        BY <1>2, <1>3, <2>2, <4>1
      <4>3. second <= first
        BY <1>1, <4>2 DEF Shape
      <4> QED
        BY <1>2, <4>3
    <3> QED
      BY <1>1, <1>5, <2>2, <3>1 DEF Shape
  <2> QED
    BY <2>1, <2>2
<1>11. ASSUME NEW f \in C, NEW g \in C, f < g PROVE After(m2, f) <= g
  <2>1. CASE f = first
    <3>1. g \in Int /\ g # first /\ ~(g < first)
      BY <1>1, <1>2, <1>11, <2>1, SpacedFacts
    <3> QED
      BY <1>3, <1>6, <2>1, <3>1
  <2>2. CASE f # first
    BY <1>1, <1>5, <1>11, <2>2 DEF Shape
  <2> QED
    BY <2>1, <2>2
<1>12. Shape(m2, C)
  <2>1. FirstHeader \in C
    BY <1>1, <1>2, ConstantFacts DEF Shape
  <2>2. m2[Start + 1] = NULL
    BY <1>1, <1>5 DEF Shape
  <2> HIDE DEF C
  <2> QED
    BY <1>8, <1>10, <1>11, <2>1, <2>2 DEF Shape
<1>13. Good(m2, C, F)
  BY <1>1, <1>7, <1>12 DEF Good
<1> QED
  BY <1>5, <1>6, <1>13 DEF C, hi

\* The in_use bit is no part of the shape.
LEMMA MarkGood ==
    ASSUME NEW m, NEW B, NEW F, Good(m, B, F), NEW h \in B, NEW m2 \in Memory,
           \A a \in Addr : a # h => m2[a] = m[a], size(m2[h]) = size(m[h])
    PROVE  /\ Good(m2, B, F)
           /\ \A g \in B : After(m2, g) = After(m, g)
           /\ \A g \in B : g # h => Untouched(m, m2, g) /\ m2[g] = m[g]
<1>1. Shape(m, B) /\ Spaced(B) /\ F \subseteq B /\ Listed(m, F) /\ m \in Memory
  BY DEF Good, Shape
<1>2. h \in Int /\ h \in Addr /\ h >= Start + 2 /\ h + 3 <= ArenaEnd
  BY <1>1, SpacedFacts
<1>3. m2 \in Memory /\ \A a : a \in Addr /\ a # h => m2[a] = m[a]
  OBVIOUS
<1>4. \A g \in B : size(m2[g]) = size(m[g]) /\ After(m2, g) = After(m, g)
  <2>1. \A g \in B : g \in Addr
    BY <1>1, SpacedFacts
  <2>2. \A g \in B : size(m2[g]) = size(m[g])
    BY <1>3, <2>1
  <2> QED
    BY <2>2 DEF After
<1>5. Listed(m2, F)
  <2>1. \A g \in F : g + 1 # h /\ g + 1 \in Addr
    <3> SUFFICES ASSUME NEW g \in F PROVE g + 1 # h /\ g + 1 \in Addr
      OBVIOUS
    <3>1. g \in Int /\ g + 1 \in Addr /\ (g < h => g + 3 <= h)
      BY <1>1, SpacedFacts
    <3> QED
      BY <1>2, <3>1
  <2>2. Start \in Addr /\ Start # h
    BY <1>2, ConstantFacts
  <2>3. Spaced(F) /\ m2[Start] = m[Start]
    BY <1>1, <1>3, <2>2 DEF Spaced
  <2>4. \A g \in F : m2[g + 1] = m[g + 1] /\ size(m2[g]) = size(m[g])
    BY <1>1, <1>3, <1>4, <2>1
  <2> QED
    BY <1>1, <1>3, <2>3, <2>4, ListKept
<1>6. ASSUME NEW g \in B, After(m, g) # ArenaEnd PROVE m2[After(m, g) - 1] = m[After(m, g) - 1]
  <2> DEFINE a == After(m, g)
  <2>1. a \in B /\ a \in Int /\ a - 1 \in Addr
    <3>1. a \in B
      BY <1>1, <1>6 DEF Shape
    <3>2. a \in Int /\ a >= Start + 2 /\ a + 3 <= ArenaEnd
      BY <1>1, <3>1, SpacedFacts
    <3> QED
      BY <3>1, <3>2, ConstantFacts
  <2> HIDE DEF a
  <2>2. h < a => h + 3 <= a
    BY <1>1, <2>1, SpacedFacts
  <2>3. a - 1 # h
    BY <1>2, <2>1, <2>2
  <2> QED
    BY <1>3, <2>1, <2>3 DEF a
<1>7. m2[Start + 1] = m[Start + 1] /\ m2[Start - 1] = m[Start - 1] /\ m2[ArenaEnd] = m[ArenaEnd]
  <2>1. /\ Start + 1 \in Addr /\ Start + 1 # h /\ Start - 1 \in Addr /\ Start - 1 # h
        /\ ArenaEnd \in Addr /\ ArenaEnd # h
    BY <1>2, ConstantFacts
  <2> QED
    BY <1>3, <2>1
<1>8. Good(m2, B, F)
  BY <1>1, <1>3, <1>4, <1>5, <1>6, <1>7 DEF Good, Shape
<1>9. ASSUME NEW g \in B, g # h PROVE Untouched(m, m2, g) /\ m2[g] = m[g]
  <2>1. /\ g \in Int /\ g \in Addr /\ g >= Start + 2 /\ After(m, g) \in Int
        /\ g + size(m[g]) = After(m, g) - 2 /\ After(m, g) <= ArenaEnd
        /\ (g < h => After(m, g) <= h)
    <3>1. /\ g \in Int /\ g \in Addr /\ g >= Start + 2 /\ After(m, g) \in Int
          /\ size(m[g]) = After(m, g) - g - 2 /\ After(m, g) <= ArenaEnd
      BY <1>1, ShapeFacts
    <3>2. g < h => After(m, g) <= h
      BY <1>1 DEF Shape
    <3> QED
      BY <3>1, <3>2
  <2>2. ASSUME NEW v \in g .. (g + size(m[g])) PROVE m2[v] = m[v]
    <3>1. v \in Int /\ v >= g /\ v <= After(m, g) - 2
      BY <2>1
    <3>2. v \in Addr /\ v # h
      BY <1>2, <1>9, <2>1, <3>1, ConstantFacts
    <3> QED
      BY <1>3, <3>2
  <2> QED
    BY <1>3, <1>9, <2>1, <2>2 DEF Untouched
<1> QED
  BY <1>3, <1>4, <1>8, <1>9

-----------------------------------------------------------------------------
(* Splitting and merging.                                                  *)

LEMMA UntouchedAfter ==
    ASSUME NEW m, NEW m1, NEW m2, NEW h, Untouched(m, m1, h), Untouched(m1, m2, h), m1[h] = m[h]
    PROVE  Untouched(m, m2, h)
  BY DEF Untouched

\* What SetSize writes.
LEMMA SetSizeIs ==
    ASSUME NEW m \in Memory, NEW h \in Addr, NEW s \in 0 .. (TOP - 1)
    PROVE  /\ SetSize(m, h, s) \in Memory
           /\ size(SetSize(m, h, s)[h]) = s
           /\ in_use(SetSize(m, h, s)[h]) <=> in_use(m[h])
           /\ \A a \in Addr : a # h => SetSize(m, h, s)[a] = m[a]
<1> DEFINE w == (s % TOP) + (IF in_use(m[h]) THEN TOP ELSE 0)
<1>1. m[h] \in Addr /\ s % TOP = s
  BY SizeFacts DEF Memory
<1>2. w \in Addr /\ size(w) = s /\ (in_use(w) <=> in_use(m[h]))
  <2>1. w = IF in_use(m[h]) THEN s + TOP ELSE s
    BY <1>1, ConstantFacts
  <2>2. s \in Addr /\ s + TOP \in Addr
    BY ConstantFacts
  <2>3. size(s) = s /\ ~in_use(s) /\ size(s + TOP) = s /\ in_use(s + TOP)
    BY SizeFacts
  <2> HIDE DEF w
  <2> QED
    BY <2>1, <2>2, <2>3
<1>3. SetSize(m, h, s) = [m EXCEPT ![h] = w]
  BY DEF SetSize, Memory
<1> HIDE DEF w
<1> QED
  BY <1>2, <1>3 DEF Memory

LEMMA SplitGood ==
    ASSUME NEW m, NEW B, NEW F, Good(m, B, F), NEW h \in F, ~in_use(m[h]),
           NEW s \in Requests, size(m[h]) >= s + 3, NEW second, second = h + s + 2
    PROVE  LET m2 == spilt_block(m, h, s)
           IN  /\ Good(m2, B \cup {second}, F \cup {second}) /\ second \notin B
               /\ After(m2, h) = second /\ After(m2, second) = After(m, h)
               /\ size(m2[h]) = s /\ ~in_use(m2[h]) /\ ~in_use(m2[second])
               /\ \A g \in B : g # h => m2[g] = m[g]
               /\ \A g \in B \ F : Untouched(m, m2, g)
<1> DEFINE m1 == free_list_delete(m, h)
           foot == footer_of(m1, h)
           ma == [m1 EXCEPT ![At(h + s + 1)] = h]
           mb == SetSize(ma, h, s)
           w == (foot - At(At(h + s + 1) + 1) - 1) % TOP
           mc == [mb EXCEPT ![foot] = At(At(h + s + 1) + 1), ![At(At(h + s + 1) + 1)] = w]
           md == free_list_insert(mc, h)
           m2 == free_list_insert(md, At(At(h + s + 1) + 1))
           hi == After(m, h)
           G == F \ {h}
           C == B \cup {second}
<1>0. spilt_block(m, h, s) = m2
  BY DEF spilt_block
<1>1. Shape(m, B) /\ Spaced(B) /\ h \in B /\ F \subseteq B
  BY DEF Good, Shape
<1>2. /\ Good(m1, B, G) /\ Shape(m1, B)
      /\ \A g \in B : m1[g] = m[g] /\ After(m1, g) = After(m, g)
      /\ \A g \in B \ F : Untouched(m, m1, g)
  <2>1. /\ Good(m1, B, G)
        /\ \A g \in B : m1[g] = m[g] /\ After(m1, g) = After(m, g)
        /\ \A g \in B \ F : Untouched(m, m1, g)
    BY <1>1, DeleteGood
  <2> QED
    BY <2>1 DEF Good
<1> HIDE DEF m1
<1>3. /\ h \in Int /\ h \in Addr /\ h >= Start + 2 /\ hi \in Int /\ hi <= ArenaEnd
      /\ size(m[h]) = hi - h - 2
  BY <1>1, ShapeFacts
<1>4. foot = hi - 1 /\ m1 \in Memory
  <2>1. foot = After(m1, h) - 1
    BY <1>1, <1>2, ShapeFacts
  <2> QED
    BY <1>1, <1>2, <2>1 DEF Shape
<1> HIDE DEF foot, hi
<1>5. s \in Nat /\ s >= 1 /\ s <= TOP - 3 /\ second \in Int /\ second + 2 <= hi /\ h + 3 <= second
  <2>1. s \in Nat /\ s >= 1 /\ s <= TOP - 3
    BY ConstantFacts
  <2> QED
    BY <1>3, <2>1
<1>6. At(h + s + 1) = second - 1 /\ At(At(h + s + 1) + 1) = second
  <2>1. h + s + 1 = second - 1 /\ second - 1 \in Addr /\ second \in Addr /\ (second - 1) + 1 = second
    BY <1>3, <1>5, ConstantFacts
  <2> QED
    BY <2>1, AtFacts
<1>7. /\ second \in Addr /\ second - 1 \in Addr /\ foot \in Addr
      /\ second # h /\ second - 1 # h /\ foot # h /\ foot # second /\ foot # second - 1
  BY <1>3, <1>4, <1>5, ConstantFacts
<1>8. w = hi - second - 2 /\ w \in 0 .. (TOP - 1) /\ w \in Addr
  <2>1. foot - second - 1 = hi - second - 2 /\ hi - second - 2 \in 0 .. (TOP - 1)
    BY <1>3, <1>4, <1>5, ConstantFacts
  <2>2. (foot - second - 1) % TOP = foot - second - 1
    BY <2>1, SizeFacts
  <2>3. w = (foot - second - 1) % TOP
    BY <1>6
  <2> HIDE DEF w
  <2> QED
    BY <2>1, <2>2, <2>3, ConstantFacts
<1> HIDE DEF w
<1>9. ma \in Memory /\ ma[second - 1] = h /\ \A a \in Addr : a # second - 1 => ma[a] = m1[a]
  BY <1>3, <1>4, <1>6, <1>7 DEF Memory
<1> HIDE DEF ma
<1>10. /\ mb \in Memory /\ size(mb[h]) = s /\ ~in_use(mb[h])
       /\ \A a \in Addr : a # h => mb[a] = ma[a]
  <2>1. s \in 0 .. (TOP - 1)
    BY <1>5, ConstantFacts
  <2>2. ~in_use(ma[h])
    BY <1>1, <1>2, <1>3, <1>7, <1>9
  <2> QED
    BY <1>3, <1>9, <2>1, <2>2, SetSizeIs
<1> HIDE DEF mb
<1>11. /\ mc \in Memory /\ mc[h] = mb[h] /\ mc[second - 1] = mb[second - 1]
       /\ mc[foot] = second /\ mc[second] = w
       /\ \A a \in Addr : a # foot /\ a # second => mc[a] = mb[a]
  BY <1>3, <1>6, <1>7, <1>8, <1>10 DEF Memory
<1> HIDE DEF mc
<1>12. /\ \A a \in Addr : a \notin {h, second - 1, second, After(m1, h) - 1} => mc[a] = m1[a]
       /\ size(mc[h]) = s /\ mc[second - 1] = h
       /\ size(mc[second]) = After(m1, h) - second - 2 /\ mc[After(m1, h) - 1] = second
       /\ ~in_use(mc[h]) /\ ~in_use(mc[second])
  <2>1. After(m1, h) - 1 = foot /\ After(m1, h) = hi
    BY <1>1, <1>2, <1>4 DEF hi
  <2>2. size(w) = w /\ ~in_use(w)
    BY <1>8, SizeFacts
  <2>3. \A a \in Addr : a \notin {h, second - 1, second, foot} => mc[a] = m1[a]
    BY <1>9, <1>10, <1>11
  <2> QED
    BY <1>7, <1>8, <1>9, <1>10, <1>11, <2>1, <2>2, <2>3
<1>13. /\ Good(mc, C, G) /\ second \notin B
       /\ After(mc, h) = second /\ After(mc, second) = hi
       /\ \A g \in B : g # h => Untouched(m1, mc, g) /\ mc[g] = m1[g]
  <2>1. size(m1[h]) >= s + 3 /\ h \notin G /\ After(m1, h) = hi
    BY <1>1, <1>2 DEF hi
  <2>2. /\ Good(mc, C, G) /\ second \notin B
        /\ After(mc, h) = second /\ After(mc, second) = After(m1, h)
        /\ \A g \in B : g # h => Untouched(m1, mc, g) /\ mc[g] = m1[g]
    BY <1>1, <1>2, <1>11, <1>12, <2>1, CutGood
  <2> QED
    BY <2>1, <2>2
<1>14. /\ Good(md, C, F)
       /\ \A g \in C : md[g] = mc[g] /\ After(md, g) = After(mc, g)
       /\ \A g \in C \ F : Untouched(mc, md, g)
  <2>1. h \in C /\ h \notin G /\ G \cup {h} = F
    BY <1>1
  <2> HIDE DEF C, G
  <2>2. /\ Good(md, C, G \cup {h})
        /\ \A g \in C : md[g] = mc[g] /\ After(md, g) = After(mc, g)
        /\ \A g \in C \ (G \cup {h}) : Untouched(mc, md, g)
    BY <1>13, <2>1, InsertGood
  <2> QED
    BY <2>1, <2>2
<1> HIDE DEF md
<1>15. /\ Good(m2, C, F \cup {second})
       /\ \A g \in C : m2[g] = md[g] /\ After(m2, g) = After(md, g)
       /\ \A g \in C \ (F \cup {second}) : Untouched(md, m2, g)
  <2>1. second \in C /\ second \notin F
    BY <1>1, <1>13
  <2>2. m2 = free_list_insert(md, second)
    BY <1>6
  <2> HIDE DEF C, m2
  <2> QED
    BY <1>14, <2>1, <2>2, InsertGood
<1> HIDE DEF m2
<1>16. ASSUME NEW g \in B, g # h PROVE m2[g] = m[g]
  BY <1>2, <1>13, <1>14, <1>15, <1>16
<1>17. ASSUME NEW g \in B \ F PROVE Untouched(m, m2, g)
  <2>1. g # h /\ g # second /\ g \in C
    BY <1>13
  <2>2. Untouched(m, m1, g) /\ m1[g] = m[g]
    BY <1>2
  <2>3. Untouched(m1, mc, g) /\ mc[g] = m1[g]
    BY <1>13, <2>1
  <2>4. Untouched(mc, md, g) /\ md[g] = mc[g]
    BY <1>14, <2>1
  <2>5. Untouched(md, m2, g)
    BY <1>15, <2>1
  <2>6. Untouched(m, mc, g) /\ mc[g] = m[g]
    BY <2>2, <2>3, UntouchedAfter
  <2>7. Untouched(m, md, g) /\ md[g] = m[g]
    BY <2>4, <2>6, UntouchedAfter
  <2> QED
    BY <2>5, <2>7, UntouchedAfter
<1>18. /\ After(m2, h) = second /\ After(m2, second) = hi
       /\ size(m2[h]) = s /\ ~in_use(m2[h]) /\ ~in_use(m2[second])
  <2>1. h \in C /\ second \in C
    BY <1>1
  <2> HIDE DEF C
  <2> QED
    BY <1>12, <1>13, <1>14, <1>15, <2>1
<1> QED
  BY <1>0, <1>13, <1>15, <1>16, <1>17, <1>18 DEF hi

LEMMA MergeGood ==
    ASSUME NEW m, NEW B, NEW F, Good(m, B, F), NEW first \in B, NEW second \in B,
           After(m, first) = second
    PROVE  LET m2 == merge_block(m, first, second)
           IN  /\ Good(m2, B \ {second}, F \ {first, second})
               /\ After(m2, first) = After(m, second)
               /\ in_use(m2[first]) <=> in_use(m[first])
               /\ \A g \in B : g # first /\ g # second => m2[g] = m[g]
               /\ \A g \in B \ F : g # first /\ g # second => Untouched(m, m2, g)
<1> DEFINE ma == free_list_delete(m, first)
           mb == free_list_delete(ma, second)
           foot == footer_of(mb, second)
           mc == [mb EXCEPT ![foot] = first]
           m2 == SetSize(mc, first, foot - first - 1)
           hi == After(m, second)
           G == F \ {first}
           H == F \ {first, second}
<1>0. merge_block(m, first, second) = m2
  BY DEF merge_block
<1>1. Shape(m, B) /\ F \subseteq B
  BY DEF Good
<1>2. /\ Good(ma, B, G)
      /\ \A g \in B : ma[g] = m[g] /\ After(ma, g) = After(m, g)
      /\ \A g \in B \ F : Untouched(m, ma, g)
  BY DeleteGood
<1> HIDE DEF ma
<1>3. /\ Good(mb, B, H) /\ Shape(mb, B)
      /\ \A g \in B : mb[g] = ma[g] /\ After(mb, g) = After(ma, g)
      /\ \A g \in B \ F : Untouched(ma, mb, g)
  <2>1. G \ {second} = H
    OBVIOUS
  <2> HIDE DEF G, H
  <2>2. /\ Good(mb, B, G \ {second})
        /\ \A g \in B : mb[g] = ma[g] /\ After(mb, g) = After(ma, g)
        /\ \A g \in B \ G : Untouched(ma, mb, g)
    BY <1>2, DeleteGood
  <2> QED
    BY <2>1, <2>2 DEF G, Good
<1> HIDE DEF mb
<1>4. /\ first \in Int /\ first \in Addr /\ first >= Start + 2 /\ first + 3 <= second
      /\ second \in Int /\ hi \in Int /\ second + 3 <= hi /\ hi <= ArenaEnd
  BY <1>1, ShapeFacts
<1>5. foot = hi - 1 /\ mb \in Memory /\ After(mb, first) = second /\ After(mb, second) = hi
      /\ mb[first] = m[first]
  <2>1. foot = After(mb, second) - 1
    BY <1>3, ShapeFacts
  <2> QED
    BY <1>2, <1>3, <2>1 DEF Shape
<1> HIDE DEF foot, hi
<1>6. /\ foot \in Addr /\ foot # first /\ foot - first - 1 = hi - first - 2
      /\ foot - first - 1 \in 0 .. (TOP - 1)
  BY <1>4, <1>5, ConstantFacts
<1>7. mc \in Memory /\ mc[foot] = first /\ \A a \in Addr : a # foot => mc[a] = mb[a]
  BY <1>4, <1>5, <1>6 DEF Memory
<1> HIDE DEF mc
<1>8. /\ m2 \in Memory /\ size(m2[first]) = foot - first - 1
      /\ in_use(m2[first]) <=> in_use(mc[first])
      /\ \A a \in Addr : a # first => m2[a] = mc[a]
  BY <1>4, <1>6, <1>7, SetSizeIs
<1> HIDE DEF m2
<1>9. /\ \A a \in Addr : a \notin {first, After(mb, second) - 1} => m2[a] = mb[a]
      /\ size(m2[first]) = After(mb, second) - first - 2
      /\ m2[After(mb, second) - 1] = first
      /\ in_use(m2[first]) <=> in_use(m[first])
  <2>1. After(mb, second) - 1 = foot
    BY <1>5
  <2> QED
    BY <1>4, <1>5, <1>6, <1>7, <1>8, <2>1
<1>10. /\ Good(m2, B \ {second}, H)
       /\ After(m2, first) = After(mb, second)
       /\ \A g \in B : g # first /\ g # second => Untouched(mb, m2, g) /\ m2[g] = mb[g]
  <2>1. first \notin H /\ second \notin H
    OBVIOUS
  <2> HIDE DEF H
  <2> QED
    BY <1>3, <1>5, <1>8, <1>9, <2>1, JoinGood
<1>11. ASSUME NEW g \in B, g # first, g # second PROVE m2[g] = m[g]
  BY <1>2, <1>3, <1>10, <1>11
<1>12. ASSUME NEW g \in B \ F, g # first, g # second PROVE Untouched(m, m2, g)
  <2>1. Untouched(m, ma, g) /\ ma[g] = m[g]
    BY <1>2
  <2>2. Untouched(ma, mb, g) /\ mb[g] = ma[g]
    BY <1>3
  <2>3. Untouched(mb, m2, g)
    BY <1>10, <1>12
  <2>4. Untouched(m, mb, g) /\ mb[g] = m[g]
    BY <2>1, <2>2, UntouchedAfter
  <2> QED
    BY <2>3, <2>4, UntouchedAfter
<1> QED
  BY <1>0, <1>5, <1>9, <1>10, <1>11, <1>12 DEF hi

-----------------------------------------------------------------------------
(* Allocating and freeing.                                                 *)

\* The free list is the blocks that the headers call free.
Marked(m, B, F) == \A g \in B : in_use(m[g]) <=> g \notin F

\* alloc_memory cut a block of s words off the block h.
Allocated(m, m2, B, F, s, h, second) ==
    /\ h \in F /\ second = h + s + 2 /\ second \notin B
    /\ size(m[h]) >= s + 3
    /\ \A g \in F : size(m[g]) >= s + 2 => size(m[h]) <= size(m[g])
    /\ Good(m2, B \cup {second}, (F \cup {second}) \ {h})
    /\ Marked(m2, B \cup {second}, (F \cup {second}) \ {h})
    /\ After(m2, h) = second /\ After(m2, second) = After(m, h) /\ size(m2[h]) = s
    /\ \A g \in B : g # h => m2[g] = m[g]
    /\ \A g \in B \ F : Untouched(m, m2, g)

LEMMA AllocGood ==
    ASSUME NEW B, NEW F, Good(mem, B, F), Marked(mem, B, F), NEW s \in Requests,
           alloc_mishaps(s) = {}
    PROVE  LET done == alloc_memory(s)
           IN  \E second : Allocated(mem, done.mem, B, F, s, done.header, second)
<1> DEFINE found == free_list_find_can_fill(mem, s + 2)
           use == header_to_use(s)
           h == use.header
           m1 == IF size(use.mem[h]) > s THEN spilt_block(use.mem, h, s) ELSE use.mem
           m2 == free_list_delete(SetInUse(m1, h), h)
           done == [use EXCEPT !.mem = m2]
<1>0. alloc_memory(s) = done
  BY DEF alloc_memory
<1>1. Shape(mem, B) /\ Spaced(F) /\ F \subseteq B /\ Listed(mem, F) /\ mem \in Memory
  BY DEF Good, Shape, Spaced
<1>2. s \in Int /\ s >= 1 /\ s + 2 \in Int
  BY ConstantFacts
<1>3. found # NULL /\ found # Start - 1 /\ size(mem[found]) # s + 2
  BY DEF alloc_mishaps
<1>4. /\ found \in F /\ size(mem[found]) >= s + 2
      /\ \A g \in F : size(mem[g]) >= s + 2 => size(mem[found]) <= size(mem[g])
  <2> HIDE DEF found
  <2> QED
    BY <1>1, <1>2, <1>3, CanFillIs DEF found
<1>5. \E second : Allocated(mem, done.mem, B, F, s, done.header, second)
  <2>1. use = [mem |-> mem, header |-> found, end |-> end, FreePage |-> FreePage]
    BY <1>3 DEF header_to_use
  <2>2. h = found /\ use.mem = mem /\ use.end = end /\ use.FreePage = FreePage
    BY <2>1
  <2>3. done = [mem |-> m2, header |-> found, end |-> end, FreePage |-> FreePage]
    <3> HIDE DEF m2
    <3> QED
      BY <2>1
  <2> DEFINE second == h + s + 2
             C == B \cup {second}
             G == F \cup {second}
             mc == SetInUse(m1, h)
  <2>4. /\ h \in F /\ h \in B /\ size(mem[h]) >= s + 3 /\ h \in Addr
        /\ \A g \in F : size(mem[g]) >= s + 2 => size(mem[h]) <= size(mem[g])
        /\ size(mem[h]) > s
    <3>1. h \in F /\ h \in B /\ size(mem[h]) >= s + 2 /\ size(mem[h]) # s + 2
          /\ \A g \in F : size(mem[g]) >= s + 2 => size(mem[h]) <= size(mem[g])
      BY <1>1, <1>3, <1>4, <2>2
    <3>2. h \in Addr /\ size(mem[h]) \in 1 .. (TOP - 1)
      BY <1>1, <3>1, ShapeFacts
    <3> HIDE DEF h
    <3>3. size(mem[h]) > s /\ size(mem[h]) >= s + 3
      BY <1>2, <3>1, <3>2, ConstantFacts
    <3> QED
      BY <3>1, <3>2, <3>3
  <2>5. m1 = spilt_block(mem, h, s)
    BY <2>2, <2>4
  <2> HIDE DEF h, m1
  <2>6. /\ Good(m1, C, G) /\ second \notin B
        /\ After(m1, h) = second /\ After(m1, second) = After(mem, h)
        /\ size(m1[h]) = s /\ ~in_use(m1[h]) /\ ~in_use(m1[second])
        /\ \A g \in B : g # h => m1[g] = mem[g]
        /\ \A g \in B \ F : Untouched(mem, m1, g)
    <3>1. ~in_use(mem[h])
      BY <2>4 DEF Marked
    <3> QED
      BY <2>4, <2>5, <3>1, SplitGood
  <2> HIDE DEF C, G
  <2>7. h \in C /\ h \in G /\ second \in C
    BY <2>4 DEF C, G
  <2>8. /\ Good(mc, C, G) /\ in_use(mc[h]) /\ size(mc[h]) = s
        /\ \A g \in C : After(mc, g) = After(m1, g)
        /\ \A g \in C : g # h => Untouched(m1, mc, g) /\ mc[g] = m1[g]
    <3> DEFINE w == size(m1[h]) + TOP
    <3>1. m1 \in Memory /\ m1[h] \in Addr /\ size(m1[h]) \in 0 .. (TOP - 1)
      BY <2>4, <2>6, SizeFacts DEF Good, Shape, Memory
    <3>2. w \in Addr /\ size(w) = size(m1[h]) /\ in_use(w)
      BY <3>1, SizeFacts, ConstantFacts
    <3>3. mc = [m1 EXCEPT ![h] = w]
      BY DEF SetInUse
    <3> HIDE DEF w, mc
    <3>4. mc \in Memory /\ mc[h] = w /\ \A a \in Addr : a # h => mc[a] = m1[a]
      BY <2>4, <3>1, <3>2, <3>3 DEF Memory
    <3>5. /\ Good(mc, C, G)
          /\ \A g \in C : After(mc, g) = After(m1, g)
          /\ \A g \in C : g # h => Untouched(m1, mc, g) /\ mc[g] = m1[g]
      BY <2>6, <2>7, <3>2, <3>4, MarkGood
    <3> QED
      BY <2>6, <3>2, <3>4, <3>5
  <2>9. /\ Good(m2, C, G \ {h})
        /\ \A g \in C : m2[g] = mc[g] /\ After(m2, g) = After(mc, g)
        /\ \A g \in C \ G : Untouched(mc, m2, g)
    <3> HIDE DEF mc
    <3>1. m2 = free_list_delete(mc, h)
      BY DEF mc
    <3> QED
      BY <2>7, <2>8, <3>1, DeleteGood
  <2> HIDE DEF mc, m2, second
  <2>10. \A g \in B : g # h => m2[g] = mem[g]
    BY <2>6, <2>8, <2>9 DEF C
  <2>11. ASSUME NEW g \in B \ F PROVE Untouched(mem, m2, g)
    <3>1. g # h /\ g \in C \ G
      BY <2>4, <2>6 DEF C, G
    <3>2. Untouched(mem, m1, g) /\ m1[g] = mem[g]
      BY <2>6, <3>1
    <3>3. Untouched(m1, mc, g) /\ mc[g] = m1[g]
      BY <2>8, <3>1
    <3>4. Untouched(mc, m2, g)
      BY <2>9, <3>1
    <3>5. Untouched(mem, mc, g) /\ mc[g] = mem[g]
      BY <3>2, <3>3, UntouchedAfter
    <3> QED
      BY <3>4, <3>5, UntouchedAfter
  <2>12. After(m2, h) = second /\ After(m2, second) = After(mem, h) /\ size(m2[h]) = s
    BY <2>6, <2>7, <2>8, <2>9
  <2>13. Marked(m2, C, G \ {h})
    <3>1. h # second
      BY <2>4, <2>6
    <3>2. in_use(m2[h]) /\ ~in_use(m2[second])
      BY <2>6, <2>7, <2>8, <2>9, <3>1
    <3>3. \A g \in B : g # h => (in_use(m2[g]) <=> g \notin F)
      BY <2>10 DEF Marked
    <3>4. \A g \in B : g # second
      BY <2>6
    <3> QED
      BY <3>2, <3>3, <3>4 DEF Marked, C, G
  <2>14. Allocated(mem, m2, B, F, s, h, second)
    BY <2>4, <2>6, <2>9, <2>10, <2>11, <2>12, <2>13 DEF Allocated, C, G, second
  <2>15. done.end = end /\ done.FreePage = FreePage /\ done.header = h /\ done.mem = m2
    <3> HIDE DEF done
    <3> QED
      BY <2>2, <2>3
  <2> HIDE DEF done
  <2> QED
    BY <2>14, <2>15
<1> QED
  BY <1>0, <1>5

\* What merging with the block below c leaves, when that one is free.
LEMMA MergePrev ==
    ASSUME NEW m, NEW B, NEW F, Good(m, B, F), Marked(m, B, F), NEW c \in B, c \notin F
    PROVE  LET prev == m[At(c - 1)]
               merge_prev == prev # NULL /\ ~in_use(m[prev])
               m1 == IF merge_prev THEN merge_block(m, prev, c) ELSE m
               h == IF merge_prev THEN prev ELSE c
           IN  \E B1 :
                 /\ \/ h = c /\ B1 = B /\ \A p \in F : After(m, p) # c
                    \/ h \in F /\ After(m, h) = c /\ B1 = B \ {c}
                 /\ h \in B1 /\ Good(m1, B1, F \ {h}) /\ After(m1, h) = After(m, c)
                 /\ \A g \in B1 : g # h => m1[g] = m[g]
                 /\ \A g \in B \ F : g # c => Untouched(m, m1, g)
<1> DEFINE prev == m[At(c - 1)]
           merge_prev == prev # NULL /\ ~in_use(m[prev])
           m1 == IF merge_prev THEN merge_block(m, prev, c) ELSE m
           h == IF merge_prev THEN prev ELSE c
           Left(B1) ==
             /\ \/ h = c /\ B1 = B /\ \A p \in F : After(m, p) # c
                \/ h \in F /\ After(m, h) = c /\ B1 = B \ {c}
             /\ h \in B1 /\ Good(m1, B1, F \ {h}) /\ After(m1, h) = After(m, c)
             /\ \A g \in B1 : g # h => m1[g] = m[g]
             /\ \A g \in B \ F : g # c => Untouched(m, m1, g)
<1>1. Shape(m, B) /\ Spaced(B) /\ F \subseteq B /\ m \in Memory
  BY DEF Good, Shape
<1>2. c \in Int /\ c \in Addr /\ c >= Start + 2 /\ c # NULL /\ c + 3 <= ArenaEnd
  BY <1>1, SpacedFacts
<1>3. At(c - 1) = c - 1
  <2>1. c - 1 \in Addr
    BY <1>2, ConstantFacts
  <2> QED
    BY <2>1, AtFacts
<1>4. ASSUME \E p \in F : After(m, p) = c PROVE \E B1 : Left(B1)
  <2>1. PICK p \in F : After(m, p) = c
    BY <1>4
  <2>2. p \in B /\ After(m, p) # ArenaEnd /\ p # NULL /\ p \in Int /\ p + 3 <= c
    <3>1. p \in B
      BY <1>1
    <3>2. p \in Int /\ p + 3 <= After(m, p) /\ p >= Start + 2
      BY <1>1, <3>1, ShapeFacts
    <3> QED
      BY <1>2, <2>1, <3>1, <3>2, ConstantFacts
  <2>3. m[c - 1] = p
    BY <1>1, <2>1, <2>2 DEF Shape
  <2>4. prev = p
    BY <1>3, <2>3
  <2>5. ~in_use(m[p])
    BY <2>1, <2>2 DEF Marked
  <2>6. m1 = merge_block(m, p, c) /\ h = p
    BY <2>2, <2>4, <2>5
  <2> HIDE DEF m1, h, prev
  <2>7. /\ Good(m1, B \ {c}, F \ {p, c})
        /\ After(m1, p) = After(m, c)
        /\ \A g \in B : g # p /\ g # c => m1[g] = m[g]
        /\ \A g \in B \ F : g # p /\ g # c => Untouched(m, m1, g)
    BY <2>1, <2>2, <2>6, MergeGood
  <2>8. F \ {p, c} = F \ {p} /\ p \in B \ {c}
    BY <1>2, <2>2
  <2>9. Left(B \ {c})
    BY <2>1, <2>6, <2>7, <2>8
  <2> HIDE DEF Left
  <2> QED
    BY <2>9
<1>5. ASSUME ~\E p \in F : After(m, p) = c PROVE \E B1 : Left(B1)
  <2>1. ~merge_prev
    <3>1. CASE c = FirstHeader
      <4>1. c - 1 = Start + 1
        BY <3>1, ConstantFacts
      <4>2. prev = NULL
        BY <1>1, <1>3, <4>1 DEF Shape
      <4> QED
        BY <4>2
    <3>2. CASE c # FirstHeader
      <4>1. PICK p \in B : After(m, p) = c
        BY <1>1, <3>2, BlockBelow
      <4>2. m[c - 1] = p
        BY <1>1, <1>2, <4>1, ConstantFacts DEF Shape
      <4>3. in_use(m[p])
        BY <1>5, <4>1 DEF Marked
      <4> QED
        BY <1>3, <4>2, <4>3
    <3> QED
      BY <3>1, <3>2
  <2>2. m1 = m /\ h = c
    BY <2>1
  <2> HIDE DEF m1, h
  <2>3. F \ {c} = F
    OBVIOUS
  <2>4. \A g \in B : Untouched(m, m, g)
    BY DEF Untouched
  <2>5. Left(B)
    BY <1>5, <2>2, <2>3, <2>4
  <2> HIDE DEF Left
  <2> QED
    BY <2>5
<1> QED
  BY <1>4, <1>5

\* What merging the free block h with the one above it leaves, when that one is
\* free too.
LEMMA MergeNext ==
    ASSUME NEW m, NEW B, NEW F, Good(m, B, F), NEW h \in B, h \notin F,
           \A g \in B : g # h => (in_use(m[g]) <=> g \notin F),
           NEW next, next = After(m, h), next # ArenaEnd
    PROVE  LET m2 == IF m[next] # NULL /\ ~in_use(m[next]) THEN merge_block(m, h, next) ELSE m
           IN  \E B2, stop :
                 /\ \/ stop = next /\ next \notin F /\ B2 = B
                    \/ next \in F /\ stop = After(m, next) /\ B2 = B \ {next}
                 /\ h \in B2 /\ Good(m2, B2, F \ {next}) /\ After(m2, h) = stop
                 /\ \A g \in B2 : g # h => m2[g] = m[g]
                 /\ \A g \in B \ F : g # h => Untouched(m, m2, g)
<1> DEFINE m2 == IF m[next] # NULL /\ ~in_use(m[next]) THEN merge_block(m, h, next) ELSE m
           Left(B2, stop) ==
             /\ \/ stop = next /\ next \notin F /\ B2 = B
                \/ next \in F /\ stop = After(m, next) /\ B2 = B \ {next}
             /\ h \in B2 /\ Good(m2, B2, F \ {next}) /\ After(m2, h) = stop
             /\ \A g \in B2 : g # h => m2[g] = m[g]
             /\ \A g \in B \ F : g # h => Untouched(m, m2, g)
<1>1. Shape(m, B) /\ Spaced(B) /\ F \subseteq B
  BY DEF Good, Shape
<1>2. h \in Int /\ next \in Int /\ h + 3 <= next /\ next \in B
  BY <1>1, ShapeFacts DEF Shape
<1>3. ASSUME next \in F PROVE \E B2, stop : Left(B2, stop)
  <2>1. next \in B /\ next # h
    BY <1>1, <1>2, <1>3
  <2>2. m[next] # NULL /\ ~in_use(m[next])
    BY <1>1, <1>3, <2>1, ShapeFacts
  <2>3. m2 = merge_block(m, h, next)
    BY <2>2
  <2> HIDE DEF m2
  <2>4. /\ Good(m2, B \ {next}, F \ {h, next})
        /\ After(m2, h) = After(m, next)
        /\ \A g \in B : g # h /\ g # next => m2[g] = m[g]
        /\ \A g \in B \ F : g # h /\ g # next => Untouched(m, m2, g)
    BY <2>1, <2>3, MergeGood
  <2>5. F \ {h, next} = F \ {next} /\ h \in B \ {next}
    BY <2>1
  <2>6. Left(B \ {next}, After(m, next))
    BY <1>3, <2>4, <2>5
  <2> HIDE DEF Left
  <2> QED
    BY <2>6
<1>4. ASSUME next \notin F PROVE \E B2, stop : Left(B2, stop)
  <2>1. m[next] = NULL \/ in_use(m[next])
    BY <1>2, <1>4
  <2>2. m2 = m
    BY <2>1
  <2> HIDE DEF m2
  <2>3. F \ {next} = F
    BY <1>4
  <2>4. \A g \in B : Untouched(m, m, g)
    BY DEF Untouched
  <2>5. Left(B, next)
    BY <1>4, <2>2, <2>3, <2>4
  <2> HIDE DEF Left
  <2> QED
    BY <2>5
<1> QED
  BY <1>3, <1>4

\* free_memory made one free block, from h up to stop, of the block c and its
\* free neighbours.
Remaining(B, h, stop) == {g \in B : g <= h \/ g >= stop}
Freed(m, m2, B, F, c, h, stop) ==
    /\ \/ h = c /\ \A p \in F : After(m, p) # c
       \/ h \in F /\ After(m, h) = c
    /\ \/ stop = After(m, c) /\ stop \notin F
       \/ After(m, c) \in F /\ stop = After(m, After(m, c))
    /\ h \in Remaining(B, h, stop) /\ After(m2, h) = stop
    /\ Good(m2, Remaining(B, h, stop), (F \cap Remaining(B, h, stop)) \cup {h})
    /\ Marked(m2, Remaining(B, h, stop), (F \cap Remaining(B, h, stop)) \cup {h})
    /\ \A g \in Remaining(B, h, stop) : g # h => m2[g] = m[g]
    /\ \A g \in B \ F : g # c => Untouched(m, m2, g) /\ g \in Remaining(B, h, stop) /\ g # h

LEMMA FreeGood ==
    ASSUME NEW m, NEW B, NEW F, Good(m, B, F), Marked(m, B, F), NEW c \in B, c \notin F,
           After(m, c) # ArenaEnd
    PROVE  \E h, stop : Freed(m, free_memory(m, c + 1), B, F, c, h, stop)
<1> DEFINE next == next_block(m, c)
           prev == m[At(c - 1)]
           merge_prev == prev # NULL /\ ~in_use(m[prev])
           m1 == IF merge_prev THEN merge_block(m, prev, c) ELSE m
           h == IF merge_prev THEN prev ELSE c
           m2 == IF m1[next] # NULL /\ ~in_use(m1[next]) THEN merge_block(m1, h, next) ELSE m1
           mc == ClearInUse(m2, h)
           md == free_list_insert(mc, h)
           G == F \ {h}
           H == G \ {next}
<1>1. Shape(m, B) /\ Spaced(B) /\ F \subseteq B /\ m \in Memory
  BY DEF Good, Shape
<1>2. /\ c \in Int /\ c \in Addr /\ next = After(m, c) /\ next \in Int /\ c + 3 <= next
  BY <1>1, ShapeFacts
<1>3. free_memory(m, c + 1) = md
  <2>1. (c + 1) - 1 = c /\ At(c) = c
    BY <1>2, AtFacts
  <2>2. At((c + 1) - 1) = c
    BY <2>1
  <2> HIDE DEF merge_prev
  <2> QED
    BY <2>2 DEF free_memory, merge_prev
<1>4. PICK B1 :
        /\ \/ h = c /\ B1 = B /\ \A p \in F : After(m, p) # c
           \/ h \in F /\ After(m, h) = c /\ B1 = B \ {c}
        /\ h \in B1 /\ Good(m1, B1, G) /\ After(m1, h) = After(m, c)
        /\ \A g \in B1 : g # h => m1[g] = m[g]
        /\ \A g \in B \ F : g # c => Untouched(m, m1, g)
  BY MergePrev
<1> HIDE DEF m1, h, merge_prev, prev, next
<1>5. /\ h \in B /\ h \in Int /\ h \in Addr /\ h <= c /\ h # next
      /\ (h # c => h + 3 <= c) /\ B1 \subseteq B
      /\ \A g \in B : g \in B1 <=> g = h \/ g # c
      /\ \A g \in B : g \in Int
      /\ \A g \in B : h < g => c <= g
      /\ \A g \in B : c < g => next <= g
  <2>1. h \in B /\ h \in Int /\ h \in Addr /\ \A g \in B : g \in Int
    BY <1>1, <1>4, SpacedFacts
  <2>2. h # c => After(m, h) = c /\ h + 3 <= c
    BY <1>1, <1>4, <2>1, ShapeFacts
  <2>3. \A g \in B : h < g => After(m, h) <= g
    BY <1>1, <2>1 DEF Shape
  <2>4. \A g \in B : c < g => next <= g
    BY <1>1, <1>2 DEF Shape
  <2>5. \A g \in B : h < g => c <= g
    BY <1>2, <2>1, <2>2, <2>3
  <2> QED
    BY <1>2, <1>4, <2>1, <2>2, <2>4, <2>5
<1>6. PICK B2, stop :
        /\ \/ stop = next /\ next \notin G /\ B2 = B1
           \/ next \in G /\ stop = After(m1, next) /\ B2 = B1 \ {next}
        /\ h \in B2 /\ Good(m2, B2, H) /\ After(m2, h) = stop
        /\ \A g \in B2 : g # h => m2[g] = m1[g]
        /\ \A g \in B1 \ G : g # h => Untouched(m1, m2, g)
  <2>1. h \notin G
    OBVIOUS
  <2>2. next = After(m1, h) /\ next # ArenaEnd
    BY <1>2, <1>4
  <2>3. \A g \in B1 : g # h => (in_use(m1[g]) <=> g \notin G)
    BY <1>4, <1>5 DEF Marked
  <2> HIDE DEF G
  <2> QED
    BY <1>4, <2>1, <2>2, <2>3, MergeNext
<1> HIDE DEF m2
<1>7. next \in G => /\ next \in B /\ next \in B1 /\ m1[next] = m[next] /\ After(m1, next) = After(m, next)
                    /\ After(m, next) \in Int /\ next + 3 <= After(m, next)
                    /\ \A g \in B : next < g => After(m, next) <= g
  <2> SUFFICES ASSUME next \in G
               PROVE  /\ next \in B /\ next \in B1 /\ m1[next] = m[next]
                      /\ After(m1, next) = After(m, next)
                      /\ After(m, next) \in Int /\ next + 3 <= After(m, next)
                      /\ \A g \in B : next < g => After(m, next) <= g
    OBVIOUS
  <2>1. next \in B /\ next \in B1
    BY <1>1, <1>2, <1>5
  <2>2. m1[next] = m[next]
    BY <1>4, <1>5, <2>1
  <2>3. After(m, next) \in Int /\ next + 3 <= After(m, next)
    BY <1>1, <2>1, ShapeFacts
  <2> QED
    BY <1>1, <2>1, <2>2, <2>3 DEF Shape, After
<1>8. B2 = Remaining(B, h, stop)
  <2>1. B2 \subseteq B
    BY <1>5, <1>6
  <2>2. ASSUME NEW g \in B PROVE g \in B2 <=> g <= h \/ g >= stop
    <3>1. CASE next \in G
      <4>1. stop = After(m, next) /\ (g \in B2 <=> g \in B1 /\ g # next)
        BY <1>6, <1>7, <3>1
      <4>2. /\ g \in Int /\ h \in Int /\ c \in Int /\ next \in Int /\ stop \in Int
            /\ next + 3 <= stop /\ c + 3 <= next /\ h <= c
            /\ (g \in B1 <=> g = h \/ g # c)
            /\ (h < g => c <= g) /\ (c < g => next <= g) /\ (next < g => stop <= g)
        BY <1>2, <1>5, <1>7, <3>1, <4>1
      <4> QED
        BY <4>1, <4>2
    <3>2. CASE next \notin G
      <4>1. stop = next /\ B2 = B1
        BY <1>6, <3>2
      <4>2. /\ g \in Int /\ h \in Int /\ c \in Int /\ next \in Int
            /\ c + 3 <= next /\ h <= c
            /\ (g \in B1 <=> g = h \/ g # c)
            /\ (h < g => c <= g) /\ (c < g => next <= g)
        BY <1>2, <1>5
      <4> QED
        BY <4>1, <4>2
    <3> QED
      BY <3>1, <3>2
  <2> QED
    BY <2>1, <2>2 DEF Remaining
<1>9. H \cup {h} = (F \cap B2) \cup {h}
  <2>1. c \notin F /\ \A g \in F : g \in B
    BY <1>1
  <2>2. ASSUME NEW g \in F, g # h PROVE g \in H <=> g \in B2
    <3>1. g \in B1 /\ g \in G
      BY <1>5, <2>1, <2>2
    <3> QED
      BY <1>6, <3>1
  <2> QED
    BY <2>2
<1> HIDE DEF G
<1>10. /\ Good(mc, B2, H) /\ ~in_use(mc[h]) /\ After(mc, h) = stop
       /\ \A g \in B2 : g # h => Untouched(m2, mc, g) /\ mc[g] = m2[g]
  <2>1. m2 \in Memory /\ m2[h] \in Addr
    BY <1>5, <1>6 DEF Good, Shape, Memory
  <2>2. /\ size(m2[h]) \in 0 .. (TOP - 1) /\ size(m2[h]) \in Addr
        /\ size(size(m2[h])) = size(m2[h]) /\ ~in_use(size(m2[h]))
    BY <2>1, SizeFacts, ConstantFacts
  <2>3. mc = [m2 EXCEPT ![h] = size(m2[h])]
    BY DEF ClearInUse
  <2>4. mc \in Memory /\ mc[h] = size(m2[h]) /\ \A a \in Addr : a # h => mc[a] = m2[a]
    BY <1>5, <2>1, <2>2, <2>3 DEF Memory
  <2> HIDE DEF mc, H
  <2>5. /\ Good(mc, B2, H)
        /\ \A g \in B2 : After(mc, g) = After(m2, g)
        /\ \A g \in B2 : g # h => Untouched(m2, mc, g) /\ mc[g] = m2[g]
    BY <1>6, <2>2, <2>4, MarkGood
  <2> QED
    BY <1>6, <2>2, <2>4, <2>5
<1> HIDE DEF mc
<1>11. /\ Good(md, B2, H \cup {h})
       /\ \A g \in B2 : md[g] = mc[g] /\ After(md, g) = After(mc, g)
       /\ \A g \in B2 \ (H \cup {h}) : Untouched(mc, md, g)
  <2>1. h \notin H
    BY DEF G
  <2> HIDE DEF H
  <2> QED
    BY <1>6, <1>10, <2>1, InsertGood
<1> HIDE DEF md
<1>12. ASSUME NEW g \in B2, g # h PROVE md[g] = m[g]
  BY <1>4, <1>6, <1>10, <1>11, <1>12
<1>13. Marked(md, B2, H \cup {h})
  <2>1. ~in_use(md[h])
    BY <1>6, <1>10, <1>11
  <2>2. ASSUME NEW g \in B2, g # h PROVE in_use(md[g]) <=> g \notin H \cup {h}
    <3>1. g \in B
      BY <1>8, <2>2 DEF Remaining
    <3>2. in_use(md[g]) <=> g \notin F
      BY <1>12, <2>2, <3>1 DEF Marked
    <3>3. g \in F <=> g \in H \cup {h}
      BY <1>9, <2>2
    <3> QED
      BY <3>2, <3>3
  <2> QED
    BY <2>1, <2>2 DEF Marked
<1>14. ASSUME NEW g \in B \ F, g # c PROVE Untouched(m, md, g) /\ g \in B2 /\ g # h
  <2>1. g # h /\ g \in B1 /\ g \notin G
    BY <1>4, <1>5, <1>14 DEF G
  <2>2. g \in B2
    BY <1>6, <2>1
  <2>3. g \notin H \cup {h}
    BY <2>1
  <2>4. Untouched(m, m1, g) /\ m1[g] = m[g]
    BY <1>4, <1>14, <2>1
  <2>5. Untouched(m1, m2, g) /\ m2[g] = m1[g]
    BY <1>6, <2>1, <2>2
  <2>6. Untouched(m2, mc, g) /\ mc[g] = m2[g]
    BY <1>10, <2>1, <2>2
  <2>7. Untouched(mc, md, g)
    BY <1>11, <2>2, <2>3
  <2>8. Untouched(m, m2, g) /\ m2[g] = m[g]
    BY <2>4, <2>5, UntouchedAfter
  <2>9. Untouched(m, mc, g) /\ mc[g] = m[g]
    BY <2>6, <2>8, UntouchedAfter
  <2>10. Untouched(m, md, g)
    BY <2>7, <2>9, UntouchedAfter
  <2> QED
    BY <2>1, <2>2, <2>10
<1>15. /\ \/ h = c /\ \A p \in F : After(m, p) # c
          \/ h \in F /\ After(m, h) = c
       /\ \/ stop = After(m, c) /\ stop \notin F
          \/ After(m, c) \in F /\ stop = After(m, After(m, c))
  <2>1. next \in G <=> next \in F
    BY <1>5 DEF G
  <2> QED
    BY <1>2, <1>4, <1>6, <1>7, <2>1
<1>16. Freed(m, md, B, F, c, h, stop)
  <2> DEFINE R == Remaining(B, h, stop)
  <2>1. R = B2
    BY <1>8
  <2> HIDE DEF R, H
  <2>2. h \in R /\ After(md, h) = stop /\ Good(md, R, (F \cap R) \cup {h}) /\ Marked(md, R, (F \cap R) \cup {h})
    BY <1>6, <1>9, <1>10, <1>11, <1>13, <2>1
  <2>3. /\ \A g \in R : g # h => md[g] = m[g]
        /\ \A g \in B \ F : g # c => Untouched(m, md, g) /\ g \in R /\ g # h
    BY <1>12, <1>14, <2>1
  <2> QED
    BY <1>15, <2>2, <2>3 DEF Freed, R
<1> QED
  BY <1>3, <1>16

-----------------------------------------------------------------------------
(* What a reader of the words finds: Blocks and FreeList.                  *)

LEMMA BlocksIs ==
    ASSUME NEW B, Shape(mem, B), HeapInited
    PROVE  Blocks = B
<1> DEFINE nx == [h \in Addr |-> next_block(mem, h)]
           S == {h \in Addr : h >= ArenaEnd}
           Step(f, h) == IF h >= ArenaEnd THEN {} ELSE {h} \cup f[next_block(mem, h)]
           Is(f) == f = [h \in Addr |-> IF h >= ArenaEnd THEN {} ELSE {h} \cup f[next_block(mem, h)]]
           walk == CHOOSE f : Is(f)
<1>1. Blocks = walk[FirstHeader]
  <2>1. Blocks = IF HeapInited THEN walk[FirstHeader] ELSE {}
    BY Zenon DEF Blocks
  <2> QED
    BY <2>1
<1>2. nx \in Memory /\ S \in SUBSET Addr /\ \A h \in Addr : next_block(mem, h) \in Addr
  <2>1. \A h \in Addr : next_block(mem, h) \in Addr
    <3>1. ASSUME NEW h \in Addr PROVE next_block(mem, h) \in Addr
      <4>1. mem[h] \in Addr
        BY DEF Shape, Memory
      <4>2. h + 1 + size(mem[h]) \in Int
        BY <4>1, SizeFacts, ConstantFacts
      <4>3. footer_of(mem, h) \in Addr
        BY <4>2, AtFacts DEF footer_of
      <4>4. footer_of(mem, h) + 1 \in Int
        BY <4>3, ConstantFacts
      <4> QED
        BY <4>4, AtFacts DEF next_block
    <3> QED
      BY <3>1
  <2> QED
    BY <2>1 DEF Memory
<1>3. Is(walk)
  <2> DEFINE f == [h \in Addr |-> {x \in Reach(nx, S, h) : x < ArenaEnd}]
  <2>1. \A h \in Addr : \A x \in Reach(nx, S, h) : x \in Addr
    BY DEF Reach
  <2>2. ASSUME NEW h \in Addr PROVE f[h] = Step(f, h)
    <3>0. nx[h] = next_block(mem, h) /\ nx[h] \in Addr /\ (h \in S <=> h >= ArenaEnd)
      BY <1>2
    <3>a. /\ h \in S => Reach(nx, S, h) = {h}
          /\ h \notin S => Reach(nx, S, h) = {h} \cup Reach(nx, S, nx[h])
      <4> HIDE DEF nx, S
      <4> QED
        BY <1>2, ReachStep
    <3> HIDE DEF nx, S
    <3>b. h \in Int /\ ArenaEnd \in Int
      BY ConstantFacts
    <3>1. CASE h >= ArenaEnd
      BY <3>0, <3>1, <3>a, <3>b
    <3>2. CASE ~(h >= ArenaEnd)
      <4>1. Reach(nx, S, h) = {h} \cup Reach(nx, S, nx[h]) /\ h < ArenaEnd
        BY <3>0, <3>2, <3>a, <3>b
      <4>2. f[h] = {h} \cup f[nx[h]]
        BY <3>0, <4>1
      <4> HIDE DEF f
      <4> QED
        BY <3>0, <3>2, <4>2
    <3> QED
      BY <3>1, <3>2
  <2>3. f = [h \in Addr |-> f[h]]
    OBVIOUS
  <2> HIDE DEF f
  <2>4. Is(f)
    BY <2>2, <2>3
  <2> HIDE DEF Is
  <2> QED
    BY <2>4
<1>4. \A h \in Addr : walk[h] = Step(walk, h)
  <2> HIDE DEF walk
  <2> QED
    BY <1>3
<1> HIDE DEF walk, Is
<1>5. \A h \in B : h \in Int /\ h \in Addr /\ h < ArenaEnd
  <2>1. \A h \in B : h \in Int /\ h \in Addr /\ h + 3 <= ArenaEnd
    BY SpacedFacts DEF Shape
  <2> QED
    BY <2>1, ConstantFacts
<1> DEFINE From(h) == {g \in B : g >= h}
           T == {h \in B : walk[h] # From(h)}
<1>6. ASSUME T # {} PROVE FALSE
  <2>1. PICK h \in T : \A g \in T : g <= h
    <3>1. T \in SUBSET Int /\ ArenaEnd \in Int /\ \A g \in T : g <= ArenaEnd
      BY <1>5, ConstantFacts
    <3> HIDE DEF T
    <3> QED
      BY <1>6, <3>1, GreatestBelow
  <2>2. h \in B /\ walk[h] # From(h) /\ h \in Int /\ h \in Addr /\ h < ArenaEnd
    BY <1>5, <2>1
  <2> DEFINE a == After(mem, h)
  <2>3. /\ a \in Int /\ h + 3 <= a /\ next_block(mem, h) = a /\ a \in B \cup {ArenaEnd}
        /\ a <= ArenaEnd /\ \A g \in B : h < g => a <= g
    <3>1. a \in Int /\ h + 3 <= a /\ next_block(mem, h) = a /\ a <= ArenaEnd
      BY <2>2, ShapeFacts
    <3>2. a \in B \cup {ArenaEnd} /\ \A g \in B : h < g => a <= g
      BY <2>2 DEF Shape
    <3> QED
      BY <3>1, <3>2
  <2>4. a \in Addr /\ walk[h] = {h} \cup walk[a]
    <3>1. a \in Addr
      BY <1>2, <2>2, <2>3
    <3>2. ~(h >= ArenaEnd)
      BY <2>2, ConstantFacts
    <3>3. walk[h] = {h} \cup walk[next_block(mem, h)]
      BY <1>4, <2>2, <3>2
    <3> QED
      BY <2>3, <3>1, <3>3
  <2> HIDE DEF a
  <2>5. From(h) = {h} \cup From(a)
    <3>1. ASSUME NEW g \in B PROVE g >= h <=> g = h \/ g >= a
      BY <1>5, <2>2, <2>3
    <3> QED
      BY <2>2, <3>1
  <2>6. walk[a] = From(a)
    <3>1. CASE a = ArenaEnd
      <4>1. a >= ArenaEnd
        BY <2>3, <3>1
      <4>2. walk[a] = {}
        BY <1>4, <2>4, <4>1
      <4>3. \A g \in B : ~(g >= a)
        BY <1>5, <3>1, ConstantFacts
      <4> QED
        BY <4>2, <4>3
    <3>2. CASE a \in B
      <4>1. a \notin T
        BY <2>1, <2>2, <2>3
      <4> QED
        BY <3>2, <4>1
    <3> QED
      BY <2>3, <3>1, <3>2
  <2> HIDE DEF From
  <2> QED
    BY <2>2, <2>4, <2>5, <2>6
<1>7. FirstHeader \in B /\ From(FirstHeader) = B
  <2>1. FirstHeader \in B
    BY DEF Shape
  <2>2. \A g \in B : g >= FirstHeader
    BY DEF Shape, Spaced
  <2> QED
    BY <2>1, <2>2
<1> HIDE DEF From
<1> QED
  BY <1>1, <1>6, <1>7

\* A page is longer than its free list.
LEMMA ListFits ==
    ASSUME NEW m, NEW F, Spaced(F), NEW n, NEW c, List(m, F, n, c)
    PROVE  n <= PAGE
<1> DEFINE I == 1 .. n
           T == FirstHeader .. (ArenaEnd - 1)
           f == [i \in I |-> c[i] - 1]
<1>list. Chained(F, n, c)
  BY ListFacts
<1>1. f \in Injection(I, T)
  <2>1. ASSUME NEW i \in I PROVE c[i] - 1 \in T /\ i \in 0 .. n /\ c[i] \in Int
    <3>0. n \in Nat /\ c[i] - 1 \in F
      BY <1>list, <2>1 DEF Chained
    <3>1. n \in Nat /\ c[i] - 1 \in F /\ i \in 0 .. n
      BY <2>1, <3>0
    <3>2. c[i] \in Int
      BY <1>list, <3>1 DEF Chained
    <3>3. Start + 2 <= c[i] - 1 /\ (c[i] - 1) + 3 <= ArenaEnd /\ c[i] - 1 \in Int
      BY <3>1, SpacedFacts
    <3>4. FirstHeader = Start + 2 /\ FirstHeader \in Int /\ ArenaEnd \in Int
      BY ConstantFacts
    <3> QED
      BY <3>1, <3>2, <3>3, <3>4
  <2>2. \A i, j \in I : c[i] - 1 = c[j] - 1 => i = j
    <3> SUFFICES ASSUME NEW i \in I, NEW j \in I, c[i] - 1 = c[j] - 1 PROVE i = j
      OBVIOUS
    <3>1. c[i] \in Int /\ c[j] \in Int /\ i \in 0 .. n /\ j \in 0 .. n
      BY <2>1
    <3>2. c[i] = c[j]
      BY <3>1
    <3> QED
      BY <1>list, <3>1, <3>2 DEF Chained
  <2> HIDE DEF T
  <2> QED
    BY <2>1, <2>2 DEF Injection, IsInjective
<1>2. n \in Nat /\ 1 \in Int /\ n \in Int
  BY <1>list DEF Chained
<1>3. FirstHeader \in Int /\ ArenaEnd - 1 \in Int /\ (ArenaEnd - 1) - FirstHeader + 1 = PAGE /\ PAGE \in Nat
  BY ConstantFacts
<1>4. IsFiniteSet(T) /\ Cardinality(T) = IF FirstHeader > ArenaEnd - 1 THEN 0 ELSE PAGE
  BY <1>3, FS_Interval
<1>5. Cardinality(I) = IF 1 > n THEN 0 ELSE n
  <2>1. Cardinality(1 .. n) = IF 1 > n THEN 0 ELSE n - 1 + 1
    BY <1>2, FS_Interval
  <2> QED
    BY <1>2, <2>1
<1> HIDE DEF I, T, f
<1>6. Cardinality(I) <= Cardinality(T)
  BY <1>1, <1>4, FS_Injection
<1> QED
  BY <1>2, <1>3, <1>4, <1>5, <1>6

LEMMA FreeListIs ==
    ASSUME NEW F, Spaced(F), mem \in Memory, NEW n, NEW c, List(mem, F, n, c), HeapInited
    PROVE  FreeList = [i \in 1 .. n |-> c[i] - 1]
<1> DEFINE Is(f) == f = [k \in 0 .. PAGE |->
                           IF k = 0 THEN free_list ELSE IF f[k - 1] = NULL THEN NULL ELSE mem[f[k - 1]]]
           entry == CHOOSE f : Is(f)
           on_list == {k \in 1 .. PAGE : entry[k] # NULL}
           e == [k \in 0 .. PAGE |-> IF k <= n THEN c[k] ELSE NULL]
<1>1. FreeList = [k \in on_list |-> header_of_free_block(entry[k])]
  <2>1. FreeList = IF HeapInited THEN [k \in on_list |-> header_of_free_block(entry[k])] ELSE << >>
    BY Zenon DEF FreeList
  <2> HIDE DEF on_list, entry
  <2> QED
    BY <2>1
<1>list. Chained(F, n, c)
  BY ListFacts
<1>2. n \in Nat /\ n <= PAGE /\ PAGE \in Nat
  BY <1>list, ListFits, ConstantFacts DEF Chained
<1>3. e[0] = free_list
  BY <1>2, ConstantFacts DEF List
<1>4. ASSUME NEW k \in 1 .. PAGE PROVE e[k] = IF e[k - 1] = NULL THEN NULL ELSE mem[e[k - 1]]
  <2>1. k \in 0 .. PAGE /\ k - 1 \in 0 .. PAGE /\ k \in Int
    BY <1>2
  <2>2. CASE k <= n
    <3>1. k - 1 \in 0 .. (n - 1) /\ k - 1 \in 0 .. n /\ (k - 1) + 1 = k /\ k - 1 <= n
      BY <1>2, <2>1, <2>2
    <3>2. e[k] = c[k] /\ e[k - 1] = c[k - 1]
      BY <2>1, <2>2, <3>1
    <3>3. mem[c[k - 1]] = c[k] /\ c[k - 1] # NULL
      BY <1>list, <3>1 DEF List, Chained
    <3> QED
      BY <3>2, <3>3
  <2>3. CASE k = n + 1
    <3>1. k - 1 = n /\ ~(k <= n) /\ k - 1 <= n
      BY <1>2, <2>3
    <3>2. e[k] = NULL /\ e[k - 1] = c[n]
      BY <2>1, <3>1
    <3>3. mem[c[n]] = NULL
      BY DEF List
    <3> QED
      BY <3>2, <3>3
  <2>4. CASE k > n + 1
    <3>1. ~(k <= n) /\ ~(k - 1 <= n)
      BY <1>2, <2>1, <2>4
    <3>2. e[k] = NULL /\ e[k - 1] = NULL
      BY <2>1, <3>1
    <3> QED
      BY <3>2
  <2> QED
    BY <1>2, <2>1, <2>2, <2>3, <2>4
<1>5. Is(entry)
  <2>1. e = [k \in 0 .. PAGE |-> e[k]]
    OBVIOUS
  <2> HIDE DEF e
  <2>2. \A k \in 0 .. PAGE : k = 0 \/ k \in 1 .. PAGE
    BY <1>2
  <2>3. Is(e)
    BY <1>3, <1>4, <2>1, <2>2
  <2> HIDE DEF Is
  <2> QED
    BY <2>3
<1> HIDE DEF e, entry
<1>6. /\ entry[0] = free_list
      /\ \A k \in 1 .. PAGE : entry[k] = IF entry[k - 1] = NULL THEN NULL ELSE mem[entry[k - 1]]
  <2>1. \A k \in 0 .. PAGE : entry[k] = IF k = 0 THEN free_list
                                        ELSE IF entry[k - 1] = NULL THEN NULL ELSE mem[entry[k - 1]]
    BY <1>5
  <2>2. 0 \in 0 .. PAGE /\ \A k \in 1 .. PAGE : k \in 0 .. PAGE /\ k # 0
    BY <1>2
  <2> QED
    BY <2>1, <2>2
<1>7. \A k \in 0 .. PAGE : entry[k] = e[k]
  <2> DEFINE P == {k \in 0 .. PAGE : entry[k] # e[k]}
  <2> SUFFICES ASSUME P # {} PROVE FALSE
    OBVIOUS
  <2>1. PICK k \in P : \A i \in 0 .. (k - 1) : i \notin P
    <3>1. P \in SUBSET (0 .. PAGE)
      OBVIOUS
    <3> HIDE DEF P
    <3> QED
      BY <1>2, <3>1, FirstPlace
  <2>2. k \in 0 .. PAGE /\ entry[k] # e[k]
    BY <2>1
  <2>3. k # 0
    BY <1>3, <1>6, <2>2
  <2>4. k \in 1 .. PAGE /\ k - 1 \in 0 .. (k - 1) /\ k - 1 \in 0 .. PAGE
    BY <1>2, <2>2, <2>3
  <2>5. entry[k - 1] = e[k - 1]
    BY <2>1, <2>4
  <2> QED
    BY <1>4, <1>6, <2>2, <2>4, <2>5
<1>8. \A k \in 1 .. PAGE : /\ k <= n => entry[k] = c[k] /\ entry[k] # NULL /\ k \in 1 .. n
                           /\ ~(k <= n) => entry[k] = NULL
  <2> SUFFICES ASSUME NEW k \in 1 .. PAGE
               PROVE  /\ k <= n => entry[k] = c[k] /\ entry[k] # NULL /\ k \in 1 .. n
                      /\ ~(k <= n) => entry[k] = NULL
    OBVIOUS
  <2>1. k \in 0 .. PAGE /\ (k <= n => k \in 0 .. n /\ k \in 1 .. n)
    BY <1>2
  <2>2. entry[k] = IF k <= n THEN c[k] ELSE NULL
    BY <1>7, <2>1 DEF e
  <2> QED
    BY <1>list, <2>1, <2>2 DEF Chained
<1>9. on_list = 1 .. n
  <2>1. \A k \in 1 .. n : k \in 1 .. PAGE /\ k <= n
    BY <1>2
  <2> QED
    BY <1>8, <2>1
<1>10. \A k \in 1 .. n : header_of_free_block(entry[k]) = c[k] - 1
  <2>1. \A k \in 1 .. n : k \in 1 .. PAGE /\ k <= n
    BY <1>2
  <2> QED
    BY <1>8, <1>list, <2>1 DEF Chained
<1> HIDE DEF on_list
<1> QED
  BY <1>1, <1>9, <1>10

-----------------------------------------------------------------------------
(* The inductive invariant.                                                *)

\* The blocks in use are what the kernel holds.
Handed(m, B, F, held) ==
    /\ DOMAIN held = {h + 1 : h \in B \ F}
    /\ \A h \in B \ F : held[h + 1] = size(m[h])

\* The last block of the page is free: every split leaves a rest behind the
\* block that is handed out.  So free_memory never looks behind the page.
LastFree(m, B, F) == \A g \in B : After(m, g) = ArenaEnd => g \in F

\* The words say: the page is tiled, some of its tiles are listed as free, the
\* headers agree with the list, and the other tiles are the kernel's.
Sound(m, B, F, held) ==
    Good(m, B, F) /\ Marked(m, B, F) /\ LastFree(m, B, F) /\ Handed(m, B, F, held)

\* What heap_init finds.
Fresh == mem \in Memory /\ FreePage = Start /\ live = << >>

IInv ==
    /\ HeapInited \in BOOLEAN
    /\ ~HeapInited => Fresh
    /\ HeapInited /\ mishaps = {} => \E B, F : Sound(mem, B, F, live)

LEMMA InitIInv == Init => IInv
<1> SUFFICES ASSUME Init PROVE IInv
  OBVIOUS
<1>1. PICK below \in Below, above \in Above :
        mem = [a \in Addr |-> IF a = Start - 1 THEN below ELSE IF a = ArenaEnd THEN above ELSE 0]
  BY DEF Init
<1>2. /\ Start - 1 \in Addr /\ ArenaEnd \in Addr /\ ArenaEnd # Start - 1 /\ 0 \in Addr
      /\ below \in Addr /\ above \in Addr /\ Start \in Int
  BY ConstantFacts, HeapAssumption
<1>3. mem \in Memory
  BY <1>1, <1>2 DEF Memory
<1> QED
  BY <1>2, <1>3 DEF Init, IInv, Fresh

LEMMA HeapInitSound ==
    ASSUME IInv, HeapInit
    PROVE  IInv' /\ Sound(mem', {FirstHeader}, {FirstHeader}, live')
           /\ After(mem', FirstHeader) = ArenaEnd
<1> DEFINE page_end == Start + PAGE
           B == {FirstHeader}
           c == [i \in 0 .. 1 |-> IF i = 0 THEN Start ELSE FirstHeader + 1]
<1>1. FreePage = Start /\ mem \in Memory /\ live = << >>
  BY DEF IInv, HeapInit, Fresh
<1>2. GetFreePages(1).next = page_end
  BY <1>1, ConstantFacts DEF GetFreePages
<1>3. /\ mem' = [mem EXCEPT ![Start + 1] = NULL, ![page_end + 1] = NULL, ![page_end - 2] = FirstHeader,
                            ![FirstHeader] = PAGE - 2, ![Start] = FirstHeader + 1,
                            ![FirstHeader + 1] = NULL]
      /\ FreePage' = page_end /\ HeapInited' = TRUE /\ live' = live
  BY <1>2 DEF HeapInit
<1>4. /\ Start + 1 \in Addr /\ page_end + 1 \in Addr /\ page_end - 2 \in Addr /\ FirstHeader \in Addr
      /\ Start \in Addr /\ FirstHeader + 1 \in Addr /\ PAGE - 2 \in 0 .. (TOP - 1) /\ PAGE - 2 \in Addr
      /\ FirstHeader = Start + 2 /\ Start \in Int /\ PAGE >= 8 /\ PAGE \in Int
      /\ Start - 1 \in Addr /\ ArenaEnd \in Addr /\ ArenaEnd = Start + PAGE + 2 /\ NULL \in Addr
  BY ConstantFacts
<1>5. /\ mem' \in Memory /\ mem'[Start + 1] = NULL /\ mem'[FirstHeader] = PAGE - 2
      /\ mem'[Start] = FirstHeader + 1 /\ mem'[FirstHeader + 1] = NULL
  BY <1>1, <1>3, <1>4 DEF Memory
<1>6. size(mem'[FirstHeader]) = PAGE - 2 /\ ~in_use(mem'[FirstHeader])
  BY <1>4, <1>5, SizeFacts
<1>7. After(mem', FirstHeader) = ArenaEnd
  BY <1>4, <1>6 DEF After
<1>8. Spaced(B)
  BY <1>4 DEF Spaced
<1>9. Shape(mem', B)
  <2>2. /\ FirstHeader \in B /\ FirstHeader \in Int
        /\ \A h \in B : h = FirstHeader
    BY <1>4
  <2> HIDE DEF B
  <2>3. /\ \A h \in B : After(mem', h) = ArenaEnd
        /\ \A g, h \in B : ~(g < h)
    BY <1>7, <2>2
  <2> QED
    BY <1>5, <1>8, <2>2, <2>3 DEF Shape
<1>10. List(mem', B, 1, c)
  <2>1. c \in [0 .. 1 -> Addr] /\ c[0] = Start /\ c[1] = FirstHeader + 1
    BY <1>4
  <2>2. (FirstHeader + 1) - 1 = FirstHeader
    BY <1>4
  <2>3. \A i \in 0 .. (1 - 1) : i = 0
    OBVIOUS
  <2>4. \A i \in 1 .. 1 : i = 1
    OBVIOUS
  <2>5. 1 \in 1 .. 1 /\ 0 + 1 = 1 /\ ~(1 < 1) /\ 1 \in Nat
    OBVIOUS
  <2> HIDE DEF c
  <2>6. \A i \in 1 .. 1 : c[i] - 1 \in B
    BY <2>1, <2>2, <2>4
  <2>7. \A h \in B : \E i \in 1 .. 1 : c[i] = h + 1
    BY <2>1, <2>5
  <2>8. \A i, j \in 1 .. 1 : ~(i < j)
    BY <2>4, <2>5
  <2>9. \A i \in 0 .. (1 - 1) : mem'[c[i]] = c[i + 1]
    BY <1>5, <2>1, <2>3, <2>5
  <2> HIDE DEF B
  <2> QED
    BY <1>5, <2>1, <2>5, <2>6, <2>7, <2>8, <2>9 DEF List
<1>11. Good(mem', B, B)
  <2>1. Listed(mem', B)
    BY <1>10 DEF Listed
  <2> QED
    BY <1>9, <2>1 DEF Good
<1>12. Marked(mem', B, B)
  BY <1>6 DEF Marked
<1>13. Handed(mem', B, B, live') /\ LastFree(mem', B, B)
  BY <1>1, <1>3 DEF Handed, LastFree
<1>14. Sound(mem', B, B, live')
  BY <1>11, <1>12, <1>13 DEF Sound
<1>15. IInv'
  BY <1>3, <1>14 DEF IInv
<1> QED
  BY <1>7, <1>14, <1>15

\* A Kmalloc without accident cuts a free block in two and hands out the first
\* part.
LEMMA KmallocSound ==
    ASSUME NEW s \in Requests, Kmalloc(s), mishaps' = {},
           NEW B, NEW F, Sound(mem, B, F, live)
    PROVE  \E h, second :
             /\ Allocated(mem, mem', B, F, s, h, second)
             /\ Sound(mem', B \cup {second}, (F \cup {second}) \ {h}, live')
             /\ DOMAIN live' = DOMAIN live \cup {h + 1} /\ h + 1 \notin DOMAIN live
             /\ \A a \in DOMAIN live : live'[a] = live[a]
<1> DEFINE done == alloc_memory(s)
           h == done.header
<1>1. /\ mem' = done.mem /\ alloc_mishaps(s) = {}
      /\ live' = [a \in DOMAIN live \cup {At(h + 1)} |-> IF a = At(h + 1) THEN s ELSE live[a]]
  BY DEF Kmalloc
<1>3. PICK second : Allocated(mem, mem', B, F, s, h, second)
  <2>1. Good(mem, B, F) /\ Marked(mem, B, F)
    BY DEF Sound
  <2>2. \E second : Allocated(mem, done.mem, B, F, s, done.header, second)
    BY <1>1, <2>1, AllocGood
  <2> QED
    BY <1>1, <2>2
<1> HIDE DEF h, done
<1> DEFINE C == B \cup {second}
           G == (F \cup {second}) \ {h}
<1>4. /\ Good(mem', C, G) /\ Marked(mem', C, G) /\ size(mem'[h]) = s /\ h \in F /\ second \notin B
      /\ \A g \in B : g # h => mem'[g] = mem[g]
      /\ After(mem', h) = second
  BY <1>3 DEF Allocated
<1>5. Spaced(B) /\ F \subseteq B /\ h \in B /\ \A g \in B : g \in Int
  <2>1. Spaced(B) /\ F \subseteq B
    BY DEF Sound, Good, Shape
  <2> QED
    BY <1>4, <2>1, SpacedFacts
<1>6. At(h + 1) = h + 1
  BY <1>5, SpacedFacts DEF entry_of
<1>7. C \ G = (B \ F) \cup {h}
  BY <1>4, <1>5
<1>8. DOMAIN live = {g + 1 : g \in B \ F} /\ \A g \in B \ F : live[g + 1] = size(mem[g])
  BY DEF Sound, Handed
<1>9. DOMAIN live' = DOMAIN live \cup {h + 1}
  BY <1>1, <1>6
<1>10. h + 1 \notin DOMAIN live
  <2> SUFFICES ASSUME NEW g \in B \ F, g + 1 = h + 1 PROVE FALSE
    BY <1>8
  <2>1. g \in Int /\ h \in Int
    BY <1>5
  <2>2. g = h
    BY <2>1
  <2> QED
    BY <1>4, <2>2
<1>11. live'[h + 1] = s /\ \A a \in DOMAIN live : live'[a] = live[a]
  BY <1>1, <1>6, <1>10
<1> HIDE DEF C, G
<1>12. DOMAIN live' = {g + 1 : g \in C \ G}
  BY <1>7, <1>8, <1>9
<1>13. ASSUME NEW g \in C \ G PROVE live'[g + 1] = size(mem'[g])
  <2>1. CASE g = h
    BY <1>4, <1>11, <2>1
  <2>2. CASE g # h
    <3>1. g \in B \ F
      BY <1>7, <2>2
    <3>2. g + 1 \in DOMAIN live /\ live[g + 1] = size(mem[g])
      BY <1>8, <3>1
    <3>3. mem'[g] = mem[g]
      BY <1>4, <2>2, <3>1
    <3> QED
      BY <1>11, <3>2, <3>3
  <2> QED
    BY <2>1, <2>2
<1>last. ASSUME NEW g \in C, After(mem', g) = ArenaEnd PROVE g \in G
  <2>1. second \in C /\ second # ArenaEnd /\ second # h
    <3>1. second \in C /\ Spaced(C)
      BY <1>4 DEF C, Good, Shape
    <3>2. second \in Int /\ second + 3 <= ArenaEnd
      BY <3>1, SpacedFacts
    <3> QED
      BY <1>4, <1>5, <3>1, <3>2, ConstantFacts
  <2>2. CASE g = second
    BY <2>1, <2>2 DEF G
  <2>3. CASE g = h
    BY <1>4, <1>last, <2>1, <2>3
  <2>4. CASE g \in B /\ g # h
    <3>1. After(mem, g) = ArenaEnd
      BY <1>4, <1>last, <2>4 DEF After
    <3>2. g \in F
      BY <2>4, <3>1 DEF Sound, LastFree
    <3> QED
      BY <2>4, <3>2 DEF G
  <2> QED
    BY <1>last, <2>2, <2>3, <2>4 DEF C
<1>14. Sound(mem', C, G, live')
  BY <1>4, <1>12, <1>13, <1>last DEF Sound, Handed, LastFree
<1> QED
  BY <1>3, <1>9, <1>10, <1>11, <1>14 DEF C, G

\* The block c is no longer in use, and the others are.
Returned(B, F, R, G, c) == R \ G = (B \ F) \ {c}

\* KFree of what the kernel holds makes one free block of it and of its free
\* neighbours.
LEMMA KFreeSound ==
    ASSUME NEW address \in DOMAIN live, KFree(address), NEW B, NEW F, Sound(mem, B, F, live)
    PROVE  \E h, stop :
             /\ address - 1 \in B /\ address - 1 \notin F
             /\ Freed(mem, mem', B, F, address - 1, h, stop)
             /\ Sound(mem', Remaining(B, h, stop), (F \cap Remaining(B, h, stop)) \cup {h}, live')
             /\ Returned(B, F, Remaining(B, h, stop), (F \cap Remaining(B, h, stop)) \cup {h}, address - 1)
             /\ DOMAIN live' = DOMAIN live \ {address}
             /\ \A a \in DOMAIN live' : live'[a] = live[a]
<1> DEFINE c == address - 1
<1>1. mem' = free_memory(mem, address) /\ live' = [a \in DOMAIN live \ {address} |-> live[a]]
  BY DEF KFree
<1>2. /\ Good(mem, B, F) /\ Marked(mem, B, F) /\ Spaced(B) /\ F \subseteq B
      /\ DOMAIN live = {g + 1 : g \in B \ F} /\ \A g \in B \ F : live[g + 1] = size(mem[g])
  BY DEF Sound, Good, Shape, Handed
<1>3. \A g \in B : g \in Int
  BY <1>2, SpacedFacts
<1>4. c \in B /\ c \notin F /\ address = c + 1
  <2>1. PICK g \in B \ F : address = g + 1
    BY <1>2
  <2>2. g \in Int /\ c = g
    BY <1>3, <2>1
  <2> QED
    BY <2>1, <2>2
<1> HIDE DEF c
<1>last. /\ \A g \in B : After(mem, g) = ArenaEnd => g \in F
         /\ After(mem, c) # ArenaEnd
  BY <1>4 DEF Sound, LastFree
<1>5. PICK h, stop : Freed(mem, mem', B, F, c, h, stop)
  BY <1>1, <1>2, <1>4, <1>last, FreeGood
<1> DEFINE R == Remaining(B, h, stop)
           G == (F \cap R) \cup {h}
<1>6. /\ Good(mem', R, G) /\ Marked(mem', R, G) /\ h \in R
      /\ \A g \in R : g # h => mem'[g] = mem[g]
      /\ \A g \in B \ F : g # c => g \in R /\ g # h
      /\ h = c \/ h \in F
  BY <1>5 DEF Freed
<1>7. R \subseteq B
  BY DEF Remaining
<1> HIDE DEF R
<1>8. R \ G = (B \ F) \ {c}
  <2>0. c \in R => c = h
    <3>1. c \in Int /\ After(mem, c) \in Int /\ c < After(mem, c)
      <4>1. c \in Int /\ After(mem, c) \in Int /\ c + 3 <= After(mem, c)
        BY <1>2, <1>4, ShapeFacts DEF Good
      <4> QED
        BY <4>1
    <3>2. After(mem, c) \in F => After(mem, After(mem, c)) \in Int /\ After(mem, c) < After(mem, After(mem, c))
      <4> DEFINE a == After(mem, c)
      <4> SUFFICES ASSUME a \in F PROVE After(mem, a) \in Int /\ a < After(mem, a)
        OBVIOUS
      <4> HIDE DEF a
      <4>1. a \in Int /\ After(mem, a) \in Int /\ a + 3 <= After(mem, a)
        BY <1>2, ShapeFacts DEF Good
      <4> QED
        BY <4>1
    <3>3. stop \in Int /\ c < stop
      BY <1>5, <3>1, <3>2 DEF Freed
    <3>4. h # c => h \in Int /\ h < c
      <4> SUFFICES ASSUME h # c PROVE h \in Int /\ h < c
        OBVIOUS
      <4>1. h \in B /\ After(mem, h) = c
        BY <1>2, <1>5 DEF Freed
      <4>2. h \in Int /\ h + 3 <= After(mem, h)
        BY <1>2, <4>1, ShapeFacts DEF Good
      <4> QED
        BY <3>1, <4>1, <4>2
    <3>5. c \in R => c <= h \/ c >= stop
      BY DEF R, Remaining
    <3> QED
      BY <3>1, <3>3, <3>4, <3>5
  <2>1. \A g \in R \ G : g \in B \ F /\ g # c
    BY <1>4, <1>6, <1>7, <2>0
  <2>2. \A g \in (B \ F) \ {c} : g \in R \ G
    BY <1>6
  <2> QED
    BY <2>1, <2>2
<1> HIDE DEF G
<1>9. DOMAIN live' = DOMAIN live \ {address} /\ \A a \in DOMAIN live' : live'[a] = live[a]
  BY <1>1
<1>10. DOMAIN live' = {g + 1 : g \in R \ G}
  <2>1. \A g \in B \ F : g + 1 = address <=> g = c
    <3>1. \A g \in B \ F : g \in Int
      BY <1>3
    <3>2. c \in Int
      BY <1>3, <1>4
    <3> QED
      BY <1>4, <3>1, <3>2
  <2>2. \A a \in DOMAIN live' : \E g \in R \ G : a = g + 1
    BY <1>2, <1>8, <1>9, <2>1
  <2>3. \A g \in R \ G : g + 1 \in DOMAIN live'
    BY <1>2, <1>8, <1>9, <2>1
  <2> QED
    BY <2>2, <2>3
<1>11. ASSUME NEW g \in R \ G PROVE live'[g + 1] = size(mem'[g])
  <2>1. g \in B \ F /\ g # c /\ g \in R
    BY <1>8
  <2>2. g # h
    BY <1>6, <2>1
  <2>3. g + 1 \in DOMAIN live'
    BY <1>10
  <2>4. live'[g + 1] = live[g + 1]
    BY <1>9, <2>3
  <2> QED
    BY <1>2, <1>6, <2>1, <2>2, <2>4
<1>14. ASSUME NEW g \in R, After(mem', g) = ArenaEnd PROVE g \in G
  <2>1. CASE g = h
    BY <2>1 DEF G
  <2>2. CASE g # h
    <3>1. g \in B /\ After(mem, g) = ArenaEnd
      BY <1>6, <1>7, <1>14, <2>2 DEF After
    <3> QED
      BY <1>14, <1>last, <3>1 DEF G
  <2> QED
    BY <2>1, <2>2
<1>12. Sound(mem', R, G, live')
  BY <1>6, <1>10, <1>11, <1>14 DEF Sound, Handed, LastFree
<1>13. Returned(B, F, R, G, c)
  BY <1>8 DEF Returned
<1> QED
  BY <1>4, <1>5, <1>9, <1>12, <1>13 DEF R, G, c

LEMMA Inductive == IInv /\ [Next]_vars => IInv'
<1> SUFFICES ASSUME IInv, [Next]_vars PROVE IInv'
  OBVIOUS
<1>1. CASE HeapInit
  BY <1>1, HeapInitSound
<1>2. ASSUME NEW s \in Requests, Kmalloc(s) PROVE IInv'
  <2>1. HeapInited /\ HeapInited' = HeapInited /\ (mishaps' = {} => mishaps = {})
    BY <1>2 DEF Kmalloc
  <2>2. ASSUME mishaps' = {} PROVE \E C, G : Sound(mem', C, G, live')
    <3>1. PICK B, F : Sound(mem, B, F, live)
      BY <2>1, <2>2 DEF IInv
    <3> QED
      BY <1>2, <2>2, <3>1, KmallocSound
  <2> QED
    BY <2>1, <2>2 DEF IInv
<1>3. ASSUME NEW address \in DOMAIN live, KFree(address) PROVE IInv'
  <2>1. HeapInited' = HeapInited /\ mishaps' = mishaps
    BY <1>3 DEF KFree
  <2>2. HeapInited
    <3> SUFFICES ASSUME ~HeapInited PROVE FALSE
      BY DEF IInv
    <3>1. live = << >>
      BY DEF IInv, Fresh
    <3> QED
      BY <1>3, <3>1
  <2>3. ASSUME mishaps = {} PROVE \E C, G : Sound(mem', C, G, live')
    <3>1. PICK B, F : Sound(mem, B, F, live)
      BY <2>2, <2>3 DEF IInv
    <3> QED
      BY <1>3, <3>1, KFreeSound
  <2> QED
    BY <2>1, <2>2, <2>3 DEF IInv
<1>4. CASE UNCHANGED vars
  BY <1>4 DEF vars, IInv, Fresh
<1> QED
  BY <1>1, <1>2, <1>3, <1>4 DEF Next

\* As long as none of the accidents has happened, the words of the heap tile its
\* page, the free list holds the free blocks in the order of their sizes, and
\* what is not free is what the kernel holds, whatever alloc_memory and
\* free_memory did before and whatever the words around the page hold.
THEOREM HeapSound == Spec => []IInv
<1> QED
  BY InitIInv, Inductive, PTL DEF Spec

-----------------------------------------------------------------------------
(* The invariants that the runs check.                                     *)

LEMMA NothingYet == ~HeapInited => Blocks = {} /\ FreeList = << >>
  BY DEF Blocks, FreeList

LEMMA SoundBlocks ==
    ASSUME NEW B, NEW F, Sound(mem, B, F, live), HeapInited
    PROVE  /\ Blocks = B /\ F \subseteq B /\ Shape(mem, B) /\ Listed(mem, F)
           /\ {h \in Blocks : in_use(mem[h])} = B \ F /\ FreeBlocks = F
<1>1. Shape(mem, B) /\ F \subseteq B /\ Listed(mem, F) /\ Blocks = B
  BY BlocksIs DEF Sound, Good
<1>2. \A g \in B : in_use(mem[g]) <=> g \notin F
  BY DEF Sound, Marked
<1> QED
  BY <1>1, <1>2 DEF FreeBlocks

LEMMA FooterHolds == IInv => FooterIsPointerToHeader
<1> SUFFICES ASSUME IInv, mishaps = {} PROVE FooterIsPointerToHeader
  BY DEF FooterIsPointerToHeader
<1>1. CASE ~HeapInited
  BY <1>1, NothingYet DEF FooterIsPointerToHeader
<1>2. CASE HeapInited
  <2>1. PICK B, F : Sound(mem, B, F, live)
    BY <1>2 DEF IInv
  <2>2. Blocks = B /\ Shape(mem, B)
    BY <1>2, <2>1, SoundBlocks
  <2> SUFFICES ASSUME NEW h \in B, next_block(mem, h) < ArenaEnd
               PROVE  mem[footer_of(mem, h)] = h
    BY <2>2 DEF FooterIsPointerToHeader
  <2>3. After(mem, h) < ArenaEnd /\ footer_of(mem, h) = After(mem, h) - 1 /\ After(mem, h) \in Int
    BY <2>2, ShapeFacts
  <2>4. After(mem, h) # ArenaEnd
    BY <2>3, ConstantFacts
  <2> QED
    BY <2>2, <2>3, <2>4 DEF Shape
<1> QED
  BY <1>1, <1>2 DEF IInv

LEMMA InUseHolds == IInv => InUseIsLive
<1> SUFFICES ASSUME IInv, mishaps = {} PROVE InUseIsLive
  BY DEF InUseIsLive
<1>1. CASE ~HeapInited
  <2>1. live = << >>
    BY <1>1 DEF IInv, Fresh
  <2>2. DOMAIN live = {}
    BY <2>1
  <2> QED
    BY <1>1, <2>2, NothingYet DEF InUseIsLive
<1>2. CASE HeapInited
  <2>1. PICK B, F : Sound(mem, B, F, live)
    BY <1>2 DEF IInv
  <2>2. {h \in Blocks : in_use(mem[h])} = B \ F /\ Shape(mem, B) /\ F \subseteq B
    BY <1>2, <2>1, SoundBlocks
  <2>3. /\ DOMAIN live = {h + 1 : h \in B \ F}
        /\ \A h \in B \ F : live[h + 1] = size(mem[h])
    BY <2>1 DEF Sound, Handed
  <2>4. \A h \in B : (h + 1) - 1 = h
    <3>1. \A h \in B : h \in Int
      BY <2>2, ShapeFacts
    <3> QED
      BY <3>1
  <2>5. {a - 1 : a \in DOMAIN live} = B \ F
    BY <2>3, <2>4
  <2>6. ASSUME NEW a \in DOMAIN live PROVE size(mem[a - 1]) = live[a]
    <3>1. PICK h \in B \ F : a = h + 1
      BY <2>3
    <3>2. a - 1 = h
      BY <2>4, <3>1
    <3> QED
      BY <2>3, <3>1, <3>2
  <2> QED
    BY <2>2, <2>5, <2>6 DEF InUseIsLive
<1> QED
  BY <1>1, <1>2 DEF IInv

LEMMA FreeListHolds == IInv => FreeListIsFreeBlocks
<1> SUFFICES ASSUME IInv, mishaps = {} PROVE FreeListIsFreeBlocks
  BY DEF FreeListIsFreeBlocks
<1>1. CASE ~HeapInited
  <2>1. FreeList = << >> /\ FreeBlocks = {}
    BY <1>1, NothingYet DEF FreeBlocks
  <2>2. DOMAIN FreeList = {}
    BY <2>1
  <2> QED
    BY <2>1, <2>2 DEF FreeListIsFreeBlocks
<1>2. CASE HeapInited
  <2>1. PICK B, F : Sound(mem, B, F, live)
    BY <1>2 DEF IInv
  <2>2. FreeBlocks = F /\ Shape(mem, B) /\ Listed(mem, F) /\ F \subseteq B
    BY <1>2, <2>1, SoundBlocks
  <2>3. Spaced(F) /\ mem \in Memory
    BY <2>2 DEF Shape, Spaced
  <2>4. PICK n, c : List(mem, F, n, c)
    BY <2>2 DEF Listed
  <2>5. FreeList = [i \in 1 .. n |-> c[i] - 1]
    BY <1>2, <2>3, <2>4, FreeListIs
  <2>6. Chained(F, n, c)
    BY <2>3, <2>4, ListFacts
  <2>7. DOMAIN FreeList = 1 .. n /\ \A i \in 1 .. n : FreeList[i] = c[i] - 1
    BY <2>5
  <2>8. \A i \in 1 .. n : c[i] - 1 \in F /\ c[i] = (c[i] - 1) + 1
    BY <2>6 DEF Chained
  <2>9. \A h \in F : \E i \in 1 .. n : c[i] - 1 = h
    <3> SUFFICES ASSUME NEW h \in F PROVE \E i \in 1 .. n : c[i] - 1 = h
      OBVIOUS
    <3>1. PICK i \in 1 .. n : c[i] = h + 1
      BY <2>4 DEF List
    <3>2. h \in Int
      BY <2>3, SpacedFacts
    <3> QED
      BY <3>1, <3>2
  <2>10. {FreeList[i] : i \in DOMAIN FreeList} = F
    BY <2>7, <2>8, <2>9
  <2>11. ASSUME NEW i \in 1 .. n, NEW j \in 1 .. n, i < j
         PROVE  c[i] - 1 # c[j] - 1 /\ size(mem[c[i] - 1]) <= size(mem[c[j] - 1])
    <3>1. c[i] # c[j] /\ size(mem[c[i] - 1]) <= size(mem[c[j] - 1])
      BY <2>4, <2>11 DEF List
    <3> QED
      BY <2>8, <3>1
  <2> QED
    BY <2>2, <2>7, <2>10, <2>11 DEF FreeListIsFreeBlocks
<1> QED
  BY <1>1, <1>2 DEF IInv

\* free_memory finds the block below the one it frees through the footer that
\* spilt_block and merge_block keep: it is right until the first accident.
THEOREM FooterIsRight == Spec => []FooterIsPointerToHeader
<1> QED
  BY FooterHolds, HeapSound, PTL

\* Until the first accident the headers marked in use are the allocations that
\* the kernel has not freed, with the sizes it asked Kmalloc for: no leak, no
\* block twice.
THEOREM InUseIsRight == Spec => []InUseIsLive
<1> QED
  BY InUseHolds, HeapSound, PTL

\* Until the first accident the free list holds each free block once, smallest
\* first, after any sequence of free_list_insert and free_list_delete that the
\* calls make.
THEOREM FreeListIsRight == Spec => []FreeListIsFreeBlocks
<1> QED
  BY FreeListHolds, HeapSound, PTL

-----------------------------------------------------------------------------
(* What the kernel holds stays as the kernel left it.                      *)

LEMMA PayloadInBlock ==
    ASSUME NEW B, NEW F, Sound(mem, B, F, live), NEW a \in DOMAIN live
    PROVE  /\ a - 1 \in B \ F
           /\ \A w \in Payload(a) : w \in (a - 1) .. ((a - 1) + size(mem[a - 1]))
<1>1. /\ Shape(mem, B)
      /\ DOMAIN live = {h + 1 : h \in B \ F}
      /\ \A h \in B \ F : live[h + 1] = size(mem[h])
  BY DEF Sound, Handed, Good
<1>2. PICK h \in B \ F : a = h + 1
  BY <1>1
<1>3. h \in Int /\ size(mem[h]) \in 1 .. (TOP - 1)
  BY <1>1, ShapeFacts
<1>4. a - 1 = h /\ live[a] = size(mem[h])
  BY <1>1, <1>2, <1>3
<1>5. TOP \in Int
  BY ConstantFacts
<1> DEFINE n == size(mem[h])
<1> HIDE DEF n
<1>6. n \in Int /\ n >= 1
  BY <1>3, <1>5 DEF n
<1>7. \A w \in (h + 1) .. (h + 1 + n - 1) : w \in h .. (h + n)
  BY <1>3, <1>6
<1> QED
  BY <1>2, <1>4, <1>7 DEF Payload, n

LEMMA PayloadStep ==
    ASSUME IInv, mishaps' = {}, [Next]_vars,
           NEW a \in DOMAIN live \cap DOMAIN live', NEW w \in Payload(a)
    PROVE  mem'[w] = mem[w]
<1>1. HeapInited
  <2> SUFFICES ASSUME ~HeapInited PROVE FALSE
    BY DEF IInv
  <2>1. live = << >>
    BY DEF IInv, Fresh
  <2>2. DOMAIN live = {}
    BY <2>1
  <2> QED
    BY <2>2
<1>0. mishaps = {}
  BY DEF Next, vars, HeapInit, Kmalloc, KFree
<1>2. PICK B, F : Sound(mem, B, F, live)
  BY <1>0, <1>1 DEF IInv
<1> DEFINE h == a - 1
<1>3. h \in B \ F /\ w \in h .. (h + size(mem[h]))
  BY <1>2, PayloadInBlock
<1>4. \/ UNCHANGED vars
      \/ \E s \in Requests : Kmalloc(s)
      \/ \E address \in DOMAIN live : KFree(address)
  BY <1>1 DEF Next, HeapInit
<1>5. CASE UNCHANGED vars
  BY <1>5 DEF vars
<1>6. ASSUME NEW s \in Requests, Kmalloc(s) PROVE mem'[w] = mem[w]
  <2>1. PICK g, second : Allocated(mem, mem', B, F, s, g, second)
    BY <1>2, <1>6, KmallocSound
  <2>2. Untouched(mem, mem', h)
    BY <1>3, <2>1 DEF Allocated
  <2> HIDE DEF h
  <2> QED
    BY <1>3, <2>2 DEF Untouched
<1>7. ASSUME NEW address \in DOMAIN live, KFree(address) PROVE mem'[w] = mem[w]
  <2>1. PICK g, stop : /\ Freed(mem, mem', B, F, address - 1, g, stop)
                       /\ DOMAIN live' = DOMAIN live \ {address}
    BY <1>2, <1>7, KFreeSound
  <2>2. h # address - 1
    <3>1. a # address
      BY <2>1
    <3>2. h \in Int /\ a = h + 1 /\ address = (address - 1) + 1
      <4>1. \A x \in DOMAIN live : \E y \in B \ F : x = y + 1
        BY <1>2 DEF Sound, Handed
      <4>2. \A y \in B : y \in Int
        BY <1>2, ShapeFacts DEF Sound, Good
      <4>3. \A x \in DOMAIN live : x \in Int
        BY <4>1, <4>2
      <4> QED
        BY <4>3
    <3> HIDE DEF h
    <3> QED
      BY <3>1, <3>2
  <2>3. Untouched(mem, mem', h)
    BY <1>3, <2>1, <2>2 DEF Freed
  <2> HIDE DEF h
  <2> QED
    BY <1>3, <2>3 DEF Untouched
<1> QED
  BY <1>4, <1>5, <1>6, <1>7

\* A call writes headers, footers and list entries, and never a word of an
\* allocation that the kernel holds before and after it, until the first
\* accident.
THEOREM PayloadIsKept == Spec => PayloadUntouched
<1>1. IInv /\ [Next]_vars
        => [mishaps' = {} =>
              \A a \in DOMAIN live \cap DOMAIN live' : \A w \in Payload(a) : mem'[w] = mem[w]]_vars
  BY PayloadStep
<1> QED
  BY <1>1, HeapSound, PTL DEF Spec, PayloadUntouched

\* Until the first accident no allocation takes words of another that the kernel
\* still holds: heap.c's promise of a new block, which it breaks once
\* extend_heap has run.
THEOREM AllocationsStayApart == Spec => [](mishaps = {} => AllocationsApart)
<1>1. IInv => (mishaps = {} => AllocationsApart)
  <2> SUFFICES ASSUME IInv, mishaps = {}, NEW a \in DOMAIN live, NEW b \in DOMAIN live, a # b
               PROVE  Payload(a) \cap Payload(b) = {}
    BY DEF AllocationsApart
  <2>1. HeapInited
    <3> SUFFICES ASSUME ~HeapInited PROVE FALSE
      BY DEF IInv
    <3>1. live = << >>
      BY DEF IInv, Fresh
    <3>2. DOMAIN live = {}
      BY <3>1
    <3> QED
      BY <3>2
  <2>2. PICK B, F : Sound(mem, B, F, live)
    BY <2>1 DEF IInv
  <2>3. Shape(mem, B)
    BY <2>2 DEF Sound, Good
  <2>4. ASSUME NEW x \in DOMAIN live, NEW y \in DOMAIN live, x - 1 < y - 1,
               NEW w \in Payload(x), w \in Payload(y)
        PROVE  FALSE
    <3> DEFINE g == x - 1
               h == y - 1
    <3>1. /\ g \in B /\ h \in B
          /\ w \in g .. (g + size(mem[g])) /\ w \in h .. (h + size(mem[h]))
      BY <2>2, <2>4, PayloadInBlock
    <3>2. g < h
      BY <2>4
    <3> HIDE DEF g, h
    <3>3. After(mem, g) <= h
      BY <2>3, <3>1, <3>2 DEF Shape
    <3>4. /\ g \in Int /\ h \in Int /\ size(mem[g]) = After(mem, g) - g - 2 /\ After(mem, g) \in Int
      BY <2>3, <3>1, ShapeFacts
    <3> QED
      BY <3>1, <3>3, <3>4
  <2>5. a - 1 \in Int /\ b - 1 \in Int /\ a - 1 # b - 1
    <3>1. \A x \in DOMAIN live : x \in Int
      <4>1. \A x \in DOMAIN live : \E y \in B \ F : x = y + 1
        BY <2>2 DEF Sound, Handed
      <4>2. \A y \in B : y \in Int
        BY <2>3, ShapeFacts
      <4> QED
        BY <4>1, <4>2
    <3> QED
      BY <3>1
  <2>6. a - 1 < b - 1 \/ b - 1 < a - 1
    BY <2>5
  <2> QED
    BY <2>4, <2>6
<1> QED
  BY <1>1, HeapSound, PTL

-----------------------------------------------------------------------------
(* The words implement the blocks of BlockHeap.                            *)

Pos(g) == FirstHeader + g
OffsetOf(h) == h - FirstHeader

LEMMA OffsetFacts ==
    /\ PAGE \in Nat \ {0} /\ Pos(PAGE) = ArenaEnd /\ Pos(0) = FirstHeader
    /\ \A g \in Int : Pos(g) \in Int /\ OffsetOf(Pos(g)) = g
    /\ \A a \in Int : OffsetOf(a) \in Int /\ Pos(OffsetOf(a)) = a
    /\ \A g, k \in Int : g < k <=> Pos(g) < Pos(k)
<1>1. FirstHeader \in Int /\ PAGE \in Nat /\ PAGE >= 8 /\ ArenaEnd = FirstHeader + PAGE
  BY ConstantFacts
<1> QED
  BY <1>1 DEF Pos, OffsetOf

\* The lengths and the marks that the mapping reads off headers that tile.
LenOf(m, B) ==
    [g \in 0 .. (PAGE - 1) |-> IF Pos(g) \in B THEN OffsetOf(After(m, Pos(g))) - g ELSE 0]
UsedOf(B, F) == {OffsetOf(h) : h \in B \ F}

LEMMA TileFacts ==
    ASSUME NEW m, NEW B, Shape(m, B), NEW h \in B
    PROVE  /\ OffsetOf(h) \in 0 .. (PAGE - 1) /\ OffsetOf(h) \in Int /\ Pos(OffsetOf(h)) = h
           /\ LenOf(m, B)[OffsetOf(h)] \in Nat \ {0}
           /\ OffsetOf(h) + LenOf(m, B)[OffsetOf(h)] = OffsetOf(After(m, h))
           /\ LenOf(m, B)[OffsetOf(h)] = size(m[h]) + 2
           /\ OffsetOf(After(m, h)) \in Int /\ Pos(OffsetOf(After(m, h))) = After(m, h)
           /\ OffsetOf(After(m, h)) <= PAGE
<1> DEFINE g == OffsetOf(h)
           a == After(m, h)
           k == OffsetOf(a)
<1>1. /\ h \in Int /\ FirstHeader <= h /\ h < a /\ a \in Int
      /\ a <= ArenaEnd /\ size(m[h]) = a - h - 2 /\ ArenaEnd \in Int
  <2>1. /\ h \in Int /\ Start + 2 <= h /\ h + 3 <= a /\ a \in Int
        /\ a <= ArenaEnd /\ size(m[h]) = a - h - 2
    BY ShapeFacts
  <2> HIDE DEF a
  <2> QED
    BY <2>1, ConstantFacts
<1> HIDE DEF a
<1>2. g \in Int /\ Pos(g) = h /\ k \in Int /\ Pos(k) = a
  BY <1>1, OffsetFacts
<1> HIDE DEF g, k
<1>3. g < k
  BY <1>1, <1>2, OffsetFacts
<1>4. ~(g < 0) /\ ~(PAGE < k)
  <2>1. PAGE \in Int /\ 0 \in Int /\ Pos(0) = FirstHeader /\ Pos(PAGE) = ArenaEnd
        /\ FirstHeader \in Int
    BY OffsetFacts, ConstantFacts
  <2>2. g < 0 => Pos(g) < Pos(0)
    BY <1>2, <2>1, OffsetFacts
  <2>3. PAGE < k => Pos(PAGE) < Pos(k)
    BY <1>2, <2>1, OffsetFacts
  <2> QED
    BY <1>1, <1>2, <2>1, <2>2, <2>3
<1>5. g \in 0 .. (PAGE - 1) /\ k <= PAGE
  BY <1>2, <1>3, <1>4, OffsetFacts
<1>6. LenOf(m, B)[g] = k - g
  <2>1. LenOf(m, B)[g] = IF Pos(g) \in B THEN OffsetOf(After(m, Pos(g))) - g ELSE 0
    BY <1>5 DEF LenOf
  <2> QED
    BY <1>2, <2>1 DEF k, a
<1>7. k - g = size(m[h]) + 2
  <2>1. FirstHeader + g = h /\ FirstHeader + k = a /\ FirstHeader \in Int
    BY <1>2, ConstantFacts DEF Pos
  <2> QED
    BY <1>1, <1>2, <2>1
<1>8. k - g \in Nat \ {0} /\ g + (k - g) = k
  BY <1>2, <1>3
<1> QED
  BY <1>2, <1>5, <1>6, <1>7, <1>8 DEF g, k, a

\* Where free blocks start.
LEMMA FreeOffsets ==
    ASSUME NEW m, NEW B, NEW F, Shape(m, B), F \subseteq B
    PROVE  /\ {g \in 0 .. (PAGE - 1) : LenOf(m, B)[g] > 0} \ UsedOf(B, F) = {OffsetOf(h) : h \in F}
           /\ \A h \in B \cup {ArenaEnd} : OffsetOf(h) \in {OffsetOf(f) : f \in F} => h \in F
<1>1. /\ \A h \in B : /\ OffsetOf(h) \in 0 .. (PAGE - 1) /\ Pos(OffsetOf(h)) = h
                      /\ LenOf(m, B)[OffsetOf(h)] \in Nat \ {0}
      /\ Pos(OffsetOf(ArenaEnd)) = ArenaEnd
  <2>1. ASSUME NEW h \in B
        PROVE  /\ OffsetOf(h) \in 0 .. (PAGE - 1) /\ Pos(OffsetOf(h)) = h
               /\ LenOf(m, B)[OffsetOf(h)] \in Nat \ {0}
    BY TileFacts
  <2>2. ArenaEnd \in Int
    BY ConstantFacts
  <2>3. Pos(OffsetOf(ArenaEnd)) = ArenaEnd
    BY <2>2, OffsetFacts
  <2> QED
    BY <2>1, <2>3
<1>2. \A h \in B : \A f \in B : OffsetOf(h) = OffsetOf(f) => h = f
  BY <1>1
<1>3. \A g \in 0 .. (PAGE - 1) : LenOf(m, B)[g] > 0 => Pos(g) \in B /\ OffsetOf(Pos(g)) = g
  <2> SUFFICES ASSUME NEW g \in 0 .. (PAGE - 1), LenOf(m, B)[g] > 0
               PROVE  Pos(g) \in B /\ OffsetOf(Pos(g)) = g
    OBVIOUS
  <2>1. LenOf(m, B)[g] = IF Pos(g) \in B THEN OffsetOf(After(m, Pos(g))) - g ELSE 0
    BY DEF LenOf
  <2>2. g \in Int
    BY OffsetFacts
  <2>3. Pos(g) \in B
    BY <2>1
  <2> QED
    BY <2>2, <2>3, OffsetFacts
<1> DEFINE Heads == {g \in 0 .. (PAGE - 1) : LenOf(m, B)[g] > 0}
<1>4. Heads = {OffsetOf(h) : h \in B}
  <2>1. ASSUME NEW h \in B PROVE OffsetOf(h) \in Heads
    <3>1. LenOf(m, B)[OffsetOf(h)] > 0
      BY <1>1
    <3> QED
      BY <1>1, <3>1
  <2>2. ASSUME NEW g \in Heads PROVE \E h \in B : g = OffsetOf(h)
    BY <1>3
  <2> HIDE DEF Heads
  <2> QED
    BY <2>1, <2>2
<1> HIDE DEF Heads
<1>5. Heads \ UsedOf(B, F) = {OffsetOf(h) : h \in F}
  <2>1. ASSUME NEW h \in F PROVE OffsetOf(h) \in Heads \ UsedOf(B, F)
    BY <1>2, <1>4 DEF UsedOf
  <2>2. ASSUME NEW g \in Heads \ UsedOf(B, F) PROVE \E h \in F : g = OffsetOf(h)
    BY <1>4 DEF UsedOf
  <2> QED
    BY <2>1, <2>2
<1>6. ASSUME NEW h \in B \cup {ArenaEnd}, NEW f \in F, OffsetOf(h) = OffsetOf(f) PROVE h \in F
  BY <1>1, <1>6
<1> QED
  BY <1>5, <1>6 DEF Heads

\* What the mapping makes of the words, before heap_init and after it.
Unmapped ==
    ~HeapInited => /\ lenOfWords = [g \in 0 .. (PAGE - 1) |-> IF g = 0 THEN PAGE ELSE 0]
                   /\ usedByWords = {}

LEMMA NothingMapped == Unmapped
<1> SUFFICES ASSUME ~HeapInited
             PROVE  /\ lenOfWords = [g \in 0 .. (PAGE - 1) |-> IF g = 0 THEN PAGE ELSE 0]
                    /\ usedByWords = {}
  BY DEF Unmapped
<1>1. Blocks = {}
  BY NothingYet
<1> QED
  BY <1>1 DEF lenOfWords, usedByWords

Mapped ==
    \A B, F : HeapInited /\ Sound(mem, B, F, live)
                => lenOfWords = LenOf(mem, B) /\ usedByWords = UsedOf(B, F)

LEMMA WordsMapped == Mapped
<1> SUFFICES ASSUME NEW B, NEW F, HeapInited, Sound(mem, B, F, live)
             PROVE  lenOfWords = LenOf(mem, B) /\ usedByWords = UsedOf(B, F)
  BY DEF Mapped
<1>1. Blocks = B /\ {h \in Blocks : in_use(mem[h])} = B \ F /\ Shape(mem, B)
  BY SoundBlocks
<1>2. usedByWords = UsedOf(B, F)
  BY <1>1 DEF usedByWords, UsedOf, OffsetOf
<1> DEFINE D == 0 .. (PAGE - 1)
<1>3. lenOfWords = [g \in D |-> IF Pos(g) \in B THEN size(mem[Pos(g)]) + 2 ELSE 0]
  BY <1>1 DEF lenOfWords, Pos
<1>4. ASSUME NEW g \in D, Pos(g) \in B PROVE size(mem[Pos(g)]) + 2 = OffsetOf(After(mem, Pos(g))) - g
  <2>1. g \in Int
    BY OffsetFacts
  <2>2. OffsetOf(Pos(g)) = g
    BY <2>1, OffsetFacts
  <2> DEFINE h == Pos(g)
             n == LenOf(mem, B)[g]
  <2> HIDE DEF h, n
  <2>3. n = size(mem[h]) + 2 /\ g + n = OffsetOf(After(mem, h)) /\ n \in Nat
    <3>1. h \in B /\ OffsetOf(h) = g
      BY <1>4, <2>2 DEF h
    <3> QED
      BY <1>1, <3>1, TileFacts DEF n
  <2> QED
    BY <2>1, <2>3 DEF h
<1>5. lenOfWords = LenOf(mem, B)
  <2> HIDE DEF D
  <2>1. [g \in D |-> IF Pos(g) \in B THEN size(mem[Pos(g)]) + 2 ELSE 0]
        = [g \in D |-> IF Pos(g) \in B THEN OffsetOf(After(mem, Pos(g))) - g ELSE 0]
    BY <1>4
  <2> QED
    BY <1>3, <2>1 DEF LenOf, D
<1> QED
  BY <1>2, <1>5

LEMMA NothingNext == Unmapped'
  BY NothingMapped, PTL

LEMMA MappedNext == Mapped'
  BY WordsMapped, PTL

LEMMA InitMaps == Init => Tiles!Init
<1> SUFFICES ASSUME Init PROVE Tiles!Init
  OBVIOUS
<1>1. ~HeapInited
  BY DEF Init
<1> QED
  BY <1>1, NothingMapped DEF Unmapped, Tiles!Init, Tiles!Grains

\* heap_init writes down what the mapping took for granted.
LEMMA HeapInitMaps == IInv /\ HeapInit => lenOfWords' = lenOfWords /\ usedByWords' = usedByWords
<1> SUFFICES ASSUME IInv, HeapInit PROVE lenOfWords' = lenOfWords /\ usedByWords' = usedByWords
  OBVIOUS
<1> DEFINE B == {FirstHeader}
<1>1. ~HeapInited /\ HeapInited'
  BY DEF HeapInit
<1>2. Sound(mem', B, B, live') /\ After(mem', FirstHeader) = ArenaEnd
  BY HeapInitSound
<1>3. lenOfWords' = LenOf(mem', B) /\ usedByWords' = UsedOf(B, B)
  <2> HIDE DEF B
  <2> QED
    BY <1>1, <1>2, MappedNext DEF Mapped
<1>4. ASSUME NEW g \in 0 .. (PAGE - 1)
      PROVE  LenOf(mem', B)[g] = IF g = 0 THEN PAGE ELSE 0
  <2>1. g \in Int /\ 0 \in Int /\ PAGE \in Int /\ Pos(0) = FirstHeader
        /\ OffsetOf(Pos(g)) = g /\ OffsetOf(Pos(0)) = 0 /\ OffsetOf(Pos(PAGE)) = PAGE
        /\ Pos(PAGE) = ArenaEnd
    BY OffsetFacts
  <2>2. Pos(g) \in B <=> g = 0
    BY <2>1
  <2>3. OffsetOf(After(mem', Pos(0))) - 0 = PAGE
    BY <1>2, <2>1
  <2>4. LenOf(mem', B)[g] = IF Pos(g) \in B THEN OffsetOf(After(mem', Pos(g))) - g ELSE 0
    BY DEF LenOf
  <2> HIDE DEF B
  <2> QED
    BY <2>2, <2>3, <2>4
<1>5. LenOf(mem', B) = [g \in 0 .. (PAGE - 1) |-> LenOf(mem', B)[g]]
  BY DEF LenOf
<1>6. LenOf(mem', B) = lenOfWords
  <2>1. lenOfWords = [g \in 0 .. (PAGE - 1) |-> IF g = 0 THEN PAGE ELSE 0]
    BY <1>1, NothingMapped DEF Unmapped
  <2> HIDE DEF B
  <2> QED
    BY <1>4, <1>5, <2>1
<1>7. UsedOf(B, B) = {} /\ usedByWords = {}
  BY <1>1, NothingMapped DEF Unmapped, UsedOf
<1> QED
  BY <1>3, <1>6, <1>7

\* Cutting h in two cuts its units in two.
CutUnits(L, L2, F, b, r) ==
    /\ L[b] >= r + 2
    /\ \A f \in F : L[OffsetOf(f)] >= r + 2 => L[b] <= L[OffsetOf(f)]
    /\ L2 = [L EXCEPT ![b] = r, ![b + r] = L[b] - r]

LEMMA CutMaps ==
    ASSUME NEW m, NEW m2, NEW B, NEW F, Good(m, B, F), NEW s \in Requests, NEW h, NEW second,
           Allocated(m, m2, B, F, s, h, second)
    PROVE  CutUnits(LenOf(m, B), LenOf(m2, B \cup {second}), F, OffsetOf(h), s + 2)
<1> DEFINE L == LenOf(m, B)
           b == OffsetOf(h)
           r == s + 2
           C == B \cup {second}
           D == 0 .. (PAGE - 1)
           L2 == LenOf(m2, C)
<1>1. /\ Shape(m, B) /\ F \subseteq B /\ h \in F /\ h \in B /\ second \notin B
      /\ second = h + s + 2 /\ size(m[h]) >= s + 3
      /\ \A g \in F : size(m[g]) >= s + 2 => size(m[h]) <= size(m[g])
      /\ Shape(m2, C) /\ After(m2, h) = second /\ After(m2, second) = After(m, h)
      /\ \A g \in B : g # h => m2[g] = m[g]
  BY DEF Allocated, Good
<1>2. s \in Int /\ s >= 1 /\ h \in Int /\ second \in Int /\ FirstHeader \in Int
  <2>1. h \in Int
    BY <1>1, ShapeFacts
  <2> QED
    BY <1>1, <2>1, ConstantFacts
<1>3. r \in Int /\ r = s + 2
  BY <1>2
<1> HIDE DEF r
<1>4. /\ b \in D /\ b \in Int /\ Pos(b) = h /\ L[b] \in Nat /\ L[b] = size(m[h]) + 2
      /\ b + L[b] = OffsetOf(After(m, h)) /\ OffsetOf(After(m, h)) \in Int
  BY <1>1, TileFacts
<1>5. Pos(b + r) = second /\ b + r \in D /\ r # 0
  <2>1. h = FirstHeader + b
    BY <1>4 DEF Pos
  <2>2. Pos(b + r) = second /\ r # 0
    BY <1>1, <1>2, <1>3, <1>4, <2>1 DEF Pos
  <2>3. OffsetOf(second) \in D
    BY <1>1, TileFacts
  <2>4. OffsetOf(second) = b + r
    <3>1. b + r \in Int
      BY <1>3, <1>4
    <3> QED
      BY <2>2, <3>1, OffsetFacts
  <2> QED
    BY <2>2, <2>3, <2>4
<1> HIDE DEF b, L, D
<1>6. \A g \in B : size(m[g]) \in Int /\ L[OffsetOf(g)] = size(m[g]) + 2
  <2>1. ASSUME NEW g \in B PROVE size(m[g]) \in Int /\ L[OffsetOf(g)] = size(m[g]) + 2
    <3>1. size(m[g]) = After(m, g) - g - 2 /\ After(m, g) \in Int /\ g \in Int
      BY <1>1, ShapeFacts
    <3>2. size(m[g]) \in Int
      BY <3>1
    <3> QED
      BY <1>1, <3>2, TileFacts DEF L
  <2> QED
    BY <2>1
<1>9. L[b] >= r + 2
  BY <1>1, <1>2, <1>3, <1>4, <1>6
<1>10. ASSUME NEW f \in F, L[OffsetOf(f)] >= r + 2 PROVE L[b] <= L[OffsetOf(f)]
  <2>1. f \in B /\ size(m[f]) \in Int /\ L[OffsetOf(f)] = size(m[f]) + 2
    BY <1>1, <1>6
  <2>2. size(m[f]) >= s + 2
    BY <1>2, <1>3, <1>10, <2>1
  <2>3. size(m[h]) <= size(m[f]) /\ size(m[h]) \in Int
    BY <1>1, <1>6, <2>2
  <2> QED
    BY <1>4, <2>1, <2>3
<1> DEFINE E == [L EXCEPT ![b] = r, ![b + r] = L[b] - r]
<1>11. L \in [D -> Int]
  <2>1. ASSUME NEW g \in D PROVE L[g] \in Int
    <3>1. L[g] = IF Pos(g) \in B THEN OffsetOf(After(m, Pos(g))) - g ELSE 0
      BY <2>1 DEF L, LenOf, D
    <3>2. g \in Int
      BY <2>1, OffsetFacts DEF D
    <3>3. CASE Pos(g) \in B
      <4>1. OffsetOf(After(m, Pos(g))) \in Int
        BY <1>1, <3>3, TileFacts
      <4> QED
        BY <3>1, <3>2, <3>3, <4>1
    <3>4. CASE Pos(g) \notin B
      BY <3>1, <3>4
    <3> QED
      BY <3>3, <3>4
  <2>2. L = [g \in D |-> L[g]]
    BY DEF L, LenOf, D
  <2> QED
    BY <2>1, <2>2
<1>12. ASSUME NEW g \in D PROVE L2[g] = E[g]
  <2>1. L2[g] = IF Pos(g) \in C THEN OffsetOf(After(m2, Pos(g))) - g ELSE 0
    BY <1>12 DEF LenOf, D
  <2>2. L[g] = IF Pos(g) \in B THEN OffsetOf(After(m, Pos(g))) - g ELSE 0
    BY <1>12 DEF L, LenOf, D
  <2>3. g \in Int /\ OffsetOf(Pos(g)) = g
    <3>1. g \in Int
      BY <1>12, OffsetFacts DEF D
    <3> QED
      BY <3>1, OffsetFacts
  <2> HIDE DEF L2, C
  <2>4. CASE g = b
    <3>1. E[g] = r
      BY <1>3, <1>4, <1>5, <1>11, <2>4
    <3>2. Pos(g) = h /\ h \in C
      BY <1>1, <1>4, <2>4 DEF C
    <3>3. OffsetOf(After(m2, h)) = b + r
      <4>1. b + r \in Int
        BY <1>3, <1>4
      <4> QED
        BY <1>1, <1>5, <4>1, OffsetFacts
    <3>4. L2[g] = (b + r) - b
      BY <2>1, <2>4, <3>2, <3>3
    <3> QED
      BY <1>3, <1>4, <3>1, <3>4
  <2>5. CASE g = b + r
    <3>1. E[g] = L[b] - r
      BY <1>3, <1>4, <1>5, <1>11, <2>5
    <3>2. Pos(g) = second /\ second \in C
      BY <1>5, <2>5 DEF C
    <3>3. L2[g] = (b + L[b]) - (b + r)
      BY <1>1, <1>4, <2>1, <2>5, <3>2
    <3> QED
      BY <1>3, <1>4, <3>1, <3>3
  <2>6. CASE g # b /\ g # b + r
    <3>1. E[g] = L[g]
      BY <1>11, <1>12, <2>6
    <3>2. Pos(g) # h /\ Pos(g) # second
      <4>1. b + r \in Int
        BY <1>3, <1>4
      <4>2. OffsetOf(h) = b /\ OffsetOf(second) = b + r
        BY <1>4, <1>5, <4>1, OffsetFacts
      <4> QED
        BY <2>3, <2>6, <4>2
    <3>3. Pos(g) \in C <=> Pos(g) \in B
      BY <3>2 DEF C
    <3>4. Pos(g) \in B => After(m2, Pos(g)) = After(m, Pos(g))
      BY <1>1, <3>2 DEF After
    <3> QED
      BY <2>1, <2>2, <3>1, <3>3, <3>4
  <2> QED
    BY <2>4, <2>5, <2>6
<1>13. L2 = E
  <2>1. L2 = [g \in D |-> L2[g]]
    BY DEF LenOf, D
  <2>2. E = [g \in D |-> E[g]]
    BY <1>11
  <2> HIDE DEF L2, E
  <2> QED
    BY <1>12, <2>1, <2>2
<1>14. CutUnits(L, L2, F, b, r)
  <2> HIDE DEF L2
  <2> QED
    BY <1>9, <1>10, <1>13 DEF CutUnits
<1> HIDE DEF L2, E
<1> QED
  BY <1>14 DEF L2, L, b, r, C

LEMMA KmallocMaps ==
    ASSUME NEW s \in Requests, Kmalloc(s), mishaps' = {}, NEW B, NEW F, Sound(mem, B, F, live)
    PROVE  Tiles!Alloc(s + 2)
<1> DEFINE r == s + 2
<1>1. PICK h, second :
        /\ Allocated(mem, mem', B, F, s, h, second)
        /\ Sound(mem', B \cup {second}, (F \cup {second}) \ {h}, live')
  BY KmallocSound
<1> DEFINE C == B \cup {second}
           G == (F \cup {second}) \ {h}
           b == OffsetOf(h)
<1>2. Good(mem, B, F) /\ h \in F /\ Shape(mem, B) /\ F \subseteq B
  BY <1>1 DEF Sound, Good, Allocated
<1>3. HeapInited /\ HeapInited'
  BY DEF Kmalloc
<1>4. lenOfWords = LenOf(mem, B) /\ usedByWords = UsedOf(B, F)
  BY <1>3, WordsMapped DEF Mapped
<1>5. lenOfWords' = LenOf(mem', C) /\ usedByWords' = UsedOf(C, G)
  <2> HIDE DEF C, G
  <2>1. Sound(mem', C, G, live')
    BY <1>1 DEF C, G
  <2> QED
    BY <1>3, <2>1, MappedNext DEF Mapped
<1>6. CutUnits(lenOfWords, lenOfWords', F, b, r) /\ usedByWords' = usedByWords \cup {b}
  <2>1. Allocated(mem, mem', B, F, s, h, second) /\ Good(mem, B, F) /\ s \in Requests
    BY <1>1, <1>2
  <2>2. CutUnits(LenOf(mem, B), LenOf(mem', C), F, b, r)
    BY <2>1, CutMaps, Zenon
  <2>3. UsedOf(C, G) = UsedOf(B, F) \cup {b}
    <3>1. C \ G = (B \ F) \cup {h}
      BY <1>2, <2>1 DEF Allocated
    <3> HIDE DEF C, G
    <3> QED
      BY <3>1 DEF UsedOf
  <2> HIDE DEF C, G, b, r
  <2> QED
    BY <1>4, <1>5, <2>2, <2>3
<1>7. Tiles!Free = {OffsetOf(f) : f \in F}
  BY <1>2, <1>4, FreeOffsets DEF Tiles!Free, Tiles!heads, Tiles!Grains
<1> HIDE DEF b, r
<1>8. b \in Tiles!Free
  BY <1>2, <1>7 DEF b
<1>9. \A c \in Tiles!Free : lenOfWords[c] >= r + 2 => lenOfWords[b] <= lenOfWords[c]
  BY <1>6, <1>7 DEF CutUnits
<1>10. Tiles!Alloc(r)
  BY <1>6, <1>8, <1>9 DEF Tiles!Alloc, CutUnits
<1> QED
  BY <1>10 DEF r

\* Freeing c frees its units and those of its free neighbours.
ReleaseUnits(L, L2, Fs, b, first, last) ==
    /\ first \in 0 .. (PAGE - 1) /\ L[first] > 0 /\ last \in 1 .. PAGE
    /\ \/ first = b /\ \A p \in Fs : p + L[p] # b
       \/ first \in Fs /\ first + L[first] = b
    /\ LET next == b + L[b]
       IN  \/ next \notin Fs /\ last = next
           \/ next \in Fs /\ last = next + L[next]
    /\ L2 = [a \in 0 .. (PAGE - 1) |->
               IF a = first THEN last - first ELSE IF a > first /\ a < last THEN 0 ELSE L[a]]

LEMMA ReleaseMaps ==
    ASSUME NEW m, NEW m2, NEW B, NEW F, Good(m, B, F), NEW c \in B, c \notin F, NEW h, NEW stop,
           Freed(m, m2, B, F, c, h, stop)
    PROVE  ReleaseUnits(LenOf(m, B), LenOf(m2, Remaining(B, h, stop)), {OffsetOf(f) : f \in F},
                         OffsetOf(c), OffsetOf(h), OffsetOf(stop))
<1> DEFINE L == LenOf(m, B)
           R == Remaining(B, h, stop)
           L2 == LenOf(m2, R)
           Fs == {OffsetOf(f) : f \in F}
           b == OffsetOf(c)
           first == OffsetOf(h)
           last == OffsetOf(stop)
           D == 0 .. (PAGE - 1)
           next == After(m, c)
<1>1. /\ Shape(m, B) /\ F \subseteq B /\ Shape(m2, R) /\ h \in R /\ h \in B /\ After(m2, h) = stop
      /\ \A g \in R : g # h => m2[g] = m[g]
      /\ \A g : g \in R <=> g \in B /\ (g <= h \/ g >= stop)
      /\ \/ h = c /\ \A p \in F : After(m, p) # c
         \/ h \in F /\ After(m, h) = c
      /\ \/ stop = next /\ next \notin F
         \/ next \in F /\ stop = After(m, next)
  BY DEF Freed, Good, Remaining
<1>2. /\ \A g \in B : /\ g \in Int /\ OffsetOf(g) \in D /\ Pos(OffsetOf(g)) = g
                      /\ L[OffsetOf(g)] \in Nat \ {0}
                      /\ OffsetOf(g) + L[OffsetOf(g)] = OffsetOf(After(m, g))
                      /\ Pos(OffsetOf(After(m, g))) = After(m, g)
                      /\ After(m, g) \in B \cup {ArenaEnd}
  <2>1. ASSUME NEW g \in B
        PROVE  /\ g \in Int /\ OffsetOf(g) \in D /\ Pos(OffsetOf(g)) = g
               /\ L[OffsetOf(g)] \in Nat \ {0}
               /\ OffsetOf(g) + L[OffsetOf(g)] = OffsetOf(After(m, g))
               /\ Pos(OffsetOf(After(m, g))) = After(m, g)
    BY <1>1, TileFacts, ShapeFacts
  <2>2. \A g \in B : After(m, g) \in B \cup {ArenaEnd}
    BY <1>1 DEF Shape
  <2> HIDE DEF L, D
  <2> QED
    BY <2>1, <2>2
<1> HIDE DEF R
<1>3. /\ first \in D /\ first \in Int /\ Pos(first) = h /\ last \in Int /\ Pos(last) = stop
      /\ last <= PAGE /\ first < last /\ h \in Int /\ stop \in Int
  <2>1. /\ OffsetOf(h) \in D /\ OffsetOf(h) \in Int /\ Pos(OffsetOf(h)) = h
        /\ OffsetOf(After(m2, h)) \in Int /\ Pos(OffsetOf(After(m2, h))) = After(m2, h)
        /\ OffsetOf(After(m2, h)) <= PAGE
    BY <1>1, TileFacts
  <2>2. h \in Int /\ After(m2, h) \in Int /\ h + 3 <= After(m2, h)
    BY <1>1, ShapeFacts
  <2>3. h \in Int /\ stop \in Int /\ h < stop
    BY <1>1, <2>2
  <2>4. first < last
    <3>1. first \in Int /\ last \in Int /\ Pos(first) < Pos(last)
      BY <1>1, <2>1, <2>3
    <3> HIDE DEF first, last
    <3> QED
      BY <3>1, OffsetFacts
  <2> QED
    BY <1>1, <2>1, <2>3, <2>4
<1>4. last \in 1 .. PAGE
  <2> HIDE DEF first, last
  <2> QED
    BY <1>3, OffsetFacts DEF D
<1>5. \A g \in B \cup {ArenaEnd} : OffsetOf(g) \in Fs => g \in F
  BY <1>1, FreeOffsets
<1>6. \/ first = b /\ \A p \in Fs : p + L[p] # b
      \/ first \in Fs /\ first + L[first] = b
  <2>1. CASE h = c /\ \A p \in F : After(m, p) # c
    <3>1. ASSUME NEW p \in F PROVE OffsetOf(p) + L[OffsetOf(p)] # b
      <4>1. p \in B /\ After(m, p) # c
        BY <1>1, <2>1
      <4>2. OffsetOf(p) + L[OffsetOf(p)] = OffsetOf(After(m, p)) /\ Pos(OffsetOf(After(m, p))) = After(m, p)
        BY <1>2, <4>1
      <4>3. Pos(b) = c
        BY <1>2
      <4> HIDE DEF b, L
      <4> QED
        BY <4>1, <4>2, <4>3
    <3> HIDE DEF L
    <3> QED
      BY <2>1, <3>1
  <2>2. CASE h \in F /\ After(m, h) = c
    <3>1. OffsetOf(h) + L[OffsetOf(h)] = OffsetOf(After(m, h))
      BY <1>1, <1>2
    <3> QED
      BY <2>2, <3>1
  <2> QED
    BY <1>1, <2>1, <2>2
<1>7. b + L[b] = OffsetOf(next) /\ next \in B \cup {ArenaEnd}
  BY <1>2
<1>8. LET nx == b + L[b]
      IN  \/ nx \notin Fs /\ last = nx
          \/ nx \in Fs /\ last = nx + L[nx]
  <2>1. CASE stop = next /\ next \notin F
    <3>1. OffsetOf(next) \notin Fs
      BY <1>5, <1>7, <2>1
    <3> QED
      BY <1>7, <2>1, <3>1
  <2>2. CASE next \in F /\ stop = After(m, next)
    <3>1. OffsetOf(next) + L[OffsetOf(next)] = OffsetOf(After(m, next))
      BY <1>1, <1>2, <2>2
    <3> QED
      BY <1>7, <2>2, <3>1
  <2> QED
    BY <1>1, <2>1, <2>2
<1>9. ASSUME NEW a \in D
      PROVE  L2[a] = IF a = first THEN last - first ELSE IF a > first /\ a < last THEN 0 ELSE L[a]
  <2>1. L2[a] = IF Pos(a) \in R THEN OffsetOf(After(m2, Pos(a))) - a ELSE 0
    BY DEF LenOf
  <2>2. L[a] = IF Pos(a) \in B THEN OffsetOf(After(m, Pos(a))) - a ELSE 0
    BY DEF LenOf
  <2>3. a \in Int /\ OffsetOf(Pos(a)) = a /\ Pos(a) \in Int
    <3>1. a \in Int
      BY OffsetFacts
    <3> QED
      BY <3>1, OffsetFacts
  <2>4. (a > first <=> Pos(a) > h) /\ (a < last <=> Pos(a) < stop)
    <3> HIDE DEF first, last
    <3>1. (first < a <=> Pos(first) < Pos(a)) /\ (a < last <=> Pos(a) < Pos(last))
      BY <1>3, <2>3, OffsetFacts
    <3> QED
      BY <1>3, <2>3, <3>1
  <2> HIDE DEF L, L2
  <2>5. CASE a = first
    BY <1>1, <1>3, <2>1, <2>5
  <2>6. CASE a # first /\ a > first /\ a < last
    <3>1. Pos(a) \notin R
      BY <1>1, <1>3, <2>3, <2>4, <2>6
    <3> QED
      BY <2>1, <2>6, <3>1
  <2>7. CASE a # first /\ ~(a > first /\ a < last)
    <3>1. Pos(a) # h
      BY <2>3, <2>7
    <3>2. Pos(a) \in R <=> Pos(a) \in B
      <4>1. Pos(a) <= h \/ Pos(a) >= stop
        BY <1>3, <2>3, <2>4, <2>7
      <4> QED
        BY <1>1, <4>1
    <3>3. Pos(a) \in R => After(m2, Pos(a)) = After(m, Pos(a))
      BY <1>1, <3>1 DEF After
    <3> QED
      BY <2>1, <2>2, <2>7, <3>2, <3>3
  <2> QED
    BY <2>5, <2>6, <2>7
<1>10. L2 = [a \in D |-> IF a = first THEN last - first ELSE IF a > first /\ a < last THEN 0 ELSE L[a]]
  <2>1. L2 = [a \in D |-> L2[a]]
    BY DEF LenOf
  <2> HIDE DEF L2, D, L, first, last
  <2> QED
    BY <1>9, <2>1
<1>11. ReleaseUnits(L, L2, Fs, b, first, last)
  <2>1. L[first] > 0
    BY <1>1, <1>2
  <2> HIDE DEF L, L2, Fs, b, first, last
  <2> QED
    BY <1>3, <1>4, <2>1, <1>6, <1>8, <1>10 DEF ReleaseUnits
<1> QED
  BY <1>11 DEF R

LEMMA KFreeMaps ==
    ASSUME HeapInited, NEW address \in DOMAIN live, KFree(address),
           NEW B, NEW F, Sound(mem, B, F, live)
    PROVE  \E b \in usedByWords : Tiles!Release(b)
<1> DEFINE c == address - 1
           b == OffsetOf(c)
           Fs == {OffsetOf(f) : f \in F}
<1>1. PICK h, stop :
        /\ c \in B /\ c \notin F
        /\ Freed(mem, mem', B, F, c, h, stop)
        /\ Sound(mem', Remaining(B, h, stop), (F \cap Remaining(B, h, stop)) \cup {h}, live')
        /\ Returned(B, F, Remaining(B, h, stop), (F \cap Remaining(B, h, stop)) \cup {h}, c)
  BY KFreeSound
<1> DEFINE R == Remaining(B, h, stop)
           G == (F \cap R) \cup {h}
           first == OffsetOf(h)
           last == OffsetOf(stop)
<1> HIDE DEF c
<1>2. Good(mem, B, F) /\ Shape(mem, B) /\ F \subseteq B
  BY DEF Sound, Good
<1>3. lenOfWords = LenOf(mem, B) /\ usedByWords = UsedOf(B, F)
  BY WordsMapped DEF Mapped
<1>4. lenOfWords' = LenOf(mem', R) /\ usedByWords' = UsedOf(R, G)
  <2>1. Sound(mem', R, G, live')
    BY <1>1
  <2>2. HeapInited'
    BY DEF KFree
  <2> HIDE DEF R, G
  <2> QED
    BY <2>1, <2>2, MappedNext DEF Mapped
<1>5. ReleaseUnits(LenOf(mem, B), LenOf(mem', R), Fs, b, first, last)
  <2>1. Freed(mem, mem', B, F, c, h, stop) /\ Good(mem, B, F) /\ c \in B /\ c \notin F
    BY <1>1, <1>2
  <2> QED
    BY <2>1, ReleaseMaps, Zenon
<1>6. Tiles!Free = Fs
  BY <1>2, <1>3, FreeOffsets DEF Tiles!Free, Tiles!heads, Tiles!Grains
<1>7. b \in usedByWords
  BY <1>1, <1>3 DEF UsedOf
<1>8. usedByWords' = usedByWords \ {b}
  <2>1. R \ G = (B \ F) \ {c}
    BY <1>1 DEF Returned
  <2>2. \A g \in B : Pos(OffsetOf(g)) = g
    <3>1. ASSUME NEW g \in B PROVE Pos(OffsetOf(g)) = g
      BY <1>2, TileFacts
    <3> QED
      BY <3>1
  <2>3. \A g \in B : OffsetOf(g) = OffsetOf(c) => g = c
    BY <1>1, <2>2
  <2> HIDE DEF R, G
  <2>4. UsedOf(R, G) = UsedOf(B, F) \ {b}
    BY <1>1, <2>1, <2>3 DEF UsedOf
  <2> QED
    BY <1>3, <1>4, <2>4
<1> HIDE DEF b, Fs, R, G, first, last
<1>9. ReleaseUnits(lenOfWords, lenOfWords', Tiles!Free, b, first, last)
  BY <1>3, <1>4, <1>5, <1>6
<1>10. Tiles!FirstAfterMerge(b, first) /\ Tiles!StopAfterMerge(b, last)
  BY <1>9 DEF ReleaseUnits, Tiles!FirstAfterMerge, Tiles!StopAfterMerge
<1>11. Tiles!Release(b)
  BY <1>8, <1>9, <1>10 DEF ReleaseUnits, Tiles!Release, Tiles!heads, Tiles!Grains
<1> QED
  BY <1>7, <1>11

LEMMA StepMaps ==
    IInv /\ [Next]_vars /\ mishaps' = {} => Tiles!Next \/ UNCHANGED Tiles!vars
<1> SUFFICES ASSUME IInv, [Next]_vars, mishaps' = {} PROVE Tiles!Next \/ UNCHANGED Tiles!vars
  OBVIOUS
<1>0. mishaps = {}
  <2>1. ASSUME NEW s \in Requests, Kmalloc(s) PROVE mishaps = {}
    BY <2>1 DEF Kmalloc
  <2>2. ASSUME NEW address \in DOMAIN live, KFree(address) PROVE mishaps = {}
    BY <2>2 DEF KFree
  <2> QED
    BY <2>1, <2>2 DEF Next, HeapInit, vars
<1>1. HeapInited \in BOOLEAN /\ (HeapInited => \E B, F : Sound(mem, B, F, live))
  BY <1>0 DEF IInv
<1>2. ~HeapInited => DOMAIN live = {}
  <2> SUFFICES ASSUME ~HeapInited PROVE DOMAIN live = {}
    OBVIOUS
  <2>1. live = << >>
    BY DEF IInv, Fresh
  <2> QED
    BY <2>1
<1>3. CASE HeapInit
  BY <1>3, HeapInitMaps DEF Tiles!vars
<1>4. ASSUME NEW s \in Requests, Kmalloc(s) PROVE Tiles!Next
  <2>1. PICK B, F : Sound(mem, B, F, live)
    BY <1>1, <1>4 DEF Kmalloc
  <2>2. Tiles!Alloc(s + 2)
    BY <1>4, <2>1, KmallocMaps
  <2> QED
    BY <2>2 DEF Tiles!Next
<1>5. ASSUME NEW address \in DOMAIN live, KFree(address) PROVE Tiles!Next
  <2>1. HeapInited
    BY <1>1, <1>2
  <2>2. PICK B, F : Sound(mem, B, F, live)
    BY <1>1, <2>1
  <2>3. \E b \in usedByWords : Tiles!Release(b)
    BY <1>5, <2>1, <2>2, KFreeMaps
  <2> QED
    BY <2>3 DEF Tiles!Next
<1>6. CASE UNCHANGED vars
  <2>1. mem' = mem /\ HeapInited' = HeapInited /\ live' = live
    BY <1>6 DEF vars
  <2>2. CASE HeapInited
    <3>1. PICK B, F : Sound(mem, B, F, live)
      BY <1>1, <2>2
    <3>2. lenOfWords = LenOf(mem, B) /\ usedByWords = UsedOf(B, F)
      BY <2>2, <3>1, WordsMapped DEF Mapped
    <3>3. HeapInited' /\ Sound(mem', B, F, live')
      BY <2>1, <2>2, <3>1
    <3>4. lenOfWords' = LenOf(mem', B) /\ usedByWords' = UsedOf(B, F)
      BY <3>3, MappedNext DEF Mapped
    <3> QED
      BY <2>1, <3>2, <3>4 DEF Tiles!vars
  <2>3. CASE ~HeapInited
    <3> DEFINE none == [g \in 0 .. (PAGE - 1) |-> IF g = 0 THEN PAGE ELSE 0]
    <3>1. lenOfWords = none /\ usedByWords = {}
      BY <2>3, NothingMapped DEF Unmapped
    <3>2. lenOfWords' = none /\ usedByWords' = {}
      BY <2>1, <2>3, NothingNext DEF Unmapped
    <3> HIDE DEF none
    <3> QED
      BY <3>1, <3>2 DEF Tiles!vars
  <2> QED
    BY <1>1, <2>2, <2>3
<1> QED
  BY <1>3, <1>4, <1>5, <1>6 DEF Next

\* Until the first accident, the words written by spilt_block, merge_block and
\* the free-list functions amount to the splitting and merging of whole blocks:
\* headers, footers and the list tell alloc_memory and free_memory the truth.
THEOREM WordsImplementBlocks == Spec => ImplementsBlockHeap
<1>1. Init => Tiles!Init
  BY InitMaps
<1>2. IInv /\ [Next]_vars => (mishaps' = {} => Tiles!Next \/ UNCHANGED Tiles!vars)
  BY StepMaps
<1> QED
  BY <1>1, <1>2, HeapSound, PTL DEF Spec, ImplementsBlockHeap

-----------------------------------------------------------------------------
(* What BlockHeapProofs proves of the blocks holds of the words.           *)

AsBlocks == INSTANCE BlockHeapProofs WITH
                Units <- PAGE,
                Requests <- {s + 2 : s \in Requests},
                Overhead <- 2,
                len <- lenOfWords,
                used <- usedByWords

\* heap.c, as long as no accident happens, is an allocator as its callers expect
\* one: what Kmalloc hands out overlaps nothing that they hold, nothing of theirs
\* moves or is resized, and only KFree takes it back.
THEOREM WordsImplementAllocator ==
    Spec /\ []NoMishap => AsBlocks!ImplementsAllocator
<1>1. AsBlocks!BlockHeapAssumption
  <2>1. {s + 2 : s \in Requests} \subseteq Nat \ {0}
    BY ConstantFacts
  <2> QED
    BY <2>1, OffsetFacts DEF AsBlocks!BlockHeapAssumption
<1>2. AsBlocks!Spec => AsBlocks!ImplementsAllocator
  BY <1>1, AsBlocks!BlocksImplementAllocator
<1>3. Tiles!Init => AsBlocks!Init
  BY DEF Tiles!Init, AsBlocks!Init, Tiles!Grains, AsBlocks!Grains
<1>4. Tiles!Next \/ UNCHANGED Tiles!vars => [AsBlocks!Next]_(AsBlocks!vars)
  <2>1. Tiles!Free = AsBlocks!Free
    BY DEF Tiles!Free, AsBlocks!Free, Tiles!heads, AsBlocks!heads, Tiles!Grains, AsBlocks!Grains
  <2>2. \A r : Tiles!Alloc(r) => AsBlocks!Alloc(r)
    BY <2>1 DEF Tiles!Alloc, AsBlocks!Alloc
  <2>3. \A b : Tiles!Release(b) => AsBlocks!Release(b)
    BY <2>1 DEF Tiles!Release, AsBlocks!Release, Tiles!FirstAfterMerge, AsBlocks!FirstAfterMerge,
                Tiles!heads, AsBlocks!heads, Tiles!StopAfterMerge, AsBlocks!StopAfterMerge, Tiles!Grains, AsBlocks!Grains
  <2> QED
    BY <2>2, <2>3 DEF Tiles!Next, AsBlocks!Next, Tiles!vars, AsBlocks!vars
<1>5. Init => Tiles!Init
  BY InitMaps
<1>6. IInv /\ [Next]_vars /\ NoMishap' => Tiles!Next \/ UNCHANGED Tiles!vars
  BY StepMaps DEF NoMishap
<1> QED
  BY <1>2, <1>3, <1>4, <1>5, <1>6, HeapSound, PTL DEF Spec, AsBlocks!Spec

=============================================================================
