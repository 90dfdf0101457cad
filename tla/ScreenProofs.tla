---------------------------- MODULE ScreenProofs ----------------------------
(* Where characters go, on a screen of every size, whatever is printed,    *)
(* typed and rubbed out.                                                   *)
EXTENDS Screen, WellFoundedInduction, TLAPS

-----------------------------------------------------------------------------
(* Induction, with a set in place of a predicate.                          *)

LEMMA LeastNatural ==
    ASSUME NEW T \in SUBSET Nat, T # {}
    PROVE  \E n \in T : \A m \in T : n <= m
<1>1. PICK n \in T : \A m \in T : <<m, n>> \notin OpToRel(<, Nat)
  BY WFMin, NatLessThanWellFounded, Zenon
<1>2. \A m \in T : ~(m < n)
  <2> SUFFICES ASSUME NEW m \in T, m < n PROVE FALSE
    OBVIOUS
  <2>1. m \in Nat /\ n \in Nat
    OBVIOUS
  <2> QED
    BY <1>1, <2>1, Zenon DEF OpToRel
<1> QED
  BY <1>2

LEMMA SetInduction ==
    ASSUME NEW T \in SUBSET Nat, 0 \in T, \A n \in T : n + 1 \in T
    PROVE  \A n \in Nat : n \in T
<1> SUFFICES ASSUME Nat \ T # {} PROVE FALSE
  OBVIOUS
<1>1. PICK n \in Nat \ T : \A m \in Nat \ T : n <= m
  BY LeastNatural
<1>2. n - 1 \in Nat /\ n - 1 \notin Nat \ T /\ (n - 1) + 1 = n
  BY <1>1
<1> QED
  BY <1>1, <1>2

-----------------------------------------------------------------------------
(* What the functions do to the position.                                  *)

Screens ==
    [X : Int, Y : Int, ink : SUBSET OnScreen, lost : BOOLEAN, mishaps : SUBSET Mishaps]

LEMMA ScreenFacts ==
    Width \in Nat \ {0} /\ TabWidth \in Nat \ {0} /\ SIZE \in Nat \ {0} /\ Height \in Nat \ {0, 1}
  BY ScreenAssumption

LEMMA HappensStep ==
    ASSUME NEW s \in Screens, NEW m \in Mishaps, NEW happened
    PROVE  LET t == Happens(s, m, happened)
           IN  /\ t \in Screens /\ t.X = s.X /\ t.Y = s.Y /\ t.ink = s.ink /\ t.lost = s.lost
               /\ s.mishaps \subseteq t.mishaps /\ (happened => m \in t.mishaps)
  BY DEF Happens, Screens

LEMMA StoreStep ==
    ASSUME NEW s \in Screens, NEW cell \in Int
    PROVE  LET t == Store(s, cell)
           IN  /\ t \in Screens /\ t.X = s.X /\ t.Y = s.Y /\ t.mishaps = s.mishaps
               /\ t.ink = s.ink \cup ({cell} \cap OnScreen)
               /\ (~s.lost /\ cell \notin s.ink /\ cell \in OnScreen) => ~t.lost
  BY DEF Store, Screens

LEMMA ScrollStep ==
    ASSUME NEW s \in Screens
    PROVE  LET t == ScrollScreen(s)
           IN  /\ t \in Screens /\ t.X = 0 /\ t.Y = s.Y - 1 /\ t.mishaps = s.mishaps
               /\ t.ink = CopyUp(s.ink) /\ t.lost = s.lost
<1> DEFINE ink == CopyUp(s.ink)
<1>1. ink \in SUBSET OnScreen
  BY DEF CopyUp
<1>2. ScrollScreen(s) = [s EXCEPT !.ink = ink, !.X = 0, !.Y = s.Y - 1]
  BY DEF ScrollScreen
<1> HIDE DEF ink
<1> DEFINE t == [s EXCEPT !.ink = ink, !.X = 0, !.Y = s.Y - 1]
           u == [s EXCEPT !.ink = ink]
           v == [u EXCEPT !.X = 0]
<1>3. t \in Screens
  <2>1. u \in Screens
    BY <1>1 DEF Screens
  <2> HIDE DEF u
  <2>2. v \in Screens
    BY <2>1 DEF Screens
  <2> HIDE DEF v
  <2>3. [v EXCEPT !.Y = s.Y - 1] \in Screens
    BY <2>2 DEF Screens
  <2>4. t = [v EXCEPT !.Y = s.Y - 1]
    BY Zenon DEF u, v
  <2> QED
    BY <2>3, <2>4
<1>4. t.X = 0 /\ t.Y = s.Y - 1 /\ t.ink = ink
  BY DEF Screens
<1>5. t.mishaps = s.mishaps /\ t.lost = s.lost
  BY DEF Screens
<1> HIDE DEF t
<1>6. ScrollScreen(s) = t
  BY <1>2 DEF t
<1> QED
  BY <1>3, <1>4, <1>5, <1>6 DEF ink

LEMMA AdvanceStep ==
    ASSUME NEW s \in Screens
    PROVE  /\ Advance(s) \in Screens /\ Advance(s).X = s.X + 1
           /\ Advance(s).Y = s.Y /\ Advance(s).mishaps = s.mishaps
           /\ Advance(s).ink = s.ink /\ Advance(s).lost = s.lost
  BY DEF Advance, Screens

LEMMA BackStep ==
    ASSUME NEW s \in Screens
    PROVE  /\ Back(s) \in Screens /\ Back(s).X = s.X - 1
           /\ Back(s).Y = s.Y /\ Back(s).mishaps = s.mishaps
           /\ Back(s).ink = s.ink /\ Back(s).lost = s.lost
  BY DEF Back, Screens

LEMMA NewLineStep ==
    ASSUME NEW s \in Screens
    PROVE  LET t == NewLine(s)
           IN  /\ t \in Screens /\ t.X = 0 /\ t.mishaps = s.mishaps /\ t.lost = s.lost
               /\ s.Y < Height => t.Y = s.Y + 1 /\ t.ink = s.ink
               /\ s.Y >= Height => t.Y = s.Y - 1 /\ t.ink = CopyUp(s.ink)
<1>0. s.Y \in Int
  BY DEF Screens
<1>1. CASE s.Y < Height
  <2> DEFINE t == [s EXCEPT !.Y = s.Y + 1, !.X = 0]
         u == [s EXCEPT !.Y = s.Y + 1]
  <2>1. t \in Screens
    <3>1. u \in Screens
      BY <1>0 DEF Screens
    <3> HIDE DEF u
    <3>2. [u EXCEPT !.X = 0] \in Screens
      BY <3>1 DEF Screens
    <3>3. t = [u EXCEPT !.X = 0]
      BY Zenon DEF u
    <3> QED
      BY <3>2, <3>3
  <2>2. t.X = 0 /\ t.Y = s.Y + 1 /\ t.ink = s.ink
    BY DEF Screens
  <2>3. t.mishaps = s.mishaps /\ t.lost = s.lost
    BY DEF Screens
  <2> HIDE DEF t
  <2>4. NewLine(s) = t
    BY <1>1 DEF NewLine, MayGoDown, t
  <2> QED
    BY <1>0, <1>1, <2>1, <2>2, <2>3, <2>4, ScreenFacts
<1>2. CASE ~(s.Y < Height)
  <2>1. NewLine(s) = ScrollScreen(s)
    BY <1>2 DEF NewLine, MayGoDown
  <2> QED
    BY <1>0, <1>2, <2>1, ScrollStep, ScreenFacts
<1> QED
  BY <1>1, <1>2

LEMMA BottomStep ==
    ASSUME NEW s \in Screens
    PROVE  /\ s.Y < Height => Bottom(s) = s
           /\ s.Y >= Height => Bottom(s) = ScrollScreen(s)
<1>1. s.Y \in Int
  BY DEF Screens
<1> QED
  BY <1>1, ScreenFacts DEF Bottom

LEMMA BrokenStep ==
    ASSUME NEW s \in Screens
    PROVE  /\ s.X <= Width => Broken(s) = s
           /\ s.X > Width => Broken(s) = NewLine(s)
<1>1. s.X \in Int
  BY DEF Screens
<1> QED
  BY <1>1, ScreenFacts DEF Broken

LEMMA AtColumnStep ==
    ASSUME NEW s \in Screens
    PROVE  LET t == AtColumn(s)
           IN  /\ t \in Screens /\ t.X = s.X /\ t.Y = s.Y /\ t.ink = s.ink /\ t.lost = s.lost
               /\ s.mishaps \subseteq t.mishaps
               /\ t.mishaps = {} => s.X # Width /\ ~(s.X < 0)
<1> DEFINE u == Happens(s, "edge", s.X = Width)
<1>1. /\ u \in Screens /\ u.X = s.X /\ u.Y = s.Y /\ u.ink = s.ink /\ u.lost = s.lost
      /\ s.mishaps \subseteq u.mishaps /\ (s.X = Width => "edge" \in u.mishaps)
  <2>1. "edge" \in Mishaps
    BY DEF Mishaps
  <2> QED
    BY <2>1, HappensStep, ZenonT(60)
<1>2. AtColumn(s) = Happens(u, "crossed", s.X < 0)
  BY DEF AtColumn
<1> HIDE DEF u
<1>3. LET t == Happens(u, "crossed", s.X < 0)
      IN  /\ t \in Screens /\ t.X = u.X /\ t.Y = u.Y /\ t.ink = u.ink /\ t.lost = u.lost
          /\ u.mishaps \subseteq t.mishaps /\ (s.X < 0 => "crossed" \in t.mishaps)
  BY <1>1, HappensStep DEF Mishaps
<1> QED
  BY <1>1, <1>2, <1>3

\* A line end, if it is due, and a scroll, if that is.
LEMMA SettleStep ==
    ASSUME NEW s \in Screens, s.Y \in 0 .. Height
    PROVE  LET t == Bottom(Broken(s))
           IN  /\ t \in Screens /\ t.mishaps = s.mishaps /\ t.lost = s.lost
               /\ t.Y \in 0 .. Height - 1 /\ (s.Y >= Height - 1 => t.Y >= Height - 1)
               /\ t.X <= Width /\ (t.X = s.X \/ t.X = 0)
               /\ (s.X <= Width /\ s.Y < Height) => t = s
<1>0. s.X \in Int
  BY DEF Screens
<1>1. CASE s.X <= Width
  <2>1. Broken(s) = s
    BY <1>1, BrokenStep
  <2>2. CASE s.Y < Height
    BY <1>0, <1>1, <2>1, <2>2, BottomStep, ScreenFacts
  <2>3. CASE s.Y >= Height
    BY <1>0, <1>1, <2>1, <2>3, BottomStep, ScrollStep, ScreenFacts
  <2> QED
    BY <2>2, <2>3, ScreenFacts
<1>2. CASE s.X > Width
  <2> DEFINE u == NewLine(s)
  <2>1. /\ Broken(s) = u /\ u \in Screens /\ u.X = 0 /\ u.mishaps = s.mishaps /\ u.lost = s.lost
        /\ u.Y \in 0 .. Height
        /\ s.Y < Height => u.Y = s.Y + 1
        /\ s.Y >= Height => u.Y = Height - 1
    BY <1>2, BrokenStep, NewLineStep, ScreenFacts
  <2> HIDE DEF u
  <2>2. CASE u.Y < Height
    BY <1>0, <1>2, <2>1, <2>2, BottomStep, ScreenFacts
  <2>3. CASE u.Y >= Height
    BY <1>0, <1>2, <2>1, <2>3, BottomStep, ScrollStep, ScreenFacts
  <2> QED
    BY <2>1, <2>2, <2>3, ScreenFacts
<1> QED
  BY <1>0, <1>1, <1>2, ScreenFacts

\* Without a mishap, what is on the screen stands before the position.
Tidy(s) ==
    s.mishaps = {} => ~s.lost /\ s.X \in 0 .. Width /\ \A c \in s.ink : c < Cell(s)

\* What a call of WriteChar between two of the thread's does to the position.
Writes(s, t) ==
    /\ t \in Screens /\ s.mishaps \subseteq t.mishaps
    /\ t.Y \in 0 .. Height - 1 /\ (s.Y >= Height - 1 => t.Y >= Height - 1)
    /\ t.X <= Width
    /\ s.Y < Height /\ Tidy(s) => Tidy(t)

LEMMA CellOnScreen ==
    \A X \in 0 .. Width - 1, Y \in 0 .. Height - 1 : Y * Width + X \in OnScreen
<1> SUFFICES ASSUME NEW X \in 0 .. Width - 1, NEW Y \in 0 .. Height - 1
             PROVE  Y * Width + X \in OnScreen
  OBVIOUS
<1>1. Y * Width \in Nat /\ (Y + 1) * Width <= Height * Width /\ (Y + 1) * Width = Y * Width + Width
  BY ScreenFacts
<1>2. Height * Width \in Nat
  BY ScreenFacts
<1> QED
  BY <1>1, <1>2, ScreenFacts DEF OnScreen

LEMMA PlainStep ==
    ASSUME NEW s \in Screens, s.Y \in 0 .. Height
    PROVE  Writes(s, Plain(s)) /\ (Plain(s).X = s.X + 1 \/ Plain(s).X = 0)
<1> DEFINE a == AtColumn(s)
           cell == Cell(s)
           b == Store(a, cell)
           c == Advance(b)
           t == Bottom(Broken(c))
<1>1. /\ a \in Screens /\ a.X = s.X /\ a.Y = s.Y /\ a.ink = s.ink /\ a.lost = s.lost
      /\ s.mishaps \subseteq a.mishaps
      /\ a.mishaps = {} => s.X # Width /\ ~(s.X < 0)
  BY AtColumnStep
<1>2. s.X \in Int /\ cell = s.Y * Width + s.X /\ cell \in Int
  BY ScreenFacts DEF Cell, Screens
<1>3. Plain(s) = t
  BY DEF Plain
<1> HIDE DEF a, cell
<1>4. /\ b \in Screens /\ b.X = s.X /\ b.Y = s.Y /\ b.mishaps = a.mishaps
      /\ b.ink = s.ink \cup ({cell} \cap OnScreen)
      /\ (~s.lost /\ cell \notin s.ink /\ cell \in OnScreen) => ~b.lost
  <2>1. /\ b \in Screens /\ b.X = a.X /\ b.Y = a.Y /\ b.mishaps = a.mishaps
        /\ b.ink = a.ink \cup ({cell} \cap OnScreen)
        /\ (~a.lost /\ cell \notin a.ink /\ cell \in OnScreen) => ~b.lost
    BY <1>1, <1>2, StoreStep
  <2> HIDE DEF b
  <2> QED
    BY <1>1, <2>1
<1> HIDE DEF b
<1>5. /\ c \in Screens /\ c.X = s.X + 1 /\ c.Y = s.Y /\ c.mishaps = a.mishaps
      /\ c.ink = s.ink \cup ({cell} \cap OnScreen)
      /\ (~s.lost /\ cell \notin s.ink /\ cell \in OnScreen) => ~c.lost
  BY <1>4, AdvanceStep
<1> HIDE DEF c
<1>6. /\ t \in Screens /\ t.mishaps = c.mishaps /\ t.lost = c.lost
      /\ t.Y \in 0 .. Height - 1 /\ (s.Y >= Height - 1 => t.Y >= Height - 1)
      /\ t.X <= Width /\ (t.X = c.X \/ t.X = 0)
      /\ (c.X <= Width /\ c.Y < Height) => t = c
  BY <1>5, SettleStep
<1> HIDE DEF t
<1>7. ASSUME s.Y < Height, Tidy(s), t.mishaps = {}
      PROVE  ~t.lost /\ t.X \in 0 .. Width /\ \A d \in t.ink : d < Cell(t)
  <2>1. s.mishaps = {} /\ s.X # Width /\ ~(s.X < 0)
    BY <1>1, <1>5, <1>6, <1>7
  <2>2. s.X \in 0 .. Width - 1 /\ ~s.lost /\ \A d \in s.ink : d < cell
    BY <1>2, <1>7, <2>1, ScreenFacts DEF Tidy, Cell
  <2>3. cell \in OnScreen
    <3>1. s.Y \in 0 .. Height - 1
      BY <1>7, ScreenFacts
    <3> QED
      BY <1>2, <2>2, <3>1, CellOnScreen
  <2>4. t = c
    BY <1>5, <1>6, <1>7, <2>2, ScreenFacts
  <2>5. Cell(t) = cell + 1
    BY <1>2, <1>5, <2>4, ScreenFacts DEF Cell
  <2>6. cell \notin s.ink
    BY <1>2, <2>2
  <2>7. \A d \in s.ink : d \in Int
    BY DEF Screens, OnScreen
  <2>8. \A d \in t.ink : d < Cell(t)
    <3>1. t.ink = s.ink \cup {cell}
      BY <1>5, <2>3, <2>4
    <3> QED
      BY <1>2, <2>2, <2>5, <2>7, <3>1
  <2>9. ~t.lost
    BY <1>5, <2>2, <2>3, <2>4, <2>6
  <2> QED
    BY <1>5, <2>2, <2>4, <2>8, <2>9, ScreenFacts
<1> QED
  BY <1>1, <1>3, <1>5, <1>6, <1>7 DEF Writes, Tidy

LEMMA WritesAfter ==
    ASSUME NEW s \in Screens, NEW u, Writes(s, u), NEW t, Writes(u, t)
    PROVE  Writes(s, t)
<1>1. u.Y < Height
  BY ScreenFacts DEF Writes
<1> QED
  BY <1>1 DEF Writes

\* The spaces of a tab are there, whatever is written before them.
LEMMA SpacesExist ==
    ASSUME NEW s, NEW k \in Nat
    PROVE  \E f : f = [n \in 0 .. k |-> IF n = 0 THEN s ELSE Plain(f[n - 1])]
<1> DEFINE Ok(m) == \E f : f = [n \in 0 .. m |-> IF n = 0 THEN s ELSE Plain(f[n - 1])]
           T == {m \in Nat : Ok(m)}
<1>1. 0 \in T
  <2> DEFINE f == [n \in 0 .. 0 |-> s]
  <2>1. f = [n \in 0 .. 0 |-> IF n = 0 THEN s ELSE Plain(f[n - 1])]
    OBVIOUS
  <2> QED
    BY <2>1
<1>2. ASSUME NEW m \in T PROVE m + 1 \in T
  <2>1. PICK f : f = [n \in 0 .. m |-> IF n = 0 THEN s ELSE Plain(f[n - 1])]
    OBVIOUS
  <2> DEFINE g == [n \in 0 .. (m + 1) |-> IF n = m + 1 THEN Plain(f[m]) ELSE f[n]]
  <2>2. m \in Nat
    OBVIOUS
  <2>3. \A n \in 0 .. m : f[n] = IF n = 0 THEN s ELSE Plain(f[n - 1])
    BY <2>1
  <2>4. ASSUME NEW n \in 0 .. (m + 1) PROVE g[n] = IF n = 0 THEN s ELSE Plain(g[n - 1])
    <3>1. CASE n = m + 1
      <4>1. n - 1 = m /\ m \in 0 .. (m + 1) /\ m # m + 1 /\ n # 0
        BY <2>2, <3>1
      <4>2. g[m] = f[m] /\ g[n] = Plain(f[m])
        BY <3>1, <4>1
      <4> QED
        BY <4>1, <4>2
    <3>2. CASE n \in 0 .. m
      <4>1. g[n] = f[n]
        BY <2>2, <3>2
      <4>2. CASE n = 0
        BY <2>3, <3>2, <4>1, <4>2
      <4>3. CASE n # 0
        <5>1. n - 1 \in 0 .. (m + 1) /\ n - 1 # m + 1
          BY <2>2, <3>2, <4>3
        <5>2. g[n - 1] = f[n - 1]
          BY <5>1
        <5> QED
          BY <2>3, <3>2, <4>1, <4>3, <5>2
      <4> QED
        BY <4>2, <4>3
    <3> QED
      BY <2>2, <3>1, <3>2
  <2>5. g = [n \in 0 .. (m + 1) |-> IF n = 0 THEN s ELSE Plain(g[n - 1])]
    BY <2>4
  <2>6. m + 1 \in Nat
    BY <2>2
  <2> HIDE DEF g
  <2> QED
    BY <2>5, <2>6
<1> HIDE DEF T
<1>3. \A m \in Nat : m \in T
  <2>1. T \in SUBSET Nat
    BY DEF T
  <2> QED
    BY <1>1, <1>2, <2>1, SetInduction
<1> QED
  BY <1>3 DEF T

LEMMA TabStep ==
    ASSUME NEW s \in Screens, s.Y \in 0 .. Height
    PROVE  Writes(s, Tab(s)) /\ (Tab(s).X >= s.X + 1 \/ Tab(s).X >= 0)
<1> DEFINE Is(f) == f = [n \in 0 .. TabWidth |-> IF n = 0 THEN s ELSE Plain(f[n - 1])]
           spaces == CHOOSE f : Is(f)
           Q(t) == Writes(s, t) /\ (t.X >= s.X + 1 \/ t.X >= 0)
           T == {n \in Nat : n + 1 <= TabWidth => Q(spaces[n + 1])}
<1>1. Tab(s) = Bottom(spaces[TabWidth])
  BY Zenon DEF Tab
<1>2. Is(spaces)
  <2>1. \E f : Is(f)
    <3>1. TabWidth \in Nat
      BY ScreenFacts
    <3> QED
      BY <3>1, SpacesExist, Zenon
  <2> HIDE DEF Is
  <2> QED
    BY <2>1
<1>3. /\ spaces[0] = s
      /\ \A n \in 1 .. TabWidth : spaces[n] = Plain(spaces[n - 1])
  <2> HIDE DEF spaces
  <2>1. \A n \in 0 .. TabWidth : spaces[n] = IF n = 0 THEN s ELSE Plain(spaces[n - 1])
    BY <1>2
  <2> QED
    BY <2>1, ScreenFacts
<1> HIDE DEF spaces, Is
<1>4. s.X \in Int
  BY DEF Screens
<1>5. 0 \in T
  <2>1. spaces[1] = Plain(spaces[1 - 1])
    BY <1>3, ScreenFacts
  <2>2. spaces[1] = Plain(s)
    BY <1>3, <2>1
  <2>3. Q(spaces[1])
    BY <1>4, <2>2, PlainStep
  <2> HIDE DEF Q
  <2> QED
    BY <2>3
<1>6. ASSUME NEW n \in T PROVE n + 1 \in T
  <2> SUFFICES ASSUME n \in Nat, n + 2 <= TabWidth PROVE Q(spaces[n + 2])
    <3> HIDE DEF Q
    <3>1. n \in Nat /\ (n + 1) + 1 = n + 2
      OBVIOUS
    <3> QED
      BY <3>1
  <2> DEFINE u == spaces[n + 1]
             t == spaces[n + 2]
  <2>1. Q(u)
    <3> HIDE DEF Q
    <3>1. n + 1 <= TabWidth
      BY ScreenFacts
    <3> QED
      BY <3>1
  <2>2. t = Plain(u)
    <3>1. n + 2 \in 1 .. TabWidth /\ (n + 2) - 1 = n + 1
      BY ScreenFacts
    <3> QED
      BY <1>3, <3>1
  <2> HIDE DEF u, t
  <2>3. u \in Screens /\ u.Y \in 0 .. Height /\ u.X \in Int
    BY <2>1, ScreenFacts DEF Writes, Screens
  <2>4. Writes(u, t) /\ (t.X = u.X + 1 \/ t.X = 0)
    BY <2>2, <2>3, PlainStep
  <2>5. Writes(s, t)
    BY <2>1, <2>4, WritesAfter
  <2>6. Q(t)
    BY <1>4, <2>1, <2>3, <2>4, <2>5
  <2> QED
    BY <2>6 DEF t
<1>7. \A n \in Nat : n \in T
  <2>1. T \in SUBSET Nat
    OBVIOUS
  <2> HIDE DEF T
  <2> QED
    BY <1>5, <1>6, <2>1, SetInduction
<1>8. Q(spaces[TabWidth])
  <2>1. TabWidth - 1 \in T /\ (TabWidth - 1) + 1 = TabWidth
    <3> HIDE DEF T
    <3> QED
      BY <1>7, ScreenFacts
  <2> HIDE DEF Q
  <2> QED
    BY <2>1, ScreenFacts
<1>9. Bottom(spaces[TabWidth]) = spaces[TabWidth]
  <2>1. spaces[TabWidth] \in Screens /\ spaces[TabWidth].Y < Height
    BY <1>8, ScreenFacts DEF Writes
  <2> QED
    BY <2>1, BottomStep
<1> QED
  BY <1>1, <1>8, <1>9

LEMMA LineEndStep ==
    ASSUME NEW s \in Screens, s.Y \in 0 .. Height
    PROVE  Writes(s, Bottom(NewLine(s))) /\ Bottom(NewLine(s)).X = 0
<1> DEFINE u == NewLine(s)
           t == Bottom(u)
<1>1. /\ u \in Screens /\ u.X = 0 /\ u.mishaps = s.mishaps /\ u.lost = s.lost
      /\ s.Y < Height => u.Y = s.Y + 1 /\ u.ink = s.ink
      /\ s.Y >= Height => u.Y = s.Y - 1 /\ u.ink = CopyUp(s.ink)
  BY NewLineStep
<1> HIDE DEF u
<1>2. u.Y \in 0 .. Height
  BY <1>1, ScreenFacts
<1>3. /\ t \in Screens /\ t.X = 0 /\ t.mishaps = u.mishaps /\ t.lost = u.lost
      /\ u.Y < Height => t.Y = u.Y /\ t.ink = u.ink
      /\ u.Y >= Height => t.Y = u.Y - 1 /\ t.ink = CopyUp(u.ink)
  <2>1. CASE u.Y < Height
    BY <1>1, <1>2, <2>1, BottomStep, ScreenFacts
  <2>2. CASE u.Y >= Height
    BY <1>1, <1>2, <2>2, BottomStep, ScrollStep, ScreenFacts
  <2> QED
    BY <1>2, <2>1, <2>2, ScreenFacts
<1> HIDE DEF t
<1>4. t.Y \in 0 .. Height - 1 /\ (s.Y >= Height - 1 => t.Y >= Height - 1)
  BY <1>1, <1>2, <1>3, ScreenFacts
<1>5. ASSUME s.Y < Height, Tidy(s), t.mishaps = {}
      PROVE  ~t.lost /\ t.X \in 0 .. Width /\ \A d \in t.ink : d < Cell(t)
  <2>1. ~s.lost /\ s.X \in 0 .. Width /\ \A d \in s.ink : d \in Int /\ d < s.Y * Width + s.X
    BY <1>1, <1>3, <1>5 DEF Tidy, Cell, Screens, OnScreen
  <2>2. (s.Y + 1) * Width = s.Y * Width + Width /\ s.Y * Width \in Int
    BY ScreenFacts
  <2>3. \A d \in s.ink : d < (s.Y + 1) * Width
    BY <2>1, <2>2, ScreenFacts
  <2>4. CASE u.Y < Height
    <3>1. Cell(t) = (s.Y + 1) * Width /\ t.ink = s.ink
      BY <1>1, <1>3, <1>5, <2>2, <2>4, ScreenFacts DEF Cell
    <3> QED
      BY <1>1, <1>3, <2>1, <2>3, <3>1, ScreenFacts
  <2>5. CASE u.Y >= Height
    <3>1. Cell(t) = s.Y * Width /\ t.ink = CopyUp(s.ink)
      BY <1>1, <1>3, <1>5, <2>2, <2>5, ScreenFacts DEF Cell
    <3>2. \A d \in t.ink : d < Cell(t)
      BY <2>1, <2>2, <2>3, <3>1, ScreenFacts DEF CopyUp
    <3> QED
      BY <1>1, <1>3, <2>1, <3>2, ScreenFacts
  <2> QED
    BY <1>2, <2>4, <2>5, ScreenFacts
<1> QED
  BY <1>1, <1>3, <1>4, <1>5, ScreenFacts DEF Writes, Tidy, t, u

LEMMA RubOutStep ==
    ASSUME NEW s \in Screens, s.Y \in 0 .. Height
    PROVE  Writes(s, RubOut(s)) /\ (RubOut(s).X = s.X - 1 \/ RubOut(s).X = -1)
<1> DEFINE a == Happens(Back(s), "crossed", s.X <= 0)
           ink == a.ink \ {Cell(a)}
           b == [a EXCEPT !.ink = ink]
           c == Advance(b)
           d == Bottom(Broken(c))
           e == Back(d)
<1>0. s.X \in Int
  BY DEF Screens
<1>1. RubOut(s) = Bottom(e)
  BY DEF RubOut, Blank
<1>2. /\ a \in Screens /\ a.X = s.X - 1 /\ a.Y = s.Y /\ a.ink = s.ink /\ a.lost = s.lost
      /\ s.mishaps \subseteq a.mishaps /\ (s.X <= 0 => "crossed" \in a.mishaps)
  <2> DEFINE p == Back(s)
  <2>1. /\ p \in Screens /\ p.X = s.X - 1 /\ p.Y = s.Y /\ p.ink = s.ink /\ p.lost = s.lost
        /\ p.mishaps = s.mishaps
    BY BackStep
  <2> HIDE DEF p
  <2>2. LET t == Happens(p, "crossed", s.X <= 0)
        IN  /\ t \in Screens /\ t.X = p.X /\ t.Y = p.Y /\ t.ink = p.ink /\ t.lost = p.lost
            /\ p.mishaps \subseteq t.mishaps /\ (s.X <= 0 => "crossed" \in t.mishaps)
    BY <2>1, HappensStep DEF Mishaps
  <2> QED
    BY <2>1, <2>2 DEF p
<1> HIDE DEF a
<1>3. ink \in SUBSET OnScreen
  BY <1>2 DEF Screens
<1>4. Cell(a) = s.Y * Width + s.X - 1 /\ s.Y * Width \in Int
  BY <1>0, <1>2, ScreenFacts DEF Cell
<1> HIDE DEF ink
<1>5. /\ b \in Screens /\ b.X = s.X - 1 /\ b.Y = s.Y /\ b.mishaps = a.mishaps
      /\ b.lost = s.lost /\ b.ink = ink
  BY <1>2, <1>3 DEF Screens
<1> HIDE DEF b
<1>6. /\ c \in Screens /\ c.X = s.X /\ c.Y = s.Y /\ c.mishaps = a.mishaps
      /\ c.lost = s.lost /\ c.ink = ink
  <2>1. (s.X - 1) + 1 = s.X
    BY <1>0
  <2> QED
    BY <1>5, <2>1, AdvanceStep
<1> HIDE DEF c
<1>7. /\ d \in Screens /\ d.mishaps = a.mishaps /\ d.lost = s.lost
      /\ d.Y \in 0 .. Height - 1 /\ (s.Y >= Height - 1 => d.Y >= Height - 1)
      /\ d.X <= Width /\ (d.X = s.X \/ d.X = 0)
      /\ (s.X <= Width /\ s.Y < Height) => d = c
  BY <1>6, SettleStep
<1> HIDE DEF d
<1>8. /\ e \in Screens /\ e.mishaps = a.mishaps /\ e.lost = s.lost /\ e.Y = d.Y
      /\ e.X = d.X - 1 /\ e.ink = d.ink
  BY <1>7, BackStep
<1> HIDE DEF e
<1>9. Bottom(e) = e
  <2>1. e.Y < Height
    BY <1>7, <1>8, ScreenFacts
  <2> QED
    BY <1>8, <2>1, BottomStep
<1>10. e.X <= Width /\ (e.X = s.X - 1 \/ e.X = -1)
  BY <1>0, <1>7, <1>8, ScreenFacts
<1>11. ASSUME s.Y < Height, Tidy(s), e.mishaps = {}
       PROVE  ~e.lost /\ e.X \in 0 .. Width /\ \A f \in e.ink : f < Cell(e)
  <2>1. s.mishaps = {} /\ ~(s.X <= 0)
    BY <1>2, <1>8, <1>11
  <2>2. s.X \in 1 .. Width /\ ~s.lost /\ \A f \in s.ink : f \in Int /\ f < s.Y * Width + s.X
    BY <1>11, <2>1, ScreenFacts DEF Tidy, Cell, Screens, OnScreen
  <2>3. d = c
    BY <1>7, <1>11, <2>2, ScreenFacts
  <2>4. e.X = s.X - 1 /\ e.Y = s.Y /\ e.ink = ink
    BY <1>6, <1>8, <2>3
  <2>5. Cell(e) = s.Y * Width + s.X - 1
    BY <1>4, <2>2, <2>4, ScreenFacts DEF Cell
  <2>6. \A f \in ink : f \in s.ink /\ f # Cell(a)
    BY <1>2 DEF ink
  <2>7. \A f \in e.ink : f < Cell(e)
    BY <1>4, <2>2, <2>4, <2>5, <2>6, ScreenFacts
  <2> QED
    BY <1>8, <2>2, <2>4, <2>7, ScreenFacts
<1> QED
  BY <1>1, <1>2, <1>7, <1>8, <1>9, <1>10, <1>11 DEF Writes, Tidy

-----------------------------------------------------------------------------
(* The invariant.                                                          *)

TypeOK ==
    /\ screen \in Screens
    /\ typed \in 0 .. SIZE
    /\ pc \in {"idle", "index", "index_x", "store", "load", "bump", "edge", "line", "down", "go_down",
               "line_home", "bottom", "copy", "home", "load_up", "go_up"}
    /\ local \in Int

\* The line behind the screen is reached in NewLine only.  An echo in the middle
\* of ScrollScreen, which takes the position back to the last line, leaves it
\* there: the thread's own step back is then one too many.
LinesKept ==
    /\ screen.Y \in 0 .. Height
    /\ pc \notin {"line_home", "bottom", "copy", "home", "load_up", "go_up"} => screen.Y < Height
    /\ pc = "go_down" => local \in 0 .. Height - 1
    /\ pc \in {"copy", "home", "load_up", "go_up"} => screen.Y >= Height - 1
    /\ pc = "go_up" => local \in {Height - 1, Height}

\* Only the thread's column may be Width + 1, until its Edge is past.
ColumnsKept ==
    "raced" \notin screen.mishaps =>
        /\ screen.X \in (typed - SIZE) .. (Width + 1)
        /\ pc \notin {"edge", "line", "down", "go_down", "line_home", "copy", "home"}
              => screen.X <= Width
        /\ pc = "bump" => local = screen.X

Below(cell) == \A c \in screen.ink : c < cell

\* Without a mishap all that is written stands before the position, up to the
\* thread's own steps.
InkKept ==
    screen.mishaps = {} =>
        /\ ~screen.lost
        /\ screen.X \in 0 .. Width
        /\ pc \in {"idle", "index", "index_x", "store", "line", "down", "go_down", "edge", "bottom"}
              => Below(Cell(screen))
        /\ pc = "store" => local = Cell(screen) /\ screen.X < Width
        /\ pc \in {"load", "bump"} => screen.X < Width /\ Below(Cell(screen) + 1)
        /\ pc = "go_down" => local = screen.Y
        /\ pc = "line_home" => Below(screen.Y * Width)
        /\ pc \in {"copy", "home", "load_up", "go_up"} => screen.Y = Height
        /\ pc \in {"home", "load_up", "go_up"} => Below((Height - 1) * Width)
        /\ pc \in {"load_up", "go_up"} => screen.X = 0
        /\ pc = "go_up" => local = Height

IInv == TypeOK /\ LinesKept /\ ColumnsKept /\ InkKept

LEMMA InitIInv == Init => IInv
<1> SUFFICES ASSUME Init PROVE IInv
  OBVIOUS
<1>1. TypeOK
  BY ScreenFacts DEF Init, TypeOK, Screens
<1>2. LinesKept
  BY ScreenFacts DEF Init, LinesKept
<1>3. ColumnsKept
  BY ScreenFacts DEF Init, ColumnsKept
<1>4. InkKept
  BY ScreenFacts DEF Init, InkKept, Below
<1> QED
  BY <1>1, <1>2, <1>3, <1>4 DEF IInv

\* An echo, wherever the thread is.
LEMMA EchoIInv ==
    ASSUME IInv, Writes(Happens(screen, "raced", Critical), screen'), typed' \in 0 .. SIZE,
           UNCHANGED <<pc, local>>,
           "raced" \notin screen.mishaps => screen'.X >= typed' - SIZE
    PROVE  IInv'
<1> DEFINE s == Happens(screen, "raced", Critical)
<1>1. /\ s \in Screens /\ s.X = screen.X /\ s.Y = screen.Y /\ s.ink = screen.ink
      /\ s.lost = screen.lost /\ screen.mishaps \subseteq s.mishaps
      /\ (Critical => "raced" \in s.mishaps)
  BY HappensStep DEF IInv, TypeOK, Mishaps
<1> HIDE DEF s
<1>2. Writes(s, screen')
  BY DEF s
<1>3. screen' \in Screens /\ screen'.X \in Int
  BY <1>2 DEF Writes, Screens
<1>4. TypeOK'
  BY <1>3 DEF IInv, TypeOK
<1>5. LinesKept'
  BY <1>1, <1>2, ScreenFacts DEF Writes, IInv, LinesKept
<1>6. ColumnsKept'
  <2> SUFFICES ASSUME "raced" \notin screen'.mishaps
               PROVE  /\ screen'.X \in (typed' - SIZE) .. (Width + 1)
                      /\ screen'.X <= Width /\ pc # "bump"
    BY DEF ColumnsKept
  <2>1. ~Critical /\ "raced" \notin screen.mishaps
    BY <1>1, <1>2 DEF Writes
  <2>2. screen'.X <= Width
    BY <1>2 DEF Writes
  <2> QED
    BY <1>3, <2>1, <2>2, ScreenFacts DEF Critical
<1>7. InkKept'
  <2>1. ASSUME screen'.mishaps = {}
        PROVE  /\ pc \in {"idle", "index", "index_x", "line", "down", "edge", "bottom"}
               /\ Tidy(s) /\ screen.Y < Height
    <3>1. ~Critical /\ screen.mishaps = {}
      BY <1>1, <1>2, <2>1 DEF Writes
    <3>2. pc \in {"idle", "index", "index_x", "line", "down", "edge", "bottom"} /\ screen.Y < Height
      BY <3>1, ScreenFacts DEF Critical, IInv, TypeOK, LinesKept, InkKept
    <3>3. Cell(s) = Cell(screen)
      BY <1>1 DEF Cell
    <3> QED
      BY <1>1, <3>1, <3>2, <3>3 DEF IInv, InkKept, Tidy, Below
  <2>2. ASSUME screen'.mishaps = {}
        PROVE  ~screen'.lost /\ screen'.X \in 0 .. Width /\ \A c \in screen'.ink : c < Cell(screen')
    BY <1>1, <1>2, <2>1, <2>2 DEF Writes, Tidy
  <2>3. Cell(screen)' = Cell(screen')
    BY DEF Cell
  <2> QED
    BY <2>1, <2>2, <2>3 DEF InkKept, Below
<1> QED
  BY <1>4, <1>5, <1>6, <1>7 DEF IInv

LEMMA EchoCharIInv ==
    ASSUME IInv, EchoChar
    PROVE  IInv'
<1> DEFINE s == Happens(screen, "raced", Critical)
<1>1. /\ s \in Screens /\ s.X = screen.X /\ s.Y = screen.Y
      /\ screen.X \in Int /\ screen.Y \in 0 .. Height
  BY HappensStep DEF IInv, TypeOK, LinesKept, Mishaps, Screens
<1>2. screen' \in {Plain(s), Tab(s), Bottom(NewLine(s))}
  BY DEF EchoChar
<1>3. typed' = (IF typed = SIZE THEN 1 ELSE typed + 1) /\ typed \in 0 .. SIZE
      /\ UNCHANGED <<pc, local>>
  BY DEF EchoChar, IInv, TypeOK
<1> HIDE DEF s
<1>4. Writes(s, screen') /\ (screen'.X >= s.X + 1 \/ screen'.X >= 0)
  <2>1. CASE screen' = Plain(s)
    <3>1. Writes(s, Plain(s)) /\ (Plain(s).X = s.X + 1 \/ Plain(s).X = 0)
      BY <1>1, PlainStep
    <3> QED
      BY <1>1, <2>1, <3>1
  <2>2. CASE screen' = Tab(s)
    BY <1>1, <2>2, TabStep
  <2>3. CASE screen' = Bottom(NewLine(s))
    BY <1>1, <2>3, LineEndStep
  <2> QED
    BY <1>2, <2>1, <2>2, <2>3
<1>5. typed' \in 0 .. SIZE
  BY <1>3, ScreenFacts
<1>6. ASSUME "raced" \notin screen.mishaps PROVE screen'.X >= typed' - SIZE
  <2>1. screen.X \in (typed - SIZE) .. (Width + 1)
    BY <1>6 DEF IInv, ColumnsKept
  <2>2. screen'.X \in Int
    BY <1>4 DEF Writes, Screens
  <2> QED
    BY <1>1, <1>3, <1>4, <1>5, <2>1, <2>2, ScreenFacts
<1> QED
  BY <1>3, <1>4, <1>5, <1>6, EchoIInv DEF s

LEMMA EchoRubOutIInv ==
    ASSUME IInv, EchoRubOut
    PROVE  IInv'
<1> DEFINE s == Happens(screen, "raced", Critical)
<1>1. /\ s \in Screens /\ s.X = screen.X /\ s.Y = screen.Y
      /\ screen.X \in Int /\ screen.Y \in 0 .. Height
  BY HappensStep DEF IInv, TypeOK, LinesKept, Mishaps, Screens
<1>2. screen' = RubOut(s) /\ typed' = typed - 1 /\ typed \in 1 .. SIZE /\ UNCHANGED <<pc, local>>
  BY DEF EchoRubOut, IInv, TypeOK
<1> HIDE DEF s
<1>3. Writes(s, screen') /\ (screen'.X = s.X - 1 \/ screen'.X = -1)
  BY <1>1, <1>2, RubOutStep
<1>4. ASSUME "raced" \notin screen.mishaps PROVE screen'.X >= typed' - SIZE
  <2>1. screen.X \in (typed - SIZE) .. (Width + 1)
    BY <1>4 DEF IInv, ColumnsKept
  <2> QED
    BY <1>1, <1>2, <1>3, <2>1, ScreenFacts
<1>5. typed' \in 0 .. SIZE
  BY <1>2, ScreenFacts
<1> QED
  BY <1>2, <1>3, <1>4, <1>5, EchoIInv DEF s

-----------------------------------------------------------------------------
(* The thread's accesses.                                                  *)

\* Those that leave the screen alone.
LEMMA LooksIInv ==
    ASSUME IInv,
           \/ KPrintf \/ IndexY \/ LoadX \/ Edge \/ LineTest \/ LoadDown \/ BottomTest \/ LoadUp
           \/ UNCHANGED vars
    PROVE  IInv'
<1>1. UNCHANGED <<screen, typed>>
  BY DEF KPrintf, IndexY, LoadX, Edge, LineTest, LoadDown, BottomTest, LoadUp, vars
<1>2. screen.X \in Int /\ screen.Y \in Int
  BY DEF IInv, TypeOK, Screens
<1>3. TypeOK'
  BY <1>1, <1>2 DEF KPrintf, IndexY, LoadX, Edge, LineTest, LoadDown, BottomTest, LoadUp, vars,
     At, Go, IInv, TypeOK
<1>4. LinesKept'
  BY <1>1, <1>2, ScreenFacts DEF KPrintf, IndexY, LoadX, Edge, LineTest, LoadDown, BottomTest, LoadUp, vars,
     At, Go, IInv, LinesKept, MayGoDown
<1>5. ColumnsKept'
  BY <1>1, <1>2, ScreenFacts DEF KPrintf, IndexY, LoadX, Edge, LineTest, LoadDown, BottomTest, LoadUp, vars,
     At, Go, IInv, ColumnsKept
<1>6. Cell(screen)' = Cell(screen) /\ \A c : Below(c)' <=> Below(c)
  BY <1>1 DEF Cell, Below
<1>7. InkKept'
  <2> SUFFICES ASSUME screen.mishaps = {} PROVE InkKept'
    BY <1>1 DEF InkKept
  <2>1. CASE KPrintf
    BY <1>1, <1>6, <2>1 DEF KPrintf, At, Go, IInv, InkKept
  <2>2. CASE LoadX
    BY <1>1, <1>6, <2>2 DEF LoadX, At, Go, IInv, InkKept
  <2>3. CASE Edge
    BY <1>1, <1>6, <2>3 DEF Edge, At, Go, IInv, InkKept
  <2>4. CASE LineTest
    BY <1>1, <1>2, <1>6, <2>4, ScreenFacts DEF LineTest, At, Go, IInv, InkKept, LinesKept, MayGoDown
  <2>5. CASE LoadDown
    BY <1>1, <1>6, <2>5 DEF LoadDown, At, Go, IInv, InkKept
  <2>6. CASE BottomTest
    BY <1>1, <1>2, <1>6, <2>6, ScreenFacts DEF BottomTest, At, Go, IInv, InkKept, LinesKept
  <2>7. CASE LoadUp
    BY <1>1, <1>6, <2>7 DEF LoadUp, At, Go, IInv, InkKept
  <2>8. CASE IndexY
    BY <1>1, <1>6, <2>8 DEF IndexY, At, Go, IInv, InkKept
  <2>9. CASE UNCHANGED vars
    BY <1>1, <1>6, <2>9 DEF vars, IInv, InkKept
  <2> QED
    BY <2>1, <2>2, <2>3, <2>4, <2>5, <2>6, <2>7, <2>8, <2>9
<1> QED
  BY <1>3, <1>4, <1>5, <1>7 DEF IInv

\* A character is indexed and stored.
LEMMA IndexXIInv ==
    ASSUME IInv, IndexX
    PROVE  IInv'
<1> DEFINE s == AtColumn(screen)
<1>1. /\ pc = "index_x" /\ pc' = "store" /\ local' = local * Width + screen.X /\ typed' = typed
      /\ screen' = Happens(s, "raced", local # screen.Y)
  BY DEF IndexX, At, Go
<1>2. /\ s \in Screens /\ s.X = screen.X /\ s.Y = screen.Y
      /\ s.ink = screen.ink /\ s.lost = screen.lost
      /\ screen.mishaps \subseteq s.mishaps
      /\ s.mishaps = {} => screen.X # Width /\ ~(screen.X < 0)
  BY AtColumnStep DEF IInv, TypeOK
<1> HIDE DEF s
<1>3. /\ screen' \in Screens /\ screen'.X = screen.X /\ screen'.Y = screen.Y
      /\ screen'.ink = screen.ink /\ screen'.lost = screen.lost
      /\ s.mishaps \subseteq screen'.mishaps
      /\ local # screen.Y => "raced" \in screen'.mishaps
  <2>1. LET t == Happens(s, "raced", local # screen.Y)
        IN  /\ t \in Screens /\ t.X = s.X /\ t.Y = s.Y /\ t.ink = s.ink /\ t.lost = s.lost
            /\ s.mishaps \subseteq t.mishaps /\ (local # screen.Y => "raced" \in t.mishaps)
    BY <1>2, HappensStep DEF Mishaps
  <2> QED
    BY <1>1, <1>2, <2>1
<1>4. screen.X \in Int /\ screen.Y \in Int /\ local \in Int /\ local * Width + screen.X \in Int
  BY ScreenFacts DEF Screens, IInv, TypeOK
<1>5. Cell(screen)' = Cell(screen) /\ Cell(screen) = screen.Y * Width + screen.X
  BY <1>3 DEF Cell
<1>6. TypeOK'
  BY <1>1, <1>3, <1>4 DEF IInv, TypeOK
<1>7. LinesKept'
  BY <1>1, <1>3 DEF IInv, LinesKept
<1>8. ColumnsKept'
  BY <1>1, <1>2, <1>3 DEF IInv, ColumnsKept
<1>9. InkKept'
  <2> SUFFICES ASSUME screen'.mishaps = {} PROVE InkKept'
    BY DEF InkKept
  <2>1. screen.mishaps = {} /\ screen.X # Width /\ local = screen.Y
    BY <1>2, <1>3
  <2>2. screen.X < Width /\ screen.X \in 0 .. Width /\ ~screen.lost /\ Below(Cell(screen))
    BY <1>1, <1>4, <2>1, ScreenFacts DEF IInv, InkKept
  <2>3. local' = Cell(screen)
    BY <1>1, <1>5, <2>1
  <2> QED
    BY <1>1, <1>3, <1>5, <2>2, <2>3 DEF InkKept, Below
<1> QED
  BY <1>6, <1>7, <1>8, <1>9 DEF IInv

LEMMA StoreCharIInv ==
    ASSUME IInv, StoreChar
    PROVE  IInv'
<1>1. /\ pc = "store" /\ pc' = "load" /\ local' = local /\ typed' = typed
      /\ screen' = Store(screen, local)
  BY DEF StoreChar, At, Go
<1>2. /\ screen' \in Screens /\ screen'.X = screen.X /\ screen'.Y = screen.Y
      /\ screen'.mishaps = screen.mishaps
      /\ screen'.ink = screen.ink \cup ({local} \cap OnScreen)
      /\ (~screen.lost /\ local \notin screen.ink /\ local \in OnScreen) => ~screen'.lost
  BY <1>1, StoreStep DEF IInv, TypeOK
<1>3. Cell(screen)' = Cell(screen) /\ Cell(screen) \in Int
  BY <1>2, ScreenFacts DEF Cell, Screens, IInv, TypeOK
<1>4. TypeOK'
  BY <1>1, <1>2 DEF IInv, TypeOK
<1>5. LinesKept'
  BY <1>1, <1>2 DEF IInv, LinesKept
<1>6. ColumnsKept'
  BY <1>1, <1>2 DEF IInv, ColumnsKept
<1>7. InkKept'
  <2> SUFFICES ASSUME screen.mishaps = {} PROVE InkKept'
    BY <1>2 DEF InkKept
  <2>1. /\ ~screen.lost /\ screen.X \in 0 .. Width - 1 /\ local = Cell(screen)
        /\ \A c \in screen.ink : c < Cell(screen) /\ c \in Int
    BY <1>1, ScreenFacts DEF IInv, TypeOK, InkKept, Below, Screens, OnScreen
  <2>2. local \in OnScreen
    <3>1. screen.Y \in 0 .. Height - 1
      BY <1>1, ScreenFacts DEF IInv, LinesKept
    <3> QED
      BY <2>1, <3>1, CellOnScreen DEF Cell
  <2>3. local \notin screen.ink
    BY <1>3, <2>1
  <2>4. \A c \in screen'.ink : c < Cell(screen) + 1
    BY <1>2, <1>3, <2>1
  <2>5. ~screen'.lost
    BY <1>2, <2>1, <2>2, <2>3
  <2> QED
    BY <1>1, <1>2, <1>3, <2>1, <2>4, <2>5, ScreenFacts DEF InkKept, Below
<1> QED
  BY <1>4, <1>5, <1>6, <1>7 DEF IInv

\* PositionX and PositionY, where the thread stores one of them.
LEMMA SetXStep ==
    ASSUME NEW s \in Screens, NEW x \in Int
    PROVE  LET t == [s EXCEPT !.X = x]
           IN  /\ t \in Screens /\ t.X = x /\ t.Y = s.Y
               /\ t.mishaps = s.mishaps /\ t.ink = s.ink /\ t.lost = s.lost
  BY DEF Screens

LEMMA SetYStep ==
    ASSUME NEW s \in Screens, NEW y \in Int
    PROVE  LET t == [s EXCEPT !.Y = y]
           IN  /\ t \in Screens /\ t.X = s.X /\ t.Y = y
               /\ t.mishaps = s.mishaps /\ t.ink = s.ink /\ t.lost = s.lost
  BY DEF Screens

LEMMA StoreXIInv ==
    ASSUME IInv, StoreX
    PROVE  IInv'
<1>1. /\ pc = "bump" /\ pc' = "edge" /\ local' = local /\ typed' = typed
      /\ screen' = [screen EXCEPT !.X = local + 1] /\ local + 1 \in Int
  BY DEF StoreX, At, Go, IInv, TypeOK
<1>2. /\ screen' \in Screens /\ screen'.X = local + 1 /\ screen'.Y = screen.Y
      /\ screen'.mishaps = screen.mishaps /\ screen'.ink = screen.ink /\ screen'.lost = screen.lost
  BY <1>1, SetXStep DEF IInv, TypeOK
<1>3. TypeOK'
  BY <1>1, <1>2 DEF IInv, TypeOK
<1>4. LinesKept'
  BY <1>1, <1>2 DEF IInv, LinesKept
<1>5. ColumnsKept'
  BY <1>1, <1>2, ScreenFacts DEF IInv, TypeOK, ColumnsKept
<1>6. InkKept'
  <2> SUFFICES ASSUME screen.mishaps = {} PROVE InkKept'
    BY <1>2 DEF InkKept
  <2>1. local = screen.X /\ screen.X \in 0 .. Width - 1 /\ ~screen.lost /\ Below(Cell(screen) + 1)
    BY <1>1, ScreenFacts DEF IInv, ColumnsKept, InkKept
  <2>2. Cell(screen)' = Cell(screen) + 1
    BY <1>2, <2>1, ScreenFacts DEF Cell, Screens, IInv, TypeOK
  <2> QED
    BY <1>1, <1>2, <2>1, <2>2, ScreenFacts DEF InkKept, Below
<1> QED
  BY <1>3, <1>4, <1>5, <1>6 DEF IInv

\* PositionY++, and the first column, in NewLine.
LEMMA StoreDownIInv ==
    ASSUME IInv, StoreDown
    PROVE  IInv'
<1>1. /\ pc = "go_down" /\ pc' = "line_home" /\ local' = local /\ typed' = typed
      /\ screen' = [screen EXCEPT !.Y = local + 1] /\ local + 1 \in Int
  BY DEF StoreDown, At, Go, IInv, TypeOK
<1>2. /\ screen' \in Screens /\ screen'.X = screen.X /\ screen'.Y = local + 1
      /\ screen'.mishaps = screen.mishaps /\ screen'.ink = screen.ink /\ screen'.lost = screen.lost
  BY <1>1, SetYStep DEF IInv, TypeOK
<1>3. TypeOK'
  BY <1>1, <1>2 DEF IInv, TypeOK
<1>4. LinesKept'
  BY <1>1, <1>2, ScreenFacts DEF IInv, LinesKept
<1>5. ColumnsKept'
  BY <1>1, <1>2 DEF IInv, ColumnsKept
<1>6. InkKept'
  <2> SUFFICES ASSUME screen.mishaps = {} PROVE InkKept'
    BY <1>2 DEF InkKept
  <2>1. local = screen.Y /\ screen.X \in 0 .. Width /\ ~screen.lost /\ Below(Cell(screen))
    BY <1>1 DEF IInv, InkKept
  <2>2. /\ screen.Y * Width \in Int /\ (screen.Y + 1) * Width = screen.Y * Width + Width
        /\ \A c \in screen.ink : c \in Int
    BY ScreenFacts DEF IInv, TypeOK, Screens, OnScreen
  <2>3. \A c \in screen.ink : c < (screen.Y + 1) * Width
    BY <2>1, <2>2, ScreenFacts DEF Below, Cell
  <2>4. Below(screen.Y * Width)'
    BY <1>2, <2>1, <2>3 DEF Below
  <2> QED
    BY <1>1, <1>2, <2>1, <2>4 DEF InkKept
<1> QED
  BY <1>3, <1>4, <1>5, <1>6 DEF IInv

LEMMA LineHomeIInv ==
    ASSUME IInv, LineHome
    PROVE  IInv'
<1>1. /\ pc = "line_home" /\ pc' = "bottom" /\ local' = local /\ typed' = typed
      /\ screen' = [screen EXCEPT !.X = 0]
  BY DEF LineHome, At, Go
<1>2. /\ screen' \in Screens /\ screen'.X = 0 /\ screen'.Y = screen.Y
      /\ screen'.mishaps = screen.mishaps /\ screen'.ink = screen.ink /\ screen'.lost = screen.lost
  BY <1>1, SetXStep DEF IInv, TypeOK
<1>3. TypeOK'
  BY <1>1, <1>2 DEF IInv, TypeOK
<1>4. LinesKept'
  BY <1>1, <1>2 DEF IInv, LinesKept
<1>5. ColumnsKept'
  BY <1>1, <1>2, ScreenFacts DEF IInv, TypeOK, ColumnsKept
<1>6. InkKept'
  <2> SUFFICES ASSUME screen.mishaps = {} PROVE InkKept'
    BY <1>2 DEF InkKept
  <2>1. ~screen.lost /\ Below(screen.Y * Width)
    BY <1>1 DEF IInv, InkKept
  <2>2. Cell(screen)' = screen.Y * Width
    BY <1>2, ScreenFacts DEF Cell, IInv, TypeOK, Screens
  <2> QED
    BY <1>1, <1>2, <2>1, <2>2, ScreenFacts DEF InkKept, Below
<1> QED
  BY <1>3, <1>4, <1>5, <1>6 DEF IInv

\* memcpy and memset, the first column, and PositionY--, in ScrollScreen.
LEMMA CopyIInv ==
    ASSUME IInv, Copy
    PROVE  IInv'
<1> DEFINE ink == CopyUp(screen.ink)
<1>1. /\ pc = "copy" /\ pc' = "home" /\ local' = local /\ typed' = typed
      /\ screen' = [screen EXCEPT !.ink = ink]
  BY DEF Copy, At, Go
<1>2. ink \in SUBSET OnScreen /\ \A c \in ink : c < (Height - 1) * Width
  <2>1. Width * Height \in Int /\ (Height - 1) * Width = Width * Height - Width
    BY ScreenFacts
  <2>2. \A c \in screen.ink : c \in Int /\ c < Width * Height
    BY <2>1 DEF IInv, TypeOK, Screens, OnScreen
  <2>3. \A c \in ink : c \in OnScreen /\ \E d \in screen.ink : c = d - Width
    BY DEF CopyUp
  <2> QED
    BY <2>1, <2>2, <2>3, ScreenFacts
<1> HIDE DEF ink
<1>3. /\ screen' \in Screens /\ screen'.X = screen.X /\ screen'.Y = screen.Y
      /\ screen'.mishaps = screen.mishaps /\ screen'.ink = ink /\ screen'.lost = screen.lost
  BY <1>1, <1>2 DEF IInv, TypeOK, Screens
<1>4. TypeOK'
  BY <1>1, <1>3 DEF IInv, TypeOK
<1>5. LinesKept'
  BY <1>1, <1>3 DEF IInv, LinesKept
<1>6. ColumnsKept'
  BY <1>1, <1>3 DEF IInv, ColumnsKept
<1>7. InkKept'
  <2>1. Below((Height - 1) * Width)'
    BY <1>2, <1>3 DEF Below
  <2> QED
    BY <1>1, <1>3, <2>1 DEF IInv, InkKept
<1> QED
  BY <1>4, <1>5, <1>6, <1>7 DEF IInv

LEMMA ScrollHomeIInv ==
    ASSUME IInv, ScrollHome
    PROVE  IInv'
<1>1. /\ pc = "home" /\ pc' = "load_up" /\ local' = local /\ typed' = typed
      /\ screen' = [screen EXCEPT !.X = 0]
  BY DEF ScrollHome, At, Go
<1>2. /\ screen' \in Screens /\ screen'.X = 0 /\ screen'.Y = screen.Y
      /\ screen'.mishaps = screen.mishaps /\ screen'.ink = screen.ink /\ screen'.lost = screen.lost
  BY <1>1, SetXStep DEF IInv, TypeOK
<1>3. TypeOK'
  BY <1>1, <1>2 DEF IInv, TypeOK
<1>4. LinesKept'
  BY <1>1, <1>2 DEF IInv, LinesKept
<1>5. ColumnsKept'
  BY <1>1, <1>2, ScreenFacts DEF IInv, TypeOK, ColumnsKept
<1>6. InkKept'
  BY <1>1, <1>2, ScreenFacts DEF IInv, InkKept, Below
<1> QED
  BY <1>3, <1>4, <1>5, <1>6 DEF IInv

LEMMA StoreUpIInv ==
    ASSUME IInv, StoreUp
    PROVE  IInv'
<1>1. /\ pc = "go_up" /\ pc' = "idle" /\ local' = 0 /\ typed' = typed
      /\ screen' = [screen EXCEPT !.Y = local - 1] /\ local - 1 \in Int
  BY DEF StoreUp, At, Go, IInv, TypeOK
<1>2. /\ screen' \in Screens /\ screen'.X = screen.X /\ screen'.Y = local - 1
      /\ screen'.mishaps = screen.mishaps /\ screen'.ink = screen.ink /\ screen'.lost = screen.lost
  BY <1>1, SetYStep DEF IInv, TypeOK
<1>3. TypeOK'
  BY <1>1, <1>2 DEF IInv, TypeOK
<1>4. LinesKept'
  BY <1>1, <1>2, ScreenFacts DEF IInv, LinesKept
<1>5. ColumnsKept'
  BY <1>1, <1>2 DEF IInv, ColumnsKept
<1>6. InkKept'
  <2> SUFFICES ASSUME screen.mishaps = {} PROVE InkKept'
    BY <1>2 DEF InkKept
  <2>1. local = Height /\ screen.X = 0 /\ ~screen.lost /\ Below((Height - 1) * Width)
    BY <1>1 DEF IInv, InkKept
  <2>2. Cell(screen)' = (Height - 1) * Width
    BY <1>2, <2>1, ScreenFacts DEF Cell
  <2> QED
    BY <1>1, <1>2, <2>1, <2>2, ScreenFacts DEF InkKept, Below
<1> QED
  BY <1>3, <1>4, <1>5, <1>6 DEF IInv

-----------------------------------------------------------------------------
(* The theorems.                                                           *)

\* What is known of the position and of what is written, at each access of the
\* thread, survives that access and every echo that interrupts the thread there:
\* WriteChar, NewLine and ScrollScreen, run by both sides at a time.
THEOREM Inductive == Spec => []IInv
<1>1. ASSUME IInv, [Next]_vars PROVE IInv'
  <2>1. CASE EchoChar
    BY <1>1, <2>1, EchoCharIInv
  <2>2. CASE EchoRubOut
    BY <1>1, <2>2, EchoRubOutIInv
  <2>3. CASE KPrintf
    BY <1>1, <2>3, LooksIInv
  <2>4. CASE WriteChar
    <3>1. CASE IndexX
      BY <1>1, <3>1, IndexXIInv
    <3>2. CASE StoreChar
      BY <1>1, <3>2, StoreCharIInv
    <3>3. CASE IndexY \/ LoadX \/ Edge \/ LineTest \/ LoadDown \/ BottomTest \/ LoadUp
      BY <1>1, <3>3, LooksIInv
    <3>4. CASE StoreX
      BY <1>1, <3>4, StoreXIInv
    <3>5. CASE StoreDown
      BY <1>1, <3>5, StoreDownIInv
    <3>6. CASE LineHome
      BY <1>1, <3>6, LineHomeIInv
    <3>7. CASE Copy
      BY <1>1, <3>7, CopyIInv
    <3>8. CASE ScrollHome
      BY <1>1, <3>8, ScrollHomeIInv
    <3>9. CASE StoreUp
      BY <1>1, <3>9, StoreUpIInv
    <3> QED
      BY <2>4, <3>1, <3>2, <3>3, <3>4, <3>5, <3>6, <3>7, <3>8, <3>9 DEF WriteChar
  <2>5. CASE UNCHANGED vars
    BY <1>1, <2>5, LooksIInv
  <2> QED
    BY <1>1, <2>1, <2>2, <2>3, <2>4, <2>5 DEF Next
<1> QED
  BY <1>1, InitIInv, PTL DEF Spec

\* PositionY never leaves the lines of the screen but for the one behind them,
\* inside NewLine and ScrollScreen, whatever echoes come between their accesses;
\* and PositionX, as long as no echo came between accesses that belong together,
\* goes no further to the left than the key buffer has characters to take back.
THEOREM PositionStaysInReach == Spec => []PositionInReach
<1>1. IInv => PositionInReach
  <2> SUFFICES ASSUME IInv PROVE PositionInReach
    OBVIOUS
  <2>1. RestsOnScreen
    BY DEF IInv, LinesKept, RestsOnScreen
  <2>2. ColumnsInReach
    BY DEF IInv, ColumnsKept, ColumnsInReach
  <2> QED
    BY <2>1, <2>2 DEF PositionInReach
<1> QED
  BY <1>1, Inductive, PTL

\* Until a character goes to the column behind the last, '\b' crosses the first,
\* or an echo comes between accesses of the thread that belong together, each
\* character WriteChar stores goes to a cell of the screen where none stands.
THEOREM EachCharacterHasItsCell == Spec => []NothingOverwritten
<1>1. IInv => NothingOverwritten
  BY DEF IInv, InkKept, NothingOverwritten
<1> QED
  BY <1>1, Inductive, PTL

=============================================================================
