--------------------------- MODULE KeyboardProofs ---------------------------
(* What holds of the driver's bits for every keyboard, every typist and    *)
(* every number of codes that wait.                                        *)
EXTENDS Keyboard, FiniteSetTheorems, TLAPS

Code == [key : Keys, up : BOOLEAN, case : {0, 1}, twice : BOOLEAN]

\* The case that UpperCase comes to: each shift key turns it over.
ParityCase == (lock + Odd(Shifts \cap down)) % 2

\* The first n codes of c that are in T, and whether they are an odd number.
Places(c, T, n) == {i \in 1 .. n : c[i] \in T}
Parity(c, T, n) == Odd(Places(c, T, n))

-----------------------------------------------------------------------------
(* One more and one less.                                                  *)

\* The sum modulo 2 of two bits.
LEMMA Xor == \A a, b \in {0, 1} : (a + b) % 2 = IF a = b THEN 0 ELSE 1
<1>1. 0 % 2 = 0 /\ 1 % 2 = 1 /\ 2 % 2 = 0
  OBVIOUS
<1> QED
  BY <1>1

\* A code still to come, and what it announces, both turned over.
LEMMA BothTurned ==
    \A a, p, d \in {0, 1} : (a + p) % 2 = d => /\ (a + (1 - p)) % 2 = 1 - d
                                              /\ ((1 - a) + (1 - p)) % 2 = d
  BY Xor

LEMMA OneMore == \A n \in Nat : n % 2 \in {0, 1} /\ (n + 1) % 2 = 1 - (n % 2)
  OBVIOUS

LEMMA OddIsBit ==
    ASSUME NEW S, IsFiniteSet(S)
    PROVE  Odd(S) \in {0, 1}
  BY FS_CardinalityType, OneMore DEF Odd

LEMMA OddOfMore ==
    ASSUME NEW S, IsFiniteSet(S), NEW x, x \notin S
    PROVE  Odd(S \cup {x}) = 1 - Odd(S)
<1>1. Cardinality(S) \in Nat /\ Cardinality(S \cup {x}) = Cardinality(S) + 1
  BY FS_AddElement, FS_CardinalityType
<1> QED
  BY <1>1, OneMore DEF Odd

LEMMA OddOfLess ==
    ASSUME NEW S, IsFiniteSet(S), NEW x \in S
    PROVE  Odd(S \ {x}) = 1 - Odd(S)
<1>1. IsFiniteSet(S \ {x}) /\ x \notin S \ {x} /\ S = (S \ {x}) \cup {x}
  BY FS_RemoveElement
<1>2. Odd(S) = 1 - Odd(S \ {x}) /\ Odd(S \ {x}) \in {0, 1}
  BY <1>1, OddOfMore, OddIsBit
<1> QED
  BY <1>2

LEMMA PlacesAreFinite ==
    ASSUME NEW c, NEW T, NEW n \in Nat
    PROVE  IsFiniteSet(Places(c, T, n))
<1>1. IsFiniteSet(1 .. n)
  BY FS_Interval
<1> QED
  BY <1>1, FS_Subset DEF Places

LEMMA ParityIsBit ==
    ASSUME NEW c, NEW T, NEW n \in Nat
    PROVE  Parity(c, T, n) \in {0, 1}
  BY PlacesAreFinite, OddIsBit DEF Parity

\* A code that comes in.
LEMMA ParityOfAppend ==
    ASSUME NEW S, NEW c \in Seq(S), NEW x \in S, NEW T
    PROVE  /\ \A n \in 0 .. Len(c) : Parity(Append(c, x), T, n) = Parity(c, T, n)
           /\ Parity(Append(c, x), T, Len(c) + 1) =
                IF x \in T THEN 1 - Parity(c, T, Len(c)) ELSE Parity(c, T, Len(c))
<1>1. \A n \in 0 .. Len(c) : Places(Append(c, x), T, n) = Places(c, T, n)
  BY DEF Places
<1>2. ASSUME x \in T
      PROVE  Places(Append(c, x), T, Len(c) + 1) = Places(c, T, Len(c)) \cup {Len(c) + 1}
  BY <1>2 DEF Places
<1>3. ASSUME x \notin T
      PROVE  Places(Append(c, x), T, Len(c) + 1) = Places(c, T, Len(c))
  BY <1>3 DEF Places
<1>4. Len(c) + 1 \notin Places(c, T, Len(c)) /\ IsFiniteSet(Places(c, T, Len(c)))
  <2>1. Len(c) \in Nat /\ Len(c) + 1 \notin Places(c, T, Len(c))
    BY DEF Places
  <2> QED
    BY <2>1, PlacesAreFinite
<1> DEFINE P == Places(c, T, Len(c))
           m == Len(c) + 1
<1>5. m \notin P /\ IsFiniteSet(P)
  BY <1>4
<1> HIDE DEF P, m
<1>6. Odd(P \cup {m}) = 1 - Odd(P)
  BY <1>5, OddOfMore
<1>7. Parity(Append(c, x), T, Len(c) + 1) =
        IF x \in T THEN 1 - Parity(c, T, Len(c)) ELSE Parity(c, T, Len(c))
  BY <1>2, <1>3, <1>6 DEF Parity, P, m
<1> QED
  BY <1>1, <1>7 DEF Parity

\* A set of places moved by one keeps its number.
LEMMA ShiftKeepsOdd ==
    ASSUME NEW S \in SUBSET Nat, IsFiniteSet(S)
    PROVE  Odd({i - 1 : i \in S}) = Odd(S)
<1> DEFINE R == {i - 1 : i \in S}
           f == [i \in S |-> i - 1]
<1>1. f \in Bijection(S, R)
  <2>1. f \in [S -> R] /\ \A i \in S : f[i] = i - 1
    OBVIOUS
  <2>2. \A i, j \in S : f[i] = f[j] => i = j
    BY <2>1
  <2>3. \A r \in R : \E i \in S : f[i] = r
    BY <2>1
  <2> HIDE DEF f, R
  <2> QED
    BY <2>1, <2>2, <2>3 DEF Bijection, Injection, Surjection, IsInjective
<1> HIDE DEF f, R
<1>2. ExistsBijection(S, R)
  BY <1>1 DEF ExistsBijection
<1>3. Cardinality(R) = Cardinality(S)
  BY <1>2, FS_Bijection
<1> QED
  BY <1>3 DEF Odd, R

\* The oldest code taken out.
LEMMA ParityOfTail ==
    ASSUME NEW S, NEW c \in Seq(S), c # << >>, NEW T, NEW n \in 1 .. Len(c)
    PROVE  Parity(Tail(c), T, n - 1) =
             IF Head(c) \in T THEN 1 - Parity(c, T, n) ELSE Parity(c, T, n)
<1> DEFINE P == Places(c, T, n)
<1>1. Places(Tail(c), T, n - 1) = {i - 1 : i \in P \ {1}}
  <2>1. \A i \in 1 .. n - 1 : Tail(c)[i] = c[i + 1]
    OBVIOUS
  <2>2. ASSUME NEW i \in Places(Tail(c), T, n - 1) PROVE i \in {j - 1 : j \in P \ {1}}
    <3>1. i \in 1 .. n - 1 /\ i + 1 \in P \ {1} /\ i = (i + 1) - 1
      BY <2>1, <2>2 DEF Places
    <3> QED
      BY <3>1
  <2>3. ASSUME NEW j \in P \ {1} PROVE j - 1 \in Places(Tail(c), T, n - 1)
    BY <2>1, <2>3 DEF Places
  <2> QED
    BY <2>2, <2>3
<1>2. IsFiniteSet(P) /\ P \in SUBSET Nat /\ IsFiniteSet(P \ {1})
  <2>1. n \in Nat /\ P \in SUBSET Nat
    BY DEF Places
  <2>2. IsFiniteSet(P)
    BY <2>1, PlacesAreFinite
  <2> HIDE DEF P
  <2> QED
    BY <2>1, <2>2, FS_RemoveElement
<1>3. 1 \in P <=> Head(c) \in T
  BY DEF Places
<1> HIDE DEF P
<1>4. Odd(P \ {1}) = IF Head(c) \in T THEN 1 - Odd(P) ELSE Odd(P)
  <2>1. CASE 1 \in P
    BY <1>2, <1>3, <2>1, OddOfLess
  <2>2. CASE 1 \notin P
    <3>1. P \ {1} = P
      BY <2>2
    <3> QED
      BY <1>3, <2>2, <3>1
  <2> QED
    BY <2>1, <2>2
<1>5. Odd({i - 1 : i \in P \ {1}}) = Odd(P \ {1})
  BY <1>2, ShiftKeepsOdd
<1> QED
  BY <1>1, <1>4, <1>5 DEF Parity, P

-----------------------------------------------------------------------------
(* The invariant.                                                          *)

TypeOK ==
    /\ down \subseteq Keys /\ last \subseteq Keys
    /\ lock \in {0, 1}
    /\ codes \in Seq(Code)
    /\ ShiftPressed \in {0, 1} /\ CtrlPressed \in {0, 1}
    /\ AltPressed \in {0, 1} /\ UpperCase \in {0, 1}
    /\ written \in Seq([case : {0, 1}, asked : {0, 1}, twice : BOOLEAN])
    /\ mishaps \subseteq Mishaps

\* The codes of some keys, and those that turn the case over.
Of(S) == {c \in Code : c.key \in S}
Turning == {c \in Code : c.key \in Shifts \/ (c.key \in Caps /\ ~c.up)}

\* InStep as the bits have it: with how many keys are down, not with whether one is.
AllInStep ==
    /\ (ShiftPressed + Parity(codes, Of(Shifts), Len(codes))) % 2 = Odd(Shifts \cap down)
    /\ (CtrlPressed + Parity(codes, Of(Ctrls), Len(codes))) % 2 = Odd(Ctrls \cap down)
    /\ (AltPressed + Parity(codes, Of(Alts), Len(codes))) % 2 = Odd(Alts \cap down)
    /\ (UpperCase + Parity(codes, Turning, Len(codes))) % 2 = ParityCase

\* The case that UpperCase will have when a waiting letter's turn comes is the
\* one that was asked for when its key went down, by one shift key or none.
WaitingAsTyped ==
    \A i \in 1 .. Len(codes) :
        codes[i].key \in Letters /\ ~codes[i].up /\ ~codes[i].twice =>
            (UpperCase + Parity(codes, Turning, i - 1)) % 2 = codes[i].case

IInv ==
    /\ TypeOK
    /\ mishaps = {} => AllInStep /\ WaitingAsTyped
    /\ WrittenAsTyped

LEMMA WaysApart ==
    /\ Shifts \cap Ctrls = {} /\ Shifts \cap Alts = {} /\ Shifts \cap Caps = {} /\ Shifts \cap Letters = {}
    /\ Ctrls \cap Alts = {} /\ Ctrls \cap Caps = {} /\ Ctrls \cap Letters = {}
    /\ Alts \cap Caps = {} /\ Alts \cap Letters = {} /\ Caps \cap Letters = {}
<1> DEFINE way == <<Shifts, Ctrls, Alts, Caps, Letters>>
<1>1. \A i, j \in 1 .. 5 : i # j => way[i] \cap way[j] = {}
  BY KeyboardAssumption
<1>2. way[1] = Shifts /\ way[2] = Ctrls /\ way[3] = Alts /\ way[4] = Caps /\ way[5] = Letters
  OBVIOUS
<1> HIDE DEF way
<1>3. /\ way[1] \cap way[2] = {} /\ way[1] \cap way[3] = {} /\ way[1] \cap way[4] = {}
      /\ way[1] \cap way[5] = {} /\ way[2] \cap way[3] = {} /\ way[2] \cap way[4] = {}
      /\ way[2] \cap way[5] = {} /\ way[3] \cap way[4] = {} /\ way[3] \cap way[5] = {}
      /\ way[4] \cap way[5] = {}
  BY <1>1
<1> QED
  BY <1>2, <1>3

\* The keys that are down, one more or one less.
LEMMA DownIsFinite ==
    ASSUME TypeOK, NEW S
    PROVE  IsFiniteSet(S \cap down) /\ Odd(S \cap down) \in {0, 1}
<1>1. IsFiniteSet(down)
  BY KeyboardAssumption, FS_Subset DEF TypeOK
<1> QED
  BY <1>1, FS_Intersection, OddIsBit

LEMMA OddOfPressed ==
    ASSUME TypeOK, NEW S, NEW key, key \notin down
    PROVE  Odd(S \cap (down \cup {key})) =
             IF key \in S THEN 1 - Odd(S \cap down) ELSE Odd(S \cap down)
<1>1. CASE key \in S
  <2>1. S \cap (down \cup {key}) = (S \cap down) \cup {key} /\ key \notin S \cap down
    BY <1>1
  <2> QED
    BY <1>1, <2>1, DownIsFinite, OddOfMore
<1>2. CASE key \notin S
  <2>1. S \cap (down \cup {key}) = S \cap down
    BY <1>2
  <2> QED
    BY <1>2, <2>1
<1> QED
  BY <1>1, <1>2

LEMMA OddOfReleased ==
    ASSUME TypeOK, NEW S, NEW key \in down
    PROVE  Odd(S \cap (down \ {key})) =
             IF key \in S THEN 1 - Odd(S \cap down) ELSE Odd(S \cap down)
<1>1. CASE key \in S
  <2>1. S \cap (down \ {key}) = (S \cap down) \ {key} /\ key \in S \cap down
    BY <1>1
  <2> QED
    BY <1>1, <2>1, DownIsFinite, OddOfLess
<1>2. CASE key \notin S
  <2>1. S \cap (down \ {key}) = S \cap down
    BY <1>2
  <2> QED
    BY <1>2, <2>1
<1> QED
  BY <1>1, <1>2

LEMMA InitIInv == Init => IInv
<1> SUFFICES ASSUME Init PROVE IInv
  OBVIOUS
<1>1. TypeOK
  BY DEF Init, TypeOK, Modifiers, Keys, Mishaps
<1>2. ASSUME mishaps = {} PROVE AllInStep
  <2>1. down = {} /\ Len(codes) = 0
    BY <1>2 DEF Init
  <2>2. Odd({}) = 0
    BY FS_EmptySet DEF Odd
  <2>3. \A T : Parity(codes, T, Len(codes)) = 0
    BY <2>1, <2>2 DEF Parity, Places
  <2>4. \A S : Odd(S \cap down) = 0
    <3>1. \A S : S \cap down = {}
      BY <2>1
    <3> QED
      BY <2>2, <3>1
  <2> QED
    BY <2>3, <2>4, Xor DEF Init, AllInStep, ParityCase
<1>3. WaitingAsTyped /\ WrittenAsTyped
  BY DEF Init, WaitingAsTyped, WrittenAsTyped
<1> QED
  BY <1>1, <1>2, <1>3 DEF IInv

\* Unless two of the keys are down, the bits say whether one is.
LEMMA OddIsHeld ==
    ASSUME NEW S, ~Together(S)
    PROVE  Odd(S \cap down) = Held(S)
<1>1. CASE S \cap down = {}
  BY <1>1, FS_EmptySet DEF Odd, Held
<1>2. CASE S \cap down # {}
  <2>1. PICK k \in S \cap down : S \cap down = {k}
    BY <1>2 DEF Together
  <2>2. Cardinality({k}) = 1 /\ 1 % 2 = 1
    BY FS_Singleton
  <2> QED
    BY <1>2, <2>1, <2>2 DEF Odd, Held
<1> QED
  BY <1>1, <1>2

LEMMA ParityCaseIsAsked == ~Together(Shifts) => ParityCase = AskedCase
  BY OddIsHeld DEF ParityCase, AskedCase

LEMMA CasesAreBits == TypeOK => AskedCase \in {0, 1} /\ ParityCase \in {0, 1}
<1> SUFFICES ASSUME TypeOK PROVE AskedCase \in {0, 1} /\ ParityCase \in {0, 1}
  OBVIOUS
<1>1. lock \in {0, 1} /\ Odd(Shifts \cap down) \in {0, 1} /\ Held(Shifts) \in {0, 1}
  BY DownIsFinite DEF TypeOK, Held
<1> QED
  BY <1>1, Xor DEF AskedCase, ParityCase

\* A code that goes in behind the others, where nothing is amiss.
Sent(key, up) ==
    [key |-> key, up |-> up, case |-> IF key \in Letters /\ ~up THEN AskedCase ELSE 0,
     twice |-> key \in Letters /\ ~up /\ Together(Shifts)]

LEMMA SendTypeOK ==
    ASSUME TypeOK, NEW key \in Keys, NEW up \in BOOLEAN, NEW others \in SUBSET Mishaps,
           Send(key, up, others)
    PROVE  codes' \in Seq(Code) /\ mishaps' \subseteq Mishaps
<1>1. Sent(key, up) \in Code
  BY CasesAreBits DEF Sent, Code
<1>2. codes' = codes \/ codes' = Append(codes, Sent(key, up))
  BY DEF Send, Sent
<1>3. codes' \in Seq(Code)
  BY <1>1, <1>2 DEF TypeOK
<1>4. mishaps' \subseteq Mishaps
  BY DEF Send, TypeOK, Mishaps
<1> QED
  BY <1>3, <1>4

LEMMA SendStep ==
    ASSUME IInv, NEW key \in Keys, NEW up \in BOOLEAN, NEW others,
           Send(key, up, others), UNCHANGED driver, mishaps' = {}
    PROVE  /\ mishaps = {} /\ others = {}
           /\ Sent(key, up) \in Code
           /\ \A T : Parity(codes', T, Len(codes')) =
                       IF Sent(key, up) \in T THEN 1 - Parity(codes, T, Len(codes))
                       ELSE Parity(codes, T, Len(codes))
           /\ WaitingAsTyped'
<1> DEFINE x == Sent(key, up)
<1>1. x \in Code /\ x.key = key /\ x.up = up
  BY CasesAreBits DEF Sent, Code, IInv
<1>2. mishaps = {} /\ others = {} /\ codes' = Append(codes, x)
  BY DEF Send, Sent
<1>3. key \in Letters /\ ~up /\ ~x.twice => x.case = ParityCase
  BY ParityCaseIsAsked DEF Sent
<1> HIDE DEF x
<1>4. codes \in Seq(Code) /\ Len(codes') = Len(codes) + 1 /\ codes'[Len(codes) + 1] = x
      /\ \A i \in 1 .. Len(codes) : codes'[i] = codes[i]
  BY <1>1, <1>2 DEF IInv, TypeOK
<1>5. /\ \A T : \A n \in 0 .. Len(codes) : Parity(codes', T, n) = Parity(codes, T, n)
      /\ \A T : Parity(codes', T, Len(codes) + 1) =
                  IF x \in T THEN 1 - Parity(codes, T, Len(codes)) ELSE Parity(codes, T, Len(codes))
  BY <1>1, <1>2, <1>4, ParityOfAppend
<1>6. UpperCase' = UpperCase
  BY DEF driver
<1>7. WaitingAsTyped'
  <2> SUFFICES ASSUME NEW i \in 1 .. Len(codes) + 1,
                      codes'[i].key \in Letters, ~codes'[i].up, ~codes'[i].twice
               PROVE  (UpperCase + Parity(codes, Turning, i - 1)) % 2 = codes'[i].case
    <3>1. \A i \in 1 .. Len(codes) + 1 : Parity(codes', Turning, i - 1) = Parity(codes, Turning, i - 1)
      <4>1. \A i \in 1 .. Len(codes) + 1 : i - 1 \in 0 .. Len(codes)
        BY <1>4
      <4> QED
        BY <1>5, <4>1
    <3>2. Turning' = Turning
      BY DEF Turning
    <3> QED
      BY <1>4, <1>6, <3>1, <3>2 DEF WaitingAsTyped
  <2>1. CASE i \in 1 .. Len(codes)
    BY <1>2, <1>4, <2>1 DEF IInv, WaitingAsTyped
  <2>2. CASE i = Len(codes) + 1
    <3>1. i - 1 = Len(codes) /\ codes'[i].case = ParityCase
      BY <1>1, <1>3, <1>4, <2>2
    <3> QED
      BY <1>2, <3>1 DEF IInv, AllInStep
  <2> QED
    BY <1>4, <2>1, <2>2
<1> QED
  BY <1>1, <1>2, <1>4, <1>5, <1>7 DEF x

\* The code of a key that moves announces what its movement turns over.
LEMMA MovedInStep ==
    ASSUME IInv, NEW key \in Keys, NEW up \in BOOLEAN, Send(key, up, {}), UNCHANGED driver,
           mishaps' = {},
           \A S : Odd(S \cap down') = IF key \in S THEN 1 - Odd(S \cap down) ELSE Odd(S \cap down),
           ParityCase' = IF Sent(key, up) \in Turning THEN 1 - ParityCase ELSE ParityCase
    PROVE  AllInStep' /\ WaitingAsTyped'
<1> DEFINE x == Sent(key, up)
<1>1. /\ AllInStep /\ x \in Code /\ WaitingAsTyped'
      /\ \A T : Parity(codes', T, Len(codes')) =
                  IF x \in T THEN 1 - Parity(codes, T, Len(codes)) ELSE Parity(codes, T, Len(codes))
  BY SendStep DEF IInv
<1>2. x.key = key
  BY DEF Sent
<1> HIDE DEF x
<1>3. (x \in Of(Shifts) <=> key \in Shifts) /\ (x \in Of(Ctrls) <=> key \in Ctrls)
      /\ (x \in Of(Alts) <=> key \in Alts)
  BY <1>1, <1>2 DEF Of
<1>4. \A T : Parity(codes, T, Len(codes)) \in {0, 1}
  BY ParityIsBit DEF IInv, TypeOK
<1>5. \A S : Odd(S \cap down) \in {0, 1}
  BY DownIsFinite DEF IInv
<1>6. UNCHANGED <<ShiftPressed, CtrlPressed, AltPressed, UpperCase>>
      /\ ShiftPressed \in {0, 1} /\ CtrlPressed \in {0, 1} /\ AltPressed \in {0, 1} /\ UpperCase \in {0, 1}
  BY DEF driver, IInv, TypeOK
<1>7. (ShiftPressed' + Parity(codes', Of(Shifts), Len(codes'))) % 2 = Odd(Shifts \cap down')
  <2>1. (ShiftPressed + Parity(codes, Of(Shifts), Len(codes))) % 2 = Odd(Shifts \cap down)
    BY <1>1 DEF AllInStep
  <2> QED
    BY <1>1, <1>3, <1>4, <1>5, <1>6, <2>1, BothTurned
<1>8. (CtrlPressed' + Parity(codes', Of(Ctrls), Len(codes'))) % 2 = Odd(Ctrls \cap down')
  <2>1. (CtrlPressed + Parity(codes, Of(Ctrls), Len(codes))) % 2 = Odd(Ctrls \cap down)
    BY <1>1 DEF AllInStep
  <2> QED
    BY <1>1, <1>3, <1>4, <1>5, <1>6, <2>1, BothTurned
<1>9. (AltPressed' + Parity(codes', Of(Alts), Len(codes'))) % 2 = Odd(Alts \cap down')
  <2>1. (AltPressed + Parity(codes, Of(Alts), Len(codes))) % 2 = Odd(Alts \cap down)
    BY <1>1 DEF AllInStep
  <2> QED
    BY <1>1, <1>3, <1>4, <1>5, <1>6, <2>1, BothTurned
<1>10. (UpperCase' + Parity(codes', Turning, Len(codes'))) % 2 = ParityCase'
  <2>1. (UpperCase + Parity(codes, Turning, Len(codes))) % 2 = ParityCase
    BY <1>1 DEF AllInStep
  <2>2. ParityCase' = IF x \in Turning THEN 1 - ParityCase ELSE ParityCase
    BY DEF x
  <2>3. ParityCase \in {0, 1}
    BY CasesAreBits DEF IInv
  <2> QED
    BY <1>1, <1>4, <1>6, <2>1, <2>2, <2>3, BothTurned
<1>11. Of(Shifts)' = Of(Shifts) /\ Of(Ctrls)' = Of(Ctrls) /\ Of(Alts)' = Of(Alts) /\ Turning' = Turning
  BY DEF Of, Turning
<1> QED
  BY <1>1, <1>7, <1>8, <1>9, <1>10, <1>11 DEF AllInStep

LEMMA PressIInv ==
    ASSUME IInv, NEW key \in Keys, Press(key)
    PROVE  IInv'
<1>1. Send(key, FALSE, {}) /\ UNCHANGED driver
  BY DEF Press
<1>2. TypeOK'
  <2>1. codes' \in Seq(Code) /\ mishaps' \subseteq Mishaps
    BY <1>1, SendTypeOK DEF IInv
  <2> QED
    BY <2>1 DEF Press, driver, IInv, TypeOK
<1>3. WrittenAsTyped'
  BY <1>1 DEF driver, Send, IInv, WrittenAsTyped
<1>4. ASSUME mishaps' = {} PROVE AllInStep' /\ WaitingAsTyped'
  <2>1. \A S : Odd(S \cap down') = IF key \in S THEN 1 - Odd(S \cap down) ELSE Odd(S \cap down)
    BY OddOfPressed DEF Press, IInv
  <2>2. Sent(key, FALSE) \in Turning <=> key \in Shifts \cup Caps
    BY CasesAreBits DEF Sent, Code, Turning, IInv
  <2>3. ~(key \in Shifts /\ key \in Caps)
    BY WaysApart
  <2>4. /\ lock \in {0, 1} /\ lock' = IF key \in Caps THEN 1 - lock ELSE lock
        /\ Odd(Shifts \cap down) \in {0, 1}
    BY DownIsFinite DEF Press, IInv, TypeOK
  <2>5. ParityCase' = IF key \in Shifts \cup Caps THEN 1 - ParityCase ELSE ParityCase
    BY <2>1, <2>3, <2>4, Xor DEF ParityCase
  <2> QED
    BY <1>1, <1>4, <2>1, <2>2, <2>5, MovedInStep
<1> QED
  BY <1>2, <1>3, <1>4 DEF IInv

LEMMA ReleaseIInv ==
    ASSUME IInv, NEW key \in Keys, Release(key)
    PROVE  IInv'
<1>1. Send(key, TRUE, {}) /\ UNCHANGED driver
  BY DEF Release
<1>2. TypeOK'
  <2>1. codes' \in Seq(Code) /\ mishaps' \subseteq Mishaps
    BY <1>1, SendTypeOK DEF IInv
  <2> QED
    BY <2>1 DEF Release, driver, IInv, TypeOK
<1>3. WrittenAsTyped'
  BY <1>1 DEF driver, Send, IInv, WrittenAsTyped
<1>4. ASSUME mishaps' = {} PROVE AllInStep' /\ WaitingAsTyped'
  <2>1. \A S : Odd(S \cap down') = IF key \in S THEN 1 - Odd(S \cap down) ELSE Odd(S \cap down)
    BY OddOfReleased DEF Release, IInv
  <2>2. Sent(key, TRUE) \in Turning <=> key \in Shifts
    BY DEF Sent, Code, Turning
  <2>3. lock \in {0, 1} /\ lock' = lock /\ Odd(Shifts \cap down) \in {0, 1}
    BY DownIsFinite DEF Release, IInv, TypeOK
  <2>4. ParityCase' = IF key \in Shifts THEN 1 - ParityCase ELSE ParityCase
    BY <2>1, <2>3, Xor DEF ParityCase
  <2> QED
    BY <1>1, <1>4, <2>1, <2>2, <2>4, MovedInStep
<1> QED
  BY <1>2, <1>3, <1>4 DEF IInv

\* Without a mishap it is a letter that the keyboard repeats.
LEMMA RepeatIInv ==
    ASSUME IInv, Repeat
    PROVE  IInv'
<1> DEFINE others(key) == {m \in {"repeated"} : key \in Modifiers}
<1>1. PICK key \in last : Send(key, FALSE, others(key))
  BY DEF Repeat
<1>2. UNCHANGED <<down, last, lock, driver>> /\ key \in Keys
  BY DEF Repeat, IInv, TypeOK
<1>3. TypeOK'
  <2>1. others(key) \in SUBSET Mishaps
    BY DEF Mishaps
  <2> HIDE DEF others
  <2>2. codes' \in Seq(Code) /\ mishaps' \subseteq Mishaps
    BY <1>1, <1>2, <2>1, SendTypeOK DEF IInv
  <2> QED
    BY <1>2, <2>2 DEF driver, IInv, TypeOK
<1>4. WrittenAsTyped'
  BY <1>1, <1>2 DEF driver, Send, IInv, WrittenAsTyped
<1>5. ASSUME mishaps' = {} PROVE AllInStep' /\ WaitingAsTyped'
  <2> DEFINE x == Sent(key, FALSE)
  <2>1. key \notin Modifiers
    <3>1. others(key) = {}
      BY <1>1, <1>5 DEF Send
    <3> QED
      BY <3>1
  <2> HIDE DEF others
  <2>2. /\ AllInStep /\ x \in Code /\ WaitingAsTyped'
        /\ \A T : Parity(codes', T, Len(codes')) =
                    IF x \in T THEN 1 - Parity(codes, T, Len(codes)) ELSE Parity(codes, T, Len(codes))
    BY <1>1, <1>2, <1>5, SendStep DEF IInv
  <2>3. x.key = key
    BY DEF Sent
  <2> HIDE DEF x
  <2>4. x \notin Of(Shifts) /\ x \notin Of(Ctrls) /\ x \notin Of(Alts) /\ x \notin Turning
    BY <2>1, <2>3 DEF Of, Turning, Modifiers
  <2>5. Of(Shifts)' = Of(Shifts) /\ Of(Ctrls)' = Of(Ctrls) /\ Of(Alts)' = Of(Alts) /\ Turning' = Turning
    BY DEF Of, Turning
  <2> QED
    BY <1>2, <2>2, <2>4, <2>5 DEF AllInStep, ParityCase, driver
<1> QED
  BY <1>3, <1>4, <1>5 DEF IInv

\* The driver turns over the bits of the key whose code it reads, whichever way
\* that takes.
LEMMA CallbackTurns ==
    ASSUME TypeOK, KeyboardCallback, NEW x, x = Head(codes)
    PROVE  /\ codes # << >> /\ x \in Code /\ codes' = Tail(codes)
           /\ ShiftPressed' = IF x \in Of(Shifts) THEN 1 - ShiftPressed ELSE ShiftPressed
           /\ CtrlPressed' = IF x \in Of(Ctrls) THEN 1 - CtrlPressed ELSE CtrlPressed
           /\ AltPressed' = IF x \in Of(Alts) THEN 1 - AltPressed ELSE AltPressed
           /\ UpperCase' = IF x \in Turning THEN 1 - UpperCase ELSE UpperCase
           /\ \/ written' = written
              \/ /\ x.key \in Letters /\ ~x.up
                 /\ written' = <<[case |-> UpperCase, asked |-> x.case, twice |-> x.twice]>>
<1>1. codes # << >> /\ x \in Code /\ codes' = Tail(codes)
  BY DEF KeyboardCallback, TypeOK
<1>2. CASE x.key \in Letters /\ pln(x)
  BY <1>1, <1>2, WaysApart DEF pln, Of, Turning
<1>3. CASE x.key \in Ctrls /\ ctl
  BY <1>1, <1>3, WaysApart DEF ctl, Of, Turning
<1>4. CASE x.key \in Alts /\ alt
  BY <1>1, <1>4, WaysApart DEF alt, Of, Turning
<1>5. CASE x.key \in Shifts /\ shf(x)
  BY <1>1, <1>5, WaysApart DEF shf, Of, Turning
<1>6. CASE x.key \in Caps /\ cap(x)
  BY <1>1, <1>6, WaysApart DEF cap, Of, Turning
<1> QED
  BY <1>2, <1>3, <1>4, <1>5, <1>6 DEF KeyboardCallback

LEMMA CallbackIInv ==
    ASSUME IInv, KeyboardCallback
    PROVE  IInv'
<1> DEFINE x == Head(codes)
<1>1. /\ codes # << >> /\ x \in Code /\ codes' = Tail(codes)
      /\ ShiftPressed' = IF x \in Of(Shifts) THEN 1 - ShiftPressed ELSE ShiftPressed
      /\ CtrlPressed' = IF x \in Of(Ctrls) THEN 1 - CtrlPressed ELSE CtrlPressed
      /\ AltPressed' = IF x \in Of(Alts) THEN 1 - AltPressed ELSE AltPressed
      /\ UpperCase' = IF x \in Turning THEN 1 - UpperCase ELSE UpperCase
      /\ \/ written' = written
         \/ /\ x.key \in Letters /\ ~x.up
            /\ written' = <<[case |-> UpperCase, asked |-> x.case, twice |-> x.twice]>>
  BY CallbackTurns DEF IInv
<1>2. \A T : \A n \in 1 .. Len(codes) :
          Parity(codes', T, n - 1) = IF x \in T THEN 1 - Parity(codes, T, n) ELSE Parity(codes, T, n)
  BY <1>1, ParityOfTail DEF IInv, TypeOK
<1>3. codes[1] = x
  BY <1>1 DEF IInv, TypeOK
<1> HIDE DEF x
<1>4. /\ Len(codes') = Len(codes) - 1 /\ Len(codes) \in Nat \ {0} /\ codes' \in Seq(Code)
      /\ \A i \in 1 .. Len(codes') : codes'[i] = codes[i + 1]
  BY <1>1 DEF IInv, TypeOK
<1>5. UNCHANGED <<down, last, lock, mishaps>>
  BY DEF KeyboardCallback
<1>6. /\ ShiftPressed \in {0, 1} /\ CtrlPressed \in {0, 1}
      /\ AltPressed \in {0, 1} /\ UpperCase \in {0, 1}
  BY DEF IInv, TypeOK
<1>7. TypeOK'
  <2>1. written' \in Seq([case : {0, 1}, asked : {0, 1}, twice : BOOLEAN])
    <3> DEFINE w == [case |-> UpperCase, asked |-> x.case, twice |-> x.twice]
               W == [case : {0, 1}, asked : {0, 1}, twice : BOOLEAN]
    <3>1. x.case \in {0, 1} /\ x.twice \in BOOLEAN
      BY <1>1 DEF Code
    <3>2. w \in W
      BY <1>6, <3>1
    <3>3. written' = written \/ written' = <<w>>
      BY <1>1, Zenon
    <3>4. written \in Seq(W)
      BY Zenon DEF IInv, TypeOK
    <3> HIDE DEF w, W
    <3>5. written' \in Seq(W)
      <4>1. <<w>> \in Seq(W)
        BY <3>2
      <4> QED
        BY <3>3, <3>4, <4>1
    <3> QED
      BY <3>5 DEF W
  <2>2. /\ ShiftPressed' \in {0, 1} /\ CtrlPressed' \in {0, 1}
        /\ AltPressed' \in {0, 1} /\ UpperCase' \in {0, 1}
    BY <1>1, <1>6
  <2> QED
    BY <1>4, <1>5, <2>1, <2>2 DEF IInv, TypeOK
<1>8. \A T : \A n \in 0 .. Len(codes) : Parity(codes, T, n) \in {0, 1}
  BY <1>4, ParityIsBit
<1>9. ASSUME mishaps' = {} PROVE AllInStep'
  <2>1. AllInStep
    BY <1>5, <1>9 DEF IInv
  <2>2. \A T : /\ Parity(codes', T, Len(codes')) =
                    IF x \in T THEN 1 - Parity(codes, T, Len(codes)) ELSE Parity(codes, T, Len(codes))
               /\ Parity(codes, T, Len(codes)) \in {0, 1}
    BY <1>2, <1>4, <1>8
  <2>3. /\ Odd(Shifts \cap down) \in {0, 1} /\ Odd(Ctrls \cap down) \in {0, 1}
        /\ Odd(Alts \cap down) \in {0, 1} /\ ParityCase \in {0, 1}
    BY DownIsFinite, CasesAreBits DEF IInv
  <2>4. Of(Shifts)' = Of(Shifts) /\ Of(Ctrls)' = Of(Ctrls) /\ Of(Alts)' = Of(Alts) /\ Turning' = Turning
    BY DEF Of, Turning
  <2>5. ParityCase' = ParityCase /\ down' = down
    BY <1>5 DEF ParityCase
  <2>6. (ShiftPressed' + Parity(codes', Of(Shifts), Len(codes'))) % 2 = Odd(Shifts \cap down)
    <3>1. (ShiftPressed + Parity(codes, Of(Shifts), Len(codes))) % 2 = Odd(Shifts \cap down)
      BY <2>1 DEF AllInStep
    <3> QED
      BY <1>1, <1>6, <2>2, <2>3, <3>1, BothTurned
  <2>7. (CtrlPressed' + Parity(codes', Of(Ctrls), Len(codes'))) % 2 = Odd(Ctrls \cap down)
    <3>1. (CtrlPressed + Parity(codes, Of(Ctrls), Len(codes))) % 2 = Odd(Ctrls \cap down)
      BY <2>1 DEF AllInStep
    <3> QED
      BY <1>1, <1>6, <2>2, <2>3, <3>1, BothTurned
  <2>8. (AltPressed' + Parity(codes', Of(Alts), Len(codes'))) % 2 = Odd(Alts \cap down)
    <3>1. (AltPressed + Parity(codes, Of(Alts), Len(codes))) % 2 = Odd(Alts \cap down)
      BY <2>1 DEF AllInStep
    <3> QED
      BY <1>1, <1>6, <2>2, <2>3, <3>1, BothTurned
  <2>9. (UpperCase' + Parity(codes', Turning, Len(codes'))) % 2 = ParityCase
    <3>1. (UpperCase + Parity(codes, Turning, Len(codes))) % 2 = ParityCase
      BY <2>1 DEF AllInStep
    <3> QED
      BY <1>1, <1>6, <2>2, <2>3, <3>1, BothTurned
  <2> QED
    BY <2>4, <2>5, <2>6, <2>7, <2>8, <2>9 DEF AllInStep
<1>10. ASSUME mishaps' = {} PROVE WaitingAsTyped'
  <2> SUFFICES ASSUME NEW i \in 1 .. Len(codes'),
                      codes'[i].key \in Letters, ~codes'[i].up, ~codes'[i].twice
               PROVE  (UpperCase' + Parity(codes', Turning, i - 1)) % 2 = codes'[i].case
    <3>1. Turning' = Turning
      BY DEF Turning
    <3> QED
      BY <3>1 DEF WaitingAsTyped
  <2>1. i \in 1 .. Len(codes) /\ i + 1 \in 1 .. Len(codes) /\ codes'[i] = codes[i + 1]
    BY <1>4
  <2>2. (UpperCase + Parity(codes, Turning, i)) % 2 = codes[i + 1].case
    <3>1. (UpperCase + Parity(codes, Turning, (i + 1) - 1)) % 2 = codes[i + 1].case
      BY <1>5, <1>10, <2>1 DEF IInv, WaitingAsTyped
    <3> QED
      BY <3>1
  <2>3. Parity(codes', Turning, i - 1) =
          IF x \in Turning THEN 1 - Parity(codes, Turning, i) ELSE Parity(codes, Turning, i)
    BY <1>2, <2>1
  <2>4. Parity(codes, Turning, i) \in {0, 1}
    BY <1>8, <2>1
  <2>5. codes[i + 1].case \in {0, 1}
    <3>1. codes[i + 1] \in Code
      BY <2>1 DEF IInv, TypeOK
    <3> QED
      BY <3>1 DEF Code
  <2> QED
    BY <1>1, <1>6, <2>1, <2>2, <2>3, <2>4, <2>5, BothTurned
<1>11. WrittenAsTyped'
  <2>1. CASE written' = written
    BY <1>5, <2>1 DEF IInv, WrittenAsTyped
  <2>2. CASE /\ x.key \in Letters /\ ~x.up
             /\ written' = <<[case |-> UpperCase, asked |-> x.case, twice |-> x.twice]>>
    <3>1. ASSUME mishaps = {} PROVE x.twice \/ UpperCase = x.case
      <4>1. Parity(codes, Turning, 0) = 0
        <5>1. Places(codes, Turning, 0) = {}
          BY DEF Places
        <5> QED
          BY <5>1, FS_EmptySet DEF Parity, Odd
      <4>2. ~x.twice => (UpperCase + Parity(codes, Turning, 1 - 1)) % 2 = x.case
        BY <1>3, <1>4, <2>2, <3>1 DEF IInv, WaitingAsTyped
      <4> QED
        BY <1>6, <4>1, <4>2, Xor
    <3> QED
      BY <1>5, <2>2, <3>1 DEF WrittenAsTyped
  <2> QED
    BY <1>1, <2>1, <2>2
<1> QED
  BY <1>7, <1>9, <1>10, <1>11 DEF IInv

\* The driver's bits, and the case of each letter still to be read, are what is
\* left when the codes that wait are taken away: at each place in the queue.
THEOREM Inductive == Spec => []IInv
<1>1. ASSUME IInv, [Next]_vars PROVE IInv'
  <2>1. CASE \E key \in Keys : Press(key) \/ Release(key)
    BY <2>1, <1>1, PressIInv, ReleaseIInv
  <2>2. CASE Repeat
    BY <2>2, <1>1, RepeatIInv
  <2>3. CASE KeyboardCallback
    BY <2>3, <1>1, CallbackIInv
  <2>4. CASE UNCHANGED vars
    BY <2>4, <1>1 DEF vars, IInv, TypeOK, AllInStep, WaitingAsTyped, WrittenAsTyped, ParityCase,
       Of, Turning
  <2> QED
    BY <1>1, <2>1, <2>2, <2>3, <2>4 DEF Next
<1> QED
  BY InitIInv, <1>1, PTL DEF Spec

-----------------------------------------------------------------------------
(* The properties.                                                         *)

\* Every letter is written in the case that was asked for as its key went down,
\* whatever waited then and has been pressed since, unless two shift keys asked.
THEOREM LettersAreAsTyped == Spec => []WrittenAsTyped
<1> QED
  BY Inductive, PTL DEF IInv

\* What the driver remembers, with the codes still to be read, is whether the user
\* holds such a key down, while he holds one of each kind at most.
THEOREM DriverInStep == Spec => []InStep
<1>1. ASSUME IInv PROVE InStep
  <2>1. \A i \in 1 .. Len(codes) : codes[i] \in Code
    BY <1>1 DEF IInv, TypeOK
  <2>2. \A S : Turns(S) = Places(codes, Of(S), Len(codes))
    BY <2>1 DEF Turns, Places, Of
  <2>3. {i \in Turns(Shifts \cup Caps) : codes[i].key \in Shifts \/ ~codes[i].up}
          = Places(codes, Turning, Len(codes))
    BY <2>1 DEF Turns, Places, Turning
  <2>4. ASSUME mishaps = {}
        PROVE  /\ (ShiftPressed + Odd(Turns(Shifts))) % 2 = Odd(Shifts \cap down)
               /\ (CtrlPressed + Odd(Turns(Ctrls))) % 2 = Odd(Ctrls \cap down)
               /\ (AltPressed + Odd(Turns(Alts))) % 2 = Odd(Alts \cap down)
               /\ (UpperCase + Odd({i \in Turns(Shifts \cup Caps) :
                                      codes[i].key \in Shifts \/ ~codes[i].up})) % 2 = ParityCase
    BY <1>1, <2>2, <2>3, <2>4 DEF IInv, AllInStep, Parity
  <2> QED
    BY <2>4, OddIsHeld, ParityCaseIsAsked DEF InStep
<1> QED
  BY Inductive, <1>1, PTL

=============================================================================
