----------------------------- MODULE TimerProofs -----------------------------
(* No wait is too short, for every chip, width of the words, frequency and  *)
(* argument.                                                                *)
EXTENDS Timer, TLAPS

Words == 2 ^ WordBits

TypeOK ==
    /\ pc \in {"init", "idle", "start", "loop", "returned"}
    /\ Tick \in 0 .. Words - 1 /\ StartTick \in 0 .. Words - 1
    /\ wanted \in 0 .. Words - 1
    /\ elapsed \in 0 .. Words
    /\ pc # "init" => TimerFrequency \in 1 .. ChipRate
    /\ pc \in {"start", "loop", "returned"} =>
          caller \in [name : {"WaitS", "Wait10M"}, n : Counts]

\* The chip runs as InitTimer has set it.
Programmed == pc # "init" => Divisor = DivisorOf(TimerFrequency)

Multiplied ==
    pc \in {"start", "loop", "returned"} => wanted = Word(caller.n * UnitOf(caller.name))

\* While no more ticks have gone by than Tick can tell apart, the difference of
\* the two words is their number.
DifferenceCounts ==
    (pc = "loop" /\ elapsed < Words) => Word(Tick - StartTick) = elapsed

Waited == pc = "returned" => elapsed >= wanted

IInv == TypeOK /\ Programmed /\ Multiplied /\ DifferenceCounts /\ Waited

-----------------------------------------------------------------------------
(* Words.                                                                  *)

LEMMA WordRange ==
    ASSUME Words > 0
    PROVE  /\ Words \in Nat \ {0}
           /\ \A a \in Int : Word(a) \in 0 .. Words - 1
           /\ \A a \in 0 .. Words - 1 : Word(a) = a
           /\ \A a \in (-Words) .. -1 : Word(a) = a + Words
           /\ Word(Words) = 0
<1> DEFINE M == 2 ^ WordBits
<1>1. M \in Nat \ {0}
  BY TimerAssumption DEF Words
<1> HIDE DEF M
<1>2. /\ \A a \in Int : a % M \in 0 .. M - 1
      /\ \A a \in 0 .. M - 1 : a % M = a
      /\ M % M = 0
  BY <1>1
<1>3. \A a \in (-M) .. -1 : a % M = a + M
  BY <1>1
<1> QED
  BY <1>1, <1>2, <1>3 DEF M, Words, Word

\* One tick more makes the difference one more, also when Tick goes through
\* zero.
LEMMA OneTickMore ==
    ASSUME Words > 0, NEW t \in 0 .. Words - 1, NEW s \in 0 .. Words - 1,
           Word(t - s) + 1 < Words
    PROVE  Word(Word(t + 1) - s) = Word(t - s) + 1
<1>1. Words \in Nat \ {0}
  BY WordRange
<1>2. CASE t + 1 < Words
  <2>1. Word(t + 1) = t + 1
    BY <1>1, <1>2, WordRange
  <2>2. CASE t >= s
    <3>1. t - s \in 0 .. Words - 1 /\ (t + 1) - s \in 0 .. Words - 1
      BY <1>1, <1>2, <2>2
    <3> QED
      BY <2>1, <3>1, WordRange
  <2>3. CASE t < s
    <3>1. t - s \in (-Words) .. -1 /\ Word(t - s) = t - s + Words
      BY <1>1, <2>3, WordRange
    <3>2. t + 1 - s < 0
      BY <1>1, <3>1
    <3>3. (t + 1) - s \in (-Words) .. -1
      BY <1>1, <2>3, <3>2
    <3> QED
      BY <1>1, <2>1, <3>1, <3>3, WordRange
  <2> QED
    BY <1>1, <2>2, <2>3
<1>3. CASE t + 1 = Words
  <2>1. Word(t + 1) = 0
    BY <1>3, WordRange
  <2>2. t - s \in 0 .. Words - 1 /\ Word(t - s) = t - s
    BY <1>1, <1>3, WordRange
  <2>3. s > 0
    BY <1>1, <1>3, <2>2
  <2>4. 0 - s \in (-Words) .. -1 /\ Word(0 - s) = 0 - s + Words
    BY <1>1, <2>3, WordRange
  <2> QED
    BY <1>1, <1>3, <2>1, <2>2, <2>4
<1> QED
  BY <1>1, <1>2, <1>3

-----------------------------------------------------------------------------
(* The invariant, of words that have two or more values or one.            *)

LEMMA InitIInv == Words > 0 /\ Init => IInv
  BY WordRange DEF Init, IInv, TypeOK, Programmed, Multiplied, DifferenceCounts, Waited

LEMMA TickIInv ==
    ASSUME Words > 0, IInv, TimerCallback
    PROVE  IInv'
<1>1. /\ Tick' = Word(Tick + 1) /\ elapsed' = Elapses
      /\ UNCHANGED <<TimerFrequency, Divisor, pc, caller, wanted, StartTick>>
  BY DEF TimerCallback, config
<1>2. Words \in Nat \ {0} /\ Tick' \in 0 .. Words - 1
  BY <1>1, WordRange DEF IInv, TypeOK
<1>3. elapsed' = IF pc = "loop" /\ elapsed < Words THEN elapsed + 1 ELSE elapsed
  BY <1>1 DEF Elapses, Words
<1>4. TypeOK'
  BY <1>1, <1>2, <1>3 DEF IInv, TypeOK, Words
<1>5. Programmed' /\ Multiplied'
  BY <1>1 DEF IInv, Programmed, Multiplied, UnitOf
<1>6. DifferenceCounts'
  <2>1. ASSUME pc = "loop", elapsed' < Words PROVE Word(Tick' - StartTick) = elapsed'
    <3>1. elapsed < Words /\ elapsed' = elapsed + 1 /\ Word(Tick - StartTick) = elapsed
      BY <1>2, <1>3, <2>1 DEF IInv, TypeOK, DifferenceCounts
    <3> QED
      BY <1>1, <2>1, <3>1, OneTickMore DEF IInv, TypeOK
  <2> QED
    BY <1>1, <2>1 DEF DifferenceCounts, Words
<1>7. Waited'
  BY <1>1, <1>3 DEF IInv, Waited
<1> QED
  BY <1>4, <1>5, <1>6, <1>7 DEF IInv

LEMMA NextIInv ==
    ASSUME Words > 0, IInv, [Next]_vars
    PROVE  IInv'
<1>0. Words \in Nat \ {0}
  BY WordRange
<1>1. CASE TimerCallback
  BY <1>1, TickIInv
<1>2. ASSUME NEW f \in Frequencies, InitTimer(f) PROVE IInv'
  <2>1. f \in 1 .. ChipRate
    BY TimerAssumption
  <2> QED
    BY <1>0, <1>2, <2>1 DEF InitTimer, IInv, TypeOK, Programmed, Multiplied, DifferenceCounts,
       Waited, Words
<1>3. ASSUME NEW name \in {"WaitS", "Wait10M"}, NEW n \in Counts, Wait(name, n) PROVE IInv'
  <2>1. caller' = [name |-> name, n |-> n] /\ caller'.name = name /\ caller'.n = n
    BY <1>3 DEF Wait
  <2>2. n \in Int /\ UnitOf(name) \in Int
    BY <1>3, TimerAssumption DEF UnitOf, Wait, IInv, TypeOK
  <2>3. wanted' = Word(n * UnitOf(name)) /\ wanted' \in 0 .. Words - 1
    <3>1. n * UnitOf(name) \in Int
      BY <2>2
    <3> QED
      BY <1>3, <3>1, WordRange DEF Wait
  <2>4. TypeOK'
    BY <1>3, <2>1, <2>3 DEF Wait, config, IInv, TypeOK, Words
  <2> QED
    BY <1>3, <2>1, <2>3, <2>4 DEF Wait, config, IInv, Programmed, Multiplied, DifferenceCounts,
       Waited, UnitOf
<1>4. CASE ReadStart
  <2>1. TypeOK'
    BY <1>0, <1>4 DEF ReadStart, config, IInv, TypeOK, Words
  <2>2. Programmed' /\ Multiplied' /\ Waited'
    BY <1>4 DEF ReadStart, config, IInv, Programmed, Multiplied, Waited, UnitOf
  <2>3. DifferenceCounts'
    <3>1. Word(Tick - Tick) = 0
      <4>1. Tick - Tick = 0 /\ 0 \in 0 .. Words - 1
        BY <1>0 DEF IInv, TypeOK
      <4> QED
        BY <4>1, WordRange
    <3> QED
      BY <1>4, <3>1 DEF ReadStart, DifferenceCounts
  <2> QED
    BY <2>1, <2>2, <2>3 DEF IInv
<1>5. CASE Loop
  <2>1. TypeOK' /\ Programmed' /\ Multiplied' /\ DifferenceCounts'
    BY <1>5 DEF Loop, config, IInv, TypeOK, Programmed, Multiplied, DifferenceCounts, UnitOf, Words
  <2>2. Waited'
    <3>1. ASSUME Passed, pc = "loop" PROVE elapsed >= wanted
      <4>1. CASE elapsed < Words
        <5>1. Word(Tick - StartTick) = elapsed
          BY <3>1, <4>1 DEF IInv, DifferenceCounts
        <5> QED
          BY <3>1, <5>1 DEF Passed, IInv, TypeOK
      <4>2. CASE ~(elapsed < Words)
        BY <1>0, <4>2 DEF IInv, TypeOK
      <4> QED
        BY <4>1, <4>2
    <3> QED
      BY <1>5, <3>1 DEF Loop, Waited
  <2> QED
    BY <2>1, <2>2 DEF IInv
<1>6. CASE Return
  BY <1>0, <1>6 DEF Return, config, IInv, TypeOK, Programmed, Multiplied, DifferenceCounts,
     Waited, Words
<1>7. CASE UNCHANGED vars
  BY <1>7 DEF vars, config, IInv, TypeOK, Programmed, Multiplied, DifferenceCounts, Waited,
     UnitOf, Words
<1> QED
  BY <1>1, <1>2, <1>3, <1>4, <1>5, <1>6, <1>7 DEF Next, Thread

\* What the loop of WaitS and Wait10M knows: that the word Tick - StartTick counts
\* the ticks gone by, as long as they are fewer than a word can count.
THEOREM Inductive == ASSUME Words > 0 PROVE Spec => []IInv
<1> QED
  BY InitIInv, NextIInv, PTL DEF Spec

\* The provers do not know that a power of 2 is positive.  Were it not, there
\* would be no argument to wait with.
LEMMA NoWait == ASSUME ~(Words > 0) PROVE Spec => [](pc \in {"init", "idle"})
<1>1. Counts = {}
  <2>1. Words \in Int
    BY TimerAssumption DEF Words
  <2> QED
    BY <2>1, TimerAssumption DEF Words
<1>2. Init => pc \in {"init", "idle"}
  BY DEF Init
<1>3. ASSUME pc \in {"init", "idle"}, [Next]_vars PROVE (pc \in {"init", "idle"})'
  BY <1>1, <1>3 DEF Next, TimerCallback, InitTimer, Wait, Thread, ReadStart, Loop, Return, vars
<1> QED
  BY <1>2, <1>3, PTL DEF Spec

-----------------------------------------------------------------------------
(* The property.                                                           *)

\* A quotient is too small by less than one.
LEMMA Quotient ==
    ASSUME NEW a \in Nat \ {0}, NEW f \in 1 .. a
    PROVE  a \div f \in Nat \ {0} /\ a <= f * (a \div f + 1)
<1>1. a \div f \in 1 .. a
  OBVIOUS
<1>2. (a \div f + 1) * f > a
  OBVIOUS
<1> QED
  BY <1>1, <1>2

LEMMA TimesMonotone ==
    ASSUME NEW a \in Nat, NEW b \in Nat, a <= b, NEW c \in Nat
    PROVE  a * c <= b * c
  OBVIOUS

\* The chip's period is the whole quotient, though its last value is written
\* as 0.
LEMMA PeriodIsQuotient ==
    ASSUME NEW f \in 1 .. ChipRate, Divisor = DivisorOf(f), ChipRate \div f <= 2 ^ ChipBits
    PROVE  Period = ChipRate \div f
<1> DEFINE q == ChipRate \div f
           B == 2 ^ ChipBits
<1>1. q \in Nat \ {0} /\ B \in Int /\ q <= B
  BY TimerAssumption, Quotient
<1>2. Divisor = q % B /\ Period = IF Divisor = 0 THEN B ELSE Divisor
  BY DEF DivisorOf, Period
<1> HIDE DEF q, B
<1>3. CASE q < B
  <2>1. q % B = q
    BY <1>1, <1>3
  <2> QED
    BY <1>1, <1>2, <2>1 DEF q
<1>4. CASE q = B
  <2>1. q % B = 0
    BY <1>1, <1>4
  <2> QED
    BY <1>1, <1>2, <1>4, <2>1 DEF q
<1> QED
  BY <1>1, <1>3, <1>4

\* A wait takes at least the time that was asked for, less the rounding of the
\* chip's divisor, and wherever Tick was when it began.
THEOREM NoWaitIsTooShort == Spec => []NeverEarly
<1>1. ASSUME Words > 0, IInv PROVE NeverEarly
  <2> SUFFICES ASSUME pc = "returned", Fits
               PROVE  LET Cycles == elapsed * (Period + 1)
                      IN  IF caller.name = "WaitS"
                            THEN Cycles >= caller.n * ChipRate
                            ELSE Cycles * Hundred >= caller.n * ChipRate
    BY DEF NeverEarly
  <2> DEFINE n == caller.n
             f == TimerFrequency
             q == ChipRate \div f
             u == UnitOf(caller.name)
  <2>1. /\ n \in Nat /\ f \in 1 .. ChipRate /\ elapsed \in Nat
        /\ caller.name \in {"WaitS", "Wait10M"}
        /\ ChipRate \in Nat \ {0} /\ Hundred \in Nat \ {0}
    <3>1. caller \in [name : {"WaitS", "Wait10M"}, n : Counts] /\ f \in 1 .. ChipRate /\ elapsed \in Nat
      BY <1>1, WordRange DEF IInv, TypeOK
    <3>2. Counts \subseteq Nat
      BY TimerAssumption
    <3> QED
      BY <3>1, <3>2, TimerAssumption
  <2>2. Period = q /\ q \in Nat \ {0} /\ ChipRate <= f * (q + 1)
    <3>1. Divisor = DivisorOf(f)
      BY <1>1 DEF IInv, Programmed
    <3>2. Period = q
      BY <2>1, <3>1, PeriodIsQuotient DEF Fits
    <3> QED
      BY <2>1, <3>2, Quotient
  <2>3. u \in Nat /\ (caller.name = "WaitS" => u = f) /\ (caller.name = "Wait10M" => u * Hundred = f)
    BY <2>1 DEF UnitOf, Fits
  <2>4. n * u <= elapsed
    <3>1. n * u \in 0 .. Words - 1
      <4>1. n * u \in Nat
        BY <2>1, <2>3
      <4>2. n * u < Words
        BY DEF Fits, Words
      <4> QED
        BY <1>1, <4>1, <4>2, WordRange
    <3>2. wanted = n * u
      BY <1>1, <3>1, WordRange DEF IInv, Multiplied
    <3> QED
      BY <1>1, <3>2 DEF IInv, Waited, TypeOK
  <2> HIDE DEF n, f, q, u
  <2>5. n * u * (q + 1) <= elapsed * (q + 1)
    BY <2>1, <2>2, <2>3, <2>4, TimesMonotone
  <2>6. n * ChipRate <= n * (f * (q + 1))
    BY <2>1, <2>2, TimesMonotone
  <2>7. CASE caller.name = "WaitS"
    <3>1. n * (f * (q + 1)) <= elapsed * (q + 1)
      BY <2>1, <2>2, <2>3, <2>5, <2>7
    <3> QED
      BY <2>1, <2>2, <2>6, <2>7, <3>1 DEF n
  <2>8. CASE caller.name = "Wait10M"
    <3>1. n * u * (q + 1) * Hundred <= elapsed * (q + 1) * Hundred
      BY <2>1, <2>2, <2>3, <2>5, TimesMonotone
    <3>2. n * u * (q + 1) * Hundred = n * (f * (q + 1))
      BY <2>1, <2>2, <2>3, <2>8
    <3> QED
      BY <2>1, <2>2, <2>6, <2>8, <3>1, <3>2 DEF n
  <2> QED
    BY <2>1, <2>7, <2>8
<1>2. CASE Words > 0
  BY <1>1, <1>2, Inductive, PTL
<1>3. CASE ~(Words > 0)
  <2>1. pc \in {"init", "idle"} => NeverEarly
    BY DEF NeverEarly
  <2> QED
    BY <1>3, <2>1, NoWait, PTL
<1> QED
  BY <1>2, <1>3

=============================================================================
