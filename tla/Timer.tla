-------------------------------- MODULE Timer --------------------------------
(***************************************************************************)
(* core/timer.c: InitTimer programs the timer chip, each of whose periods  *)
(* ends in an interrupt that counts Tick up, and WaitS and Wait10M spin    *)
(* until Tick has moved on far enough.  Tick is a u64i, which types.h      *)
(* defines as unsigned long: on this machine a word of 32 bits, read at    *)
(* one go.  Time is counted in the cycles of the chip.                     *)
(***************************************************************************)
EXTENDS Integers

CONSTANTS
    ChipRate,       \* the cycles of the chip in a second: 1193180
    ChipBits,       \* the width of its divisor: 16
    WordBits,       \* the width of u32i and u64i: 32
    Hundred,        \* what Wait10M divides the frequency by: 100
    Frequencies,    \* what InitTimer is called with
    Counts,         \* what WaitS and Wait10M are called with
    MaxBurst        \* bound: ticks between two steps of the kernel thread

ASSUME TimerAssumption ==
    /\ {ChipRate, ChipBits, WordBits, Hundred} \subseteq Nat \ {0}
    /\ Frequencies \subseteq 1 .. ChipRate
    /\ Counts \subseteq 0 .. 2 ^ WordBits - 1
    /\ MaxBurst \in Nat \ {0}

VARIABLES
    TimerFrequency,
    Divisor,        \* what the chip was given
    Tick,
    pc,             \* "init", "idle", "start", "loop" or "returned"
    caller,         \* the function that waits, and what it was called with
    wanted,         \* its argument, multiplied: the ticks it will wait
    StartTick,
    elapsed,        \* history: ticks since StartTick was read
    burst           \* ticks since the last step of the thread

config == <<TimerFrequency, Divisor>>
vars == <<TimerFrequency, Divisor, Tick, pc, caller, wanted, StartTick, elapsed, burst>>

Word(n) == n % 2 ^ WordBits

NoCall == [name |-> "none", n |-> 0]

Init ==
    /\ TimerFrequency = 0 /\ Divisor = 0
    /\ Tick = 0
    /\ pc = "init"
    /\ caller = NoCall
    /\ wanted = 0 /\ StartTick = 0
    /\ elapsed = 0 /\ burst = 0

-----------------------------------------------------------------------------
(* The timer and its interrupt.                                            *)

\* The chip counts a divisor of 0 as 2^16.
Period == IF Divisor = 0 THEN 2 ^ ChipBits ELSE Divisor

\* MaxBurst holds while the thread waits.  The history stops at a count that is
\* more than any wait wants.
MayTick == pc = "idle" \/ burst < MaxBurst
Elapses == IF pc = "loop" /\ elapsed < 2 ^ WordBits THEN elapsed + 1 ELSE elapsed

\* A slip the runs must notice: the count stops at its largest value.
TimerCallback_Saturates ==
    /\ pc # "init" /\ MayTick
    /\ Tick' = IF Tick = 2 ^ WordBits - 1 THEN Tick ELSE Tick + 1
    /\ elapsed' = Elapses
    /\ burst' = IF pc = "idle" THEN 0 ELSE burst + 1
    /\ UNCHANGED <<config, pc, caller, wanted, StartTick>>

TimerCallback ==
    /\ pc # "init" /\ MayTick
    /\ Tick' = Word(Tick + 1)
    /\ elapsed' = Elapses
    /\ burst' = IF pc = "idle" THEN 0 ELSE burst + 1
    /\ UNCHANGED <<config, pc, caller, wanted, StartTick>>

-----------------------------------------------------------------------------
(* The kernel thread.                                                      *)

\* Two bytes of the quotient are written to the chip.
DivisorOf(Frequency) == (ChipRate \div Frequency) % 2 ^ ChipBits

\* What a wait's argument is multiplied with.
UnitOf(name) == IF name = "WaitS" THEN TimerFrequency ELSE TimerFrequency \div Hundred

InitTimer(Frequency) ==
    /\ pc = "init"
    /\ TimerFrequency' = Frequency
    /\ Divisor' = DivisorOf(Frequency)
    /\ pc' = "idle"
    /\ burst' = 0
    /\ UNCHANGED <<Tick, caller, wanted, StartTick, elapsed>>

\* The multiplication, in a word.
Wait(name, n) ==
    /\ pc = "idle"
    /\ pc' = "start"
    /\ caller' = [name |-> name, n |-> n]
    /\ wanted' = Word(n * UnitOf(name))
    /\ burst' = 0
    /\ UNCHANGED <<config, Tick, StartTick, elapsed>>

ReadStart ==
    /\ pc = "start"
    /\ StartTick' = Tick
    /\ pc' = "loop"
    /\ elapsed' = 0
    /\ burst' = 0
    /\ UNCHANGED <<config, Tick, caller, wanted>>

\* A slip the runs must notice: one tick less is enough.
Passed_Early == ~(Word(Tick - StartTick) + 1 < wanted)

\* The difference of two words is a word.
Passed == ~(Word(Tick - StartTick) < wanted)

\* One evaluation of the loop's condition.
Loop ==
    /\ pc = "loop"
    /\ pc' = IF Passed THEN "returned" ELSE "loop"
    /\ burst' = 0
    /\ UNCHANGED <<config, Tick, caller, wanted, StartTick, elapsed>>

Return ==
    /\ pc = "returned"
    /\ pc' = "idle"
    /\ caller' = NoCall
    /\ wanted' = 0 /\ StartTick' = 0 /\ elapsed' = 0 /\ burst' = 0
    /\ UNCHANGED <<config, Tick>>

Thread == ReadStart \/ Loop \/ Return

Next ==
    \/ TimerCallback
    \/ \E f \in Frequencies : InitTimer(f)
    \/ \E name \in {"WaitS", "Wait10M"}, n \in Counts : Wait(name, n)
    \/ Thread

\* The chip goes on, and interrupts return to the thread.
Spec == Init /\ [][Next]_vars /\ WF_vars(TimerCallback) /\ WF_vars(Thread)

-----------------------------------------------------------------------------
(* Properties.                                                             *)

\* The frequency fits the chip, its product with the argument fits the word,
\* and a hundredth of it is whole: with the 100 Hz of kmain, all that is left
\* is that WaitS(n) needs n below 42949673.
Fits ==
    /\ ChipRate \div TimerFrequency <= 2 ^ ChipBits
    /\ caller.n * UnitOf(caller.name) < 2 ^ WordBits
    /\ caller.name = "Wait10M" => TimerFrequency % Hundred = 0

\* A wait does not return early: the ticks that it has seen, one of which may
\* have been nearly over when it began, make up the time asked for, less what
\* the rounding of the divisor takes off each; wherever Tick started and
\* whether it went through zero in between.
NeverEarly ==
    (pc = "returned" /\ Fits) =>
        LET Cycles == elapsed * (Period + 1)
        IN  IF caller.name = "WaitS"
              THEN Cycles >= caller.n * ChipRate
              ELSE Cycles * Hundred >= caller.n * ChipRate

\* A wait returns, unless it waits for nearly as many ticks as Tick can tell
\* apart, when a burst of ticks may pass the loop by.
WaitEnds ==
    (pc = "loop" /\ wanted + MaxBurst <= 2 ^ WordBits) ~> (pc = "returned")

=============================================================================
