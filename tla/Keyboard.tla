------------------------------ MODULE Keyboard ------------------------------
(***************************************************************************)
(* What core/keyboard.c makes of scan codes.  The user presses and lets go *)
(* of keys, and the keyboard repeats the one pressed last; each movement   *)
(* is a scan code, which waits in the keyboard until an interrupt reads    *)
(* it.  The driver keeps no set of keys that are down: shift, control and  *)
(* alt each turn a bit over, at every code, up or down.  Keys without a    *)
(* way, which change nothing, are left out; Interrupts has those of fun.   *)
(***************************************************************************)
EXTENDS Integers, Sequences, FiniteSets

CONSTANTS
    Shifts, Ctrls, Alts, Caps, Letters,     \* the keys, by the way they take in KeyWay
    MaxCodes        \* bound: the scan codes the keyboard keeps

Keys == Shifts \cup Ctrls \cup Alts \cup Caps \cup Letters

ASSUME KeyboardAssumption ==
    /\ IsFiniteSet(Keys)
    /\ MaxCodes \in Nat \ {0}
    /\ LET way == <<Shifts, Ctrls, Alts, Caps, Letters>>      \* KeyWay has one way a key
       IN  \A i, j \in DOMAIN way : i # j => way[i] \cap way[j] = {}

VARIABLES
    down,           \* the keys the user holds down
    last,           \* the key the keyboard repeats: {} or that of the last press
    lock,           \* history: presses of Caps Lock, modulo 2
    codes,          \* the scan codes not yet read, the oldest first
    ShiftPressed, CtrlPressed, AltPressed, UpperCase,
    written,        \* history: the last call of WriteToKeyBuff
    mishaps         \* history: which of the accidents below have happened

user == <<down, last, lock, codes>>
driver == <<ShiftPressed, CtrlPressed, AltPressed, UpperCase, written>>
vars == <<down, last, lock, codes, ShiftPressed, CtrlPressed, AltPressed, UpperCase, written, mishaps>>

\* "held": a modifier is down when the driver starts.
\* "repeated": a modifier is held long enough for the keyboard to repeat it.
\* "dropped": the keyboard has no room for a code.
Mishaps == {"held", "repeated", "dropped"}

Modifiers == Shifts \cup Ctrls \cup Alts \cup Caps

Odd(S) == Cardinality(S) % 2

Held(S) == IF S \cap down = {} THEN 0 ELSE 1

\* Two keys that share a bit are down at once, as both shift keys may be.
Together(S) == \E j, k \in S \cap down : j # k

\* The case that the keys ask for: KeyMap's second column while Caps Lock is on
\* or a shift key is down, the first with both or neither.
AskedCase == (lock + Held(Shifts)) % 2

Init ==
    /\ down \in SUBSET Modifiers
    /\ last = {}
    /\ lock = 0
    /\ codes = << >>
    /\ ShiftPressed = 0 /\ CtrlPressed = 0 /\ AltPressed = 0 /\ UpperCase = 0
    /\ written = << >>
    /\ mishaps = IF down = {} THEN {} ELSE {"held"}

-----------------------------------------------------------------------------
(* The user and the keyboard.                                              *)

\* A code in the queue; that of a letter going down keeps the case asked for,
\* and whether it was asked for with two shift keys.
Send(key, up, others) ==
    IF Len(codes) < MaxCodes
      THEN /\ codes' = Append(codes, [key |-> key, up |-> up,
                                      case |-> IF key \in Letters /\ ~up THEN AskedCase ELSE 0,
                                      twice |-> key \in Letters /\ ~up /\ Together(Shifts)])
           /\ mishaps' = mishaps \cup others
      ELSE /\ UNCHANGED codes
           /\ mishaps' = mishaps \cup others \cup {"dropped"}

Press(key) ==
    /\ key \notin down
    /\ down' = down \cup {key}
    /\ last' = {key}
    /\ lock' = IF key \in Caps THEN 1 - lock ELSE lock
    /\ Send(key, FALSE, {})
    /\ UNCHANGED driver

Release(key) ==
    /\ key \in down
    /\ down' = down \ {key}
    /\ last' = last \ {key}
    /\ Send(key, TRUE, {})
    /\ UNCHANGED <<lock, driver>>

Repeat ==
    /\ \E key \in last : Send(key, FALSE, {m \in {"repeated"} : key \in Modifiers})
    /\ UNCHANGED <<down, last, lock, driver>>

-----------------------------------------------------------------------------
(* The ways of KeyboardCallback, each for one scan code.                   *)

\* A slip the runs must notice: a letter is typed again as its key goes up.
pln_BothWays(code) ==
    /\ written' = <<[case |-> UpperCase, asked |-> code.case, twice |-> code.twice]>>
    /\ UNCHANGED <<ShiftPressed, CtrlPressed, AltPressed, UpperCase>>

\* pln: the character is KeyMap's, in the column that UpperCase names.
pln(code) ==
    /\ written' = IF code.up THEN written
                  ELSE <<[case |-> UpperCase, asked |-> code.case, twice |-> code.twice]>>
    /\ UNCHANGED <<ShiftPressed, CtrlPressed, AltPressed, UpperCase>>

ctl ==
    /\ CtrlPressed' = 1 - CtrlPressed
    /\ UNCHANGED <<ShiftPressed, AltPressed, UpperCase, written>>

alt ==
    /\ AltPressed' = 1 - AltPressed
    /\ UNCHANGED <<ShiftPressed, CtrlPressed, UpperCase, written>>

\* A slip the runs must notice: shift and Caps Lock do not undo each other.
shf_Sets(code) ==
    /\ ShiftPressed' = 1 - ShiftPressed
    /\ UpperCase' = IF code.up THEN 0 ELSE 1
    /\ UNCHANGED <<CtrlPressed, AltPressed, written>>

shf(code) ==
    /\ ShiftPressed' = 1 - ShiftPressed
    /\ UpperCase' = 1 - UpperCase
    /\ UNCHANGED <<CtrlPressed, AltPressed, written>>

cap(code) ==
    /\ UpperCase' = IF code.up THEN UpperCase ELSE 1 - UpperCase
    /\ UNCHANGED <<ShiftPressed, CtrlPressed, AltPressed, written>>

KeyboardCallback ==
    /\ codes # << >>
    /\ codes' = Tail(codes)
    /\ LET code == Head(codes)
       IN  \/ code.key \in Letters /\ pln(code)
           \/ code.key \in Ctrls /\ ctl
           \/ code.key \in Alts /\ alt
           \/ code.key \in Shifts /\ shf(code)
           \/ code.key \in Caps /\ cap(code)
    /\ UNCHANGED <<down, last, lock, mishaps>>

Next ==
    \/ \E key \in Keys : Press(key) \/ Release(key)
    \/ Repeat
    \/ KeyboardCallback

\* The state constraint of the runs: what follows a mishap concerns no property.
NoMishap == mishaps = {}

Spec == Init /\ [][Next]_vars

-----------------------------------------------------------------------------
(* Properties.                                                             *)

\* Each letter is written in the case that was asked for when its key went
\* down, however many codes were still waiting to be read then and whatever the
\* user has pressed since; but for those that two shift keys at once asked for,
\* each of which turned UpperCase over.
WrittenAsTyped ==
    mishaps = {} =>
        \A i \in 1 .. Len(written) : written[i].twice \/ written[i].case = written[i].asked

\* Bits that are only ever turned over stay right: what the driver remembers,
\* with the codes still to be read, is whether the user holds such a key down, but
\* while he holds two keys that share the bit.  With one of them let go it is
\* right again, in whatever order they came and went.
Turns(S) == {i \in 1 .. Len(codes) : codes[i].key \in S}
InStep ==
    mishaps = {} =>
        /\ Together(Shifts) \/ (ShiftPressed + Odd(Turns(Shifts))) % 2 = Held(Shifts)
        /\ Together(Ctrls) \/ (CtrlPressed + Odd(Turns(Ctrls))) % 2 = Held(Ctrls)
        /\ Together(Alts) \/ (AltPressed + Odd(Turns(Alts))) % 2 = Held(Alts)
        /\ \/ Together(Shifts)
           \/ (UpperCase + Odd({i \in Turns(Shifts \cup Caps) :
                                   codes[i].key \in Shifts \/ ~codes[i].up})) % 2 = AskedCase

=============================================================================
