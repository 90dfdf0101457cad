------------------------------ MODULE KeyBuffer ------------------------------
(***************************************************************************)
(* The key buffer of core/kio.c: the keyboard interrupt stores characters  *)
(* in KeyBuff, the kernel thread takes them out again in GetChar.  An      *)
(* interrupt runs to its end (the gate clears IF), so WriteToKeyBuff is    *)
(* one step; it may fall between any two memory accesses of GetChar, so    *)
(* those are steps of their own.  The two char pointers are indexes, the   *)
(* last one of which, SIZE, is the byte behind the array.                  *)
(***************************************************************************)
EXTENDS Integers, Sequences

CONSTANTS
    SIZE,       \* the length of KeyBuff
    Chars,      \* what WriteToKeyBuff is called with
    NUL, NL, BS, BEL, SPACE,
    MaxKeys     \* bound: the characters stored and not rubbed out

ASSUME KeyBufferAssumption ==
    /\ SIZE \in Nat \ {0}
    /\ MaxKeys \in Nat
    /\ NL # BS /\ NL # BEL /\ NL # SPACE

VARIABLES
    KeyBuff,
    BufferRead,     \* where GetChar takes the next character
    BufferWrite,    \* where WriteToKeyBuff stores the next one
    CouldRead,      \* the last key was '\n'
    pc,             \* where the kernel thread is in GetChar
    caller,         \* the function that called GetChar, if any
    ret,            \* GetChar's local: the character read
    typed,          \* history: the characters stored and not rubbed out
    got,            \* history: the characters GetChar has returned
    mishaps         \* history: which of the accidents below have happened

keyboard == <<KeyBuff, BufferWrite, CouldRead, typed, mishaps>>
reader == <<BufferRead, pc, caller, ret, got>>
vars == <<KeyBuff, BufferRead, BufferWrite, CouldRead, pc, caller, ret, typed, got, mishaps>>

\* "wrapped": the writer starts over at the bottom of KeyBuff.
\* "rubbed": '\b' takes the character that GetChar is in the middle of taking.
\* "reopened": '\b' takes the '\n' of a line that GetChar may have begun.
Mishaps == {"wrapped", "rubbed", "reopened"}

Init ==
    /\ KeyBuff = [i \in 0 .. SIZE |-> NUL]
    /\ BufferRead = 0
    /\ BufferWrite = 0
    /\ CouldRead = FALSE
    /\ pc = "idle"
    /\ caller = "none"
    /\ ret = NUL
    /\ typed = << >>
    /\ got = << >>
    /\ mishaps = {}

-----------------------------------------------------------------------------
(* WriteToKeyBuff, in the keyboard interrupt.                              *)

\* '\b': the pointer moves back, and the byte it pointed at is cleared.
RubOut ==
    IF BufferWrite > BufferRead
      THEN /\ KeyBuff' = [KeyBuff EXCEPT ![BufferWrite] = NUL]
           /\ BufferWrite' = BufferWrite - 1
           /\ typed' = SubSeq(typed, 1, Len(typed) - 1)
           /\ mishaps' = mishaps
                 \cup {m \in {"rubbed"} : pc \in {"load", "advance"} /\ BufferWrite - 1 = BufferRead}
                 \cup {m \in {"reopened"} : KeyBuff[BufferWrite - 1] = NL}
      ELSE UNCHANGED <<KeyBuff, BufferWrite, typed, mishaps>>

\* A slip the runs must notice: the writer runs on behind the buffer.
Store_NoWrap(a) ==
    /\ KeyBuff' = [KeyBuff EXCEPT ![BufferWrite] = a]
    /\ BufferWrite' = BufferWrite + 1
    /\ typed' = Append(typed, a)
    /\ UNCHANGED mishaps

\* Any character but '\b' and '\a' is stored, behind the last one.
Store(a) ==
    LET wrap == BufferWrite = SIZE
        at == IF wrap THEN 0 ELSE BufferWrite
    IN  /\ KeyBuff' = [KeyBuff EXCEPT ![at] = a]
        /\ BufferWrite' = at + 1
        /\ typed' = Append(typed, a)
        /\ mishaps' = IF wrap THEN mishaps \cup {"wrapped"} ELSE mishaps

WriteToKeyBuff(a) ==
    /\ CouldRead' = (a = NL)
    /\ \/ a = BS /\ RubOut
       \/ a = BEL /\ UNCHANGED <<KeyBuff, BufferWrite, typed, mishaps>>
       \/ a \notin {BS, BEL} /\ Store(a)
    /\ UNCHANGED reader

-----------------------------------------------------------------------------
(* GetChar, GetStr and GetLine, in the kernel thread.                      *)

IsEmpty == ~(BufferRead < BufferWrite)

\* A call of one of the three functions; GetStr and GetLine loop on GetChar.
Call(f) ==
    /\ pc = "idle"
    /\ pc' = "wait"
    /\ caller' = f
    /\ UNCHANGED <<keyboard, BufferRead, ret, got>>

\* A slip the runs must notice: GetChar does not wait for a line.
WaitCouldRead_Not ==
    /\ pc = "wait"
    /\ pc' = "spin"
    /\ UNCHANGED <<keyboard, BufferRead, caller, ret, got>>

\* Wait(&CouldRead) and while(IsEmpty()) spin until their condition is met.
WaitCouldRead ==
    /\ pc = "wait"
    /\ CouldRead
    /\ pc' = "spin"
    /\ UNCHANGED <<keyboard, BufferRead, caller, ret, got>>

SpinIsEmpty ==
    /\ pc = "spin"
    /\ ~IsEmpty
    /\ pc' = "load"
    /\ UNCHANGED <<keyboard, BufferRead, caller, ret, got>>

\* if (BufferRead == &KeyBuff[1024]) BufferRead = KeyBuff; ret = *BufferRead;
Load ==
    /\ pc = "load"
    /\ LET at == IF BufferRead = SIZE THEN 0 ELSE BufferRead
       IN  /\ BufferRead' = at
           /\ ret' = KeyBuff[at]
    /\ pc' = "advance"
    /\ UNCHANGED <<keyboard, caller, got>>

\* *BufferRead++ = 0 stores the new pointer, then the byte behind it.
Advance ==
    /\ pc = "advance"
    /\ BufferRead' = BufferRead + 1
    /\ pc' = "clear"
    /\ UNCHANGED <<keyboard, caller, ret, got>>

\* A slip the runs must notice: GetStr reads on behind the end of the line.
Stops_NotAtNewline(f, a) ==
    \/ f = "GetChar"
    \/ f = "GetLine" /\ a = NL
    \/ f = "GetStr" /\ a = SPACE

\* Where the loops of GetStr and GetLine stop; GetChar returns at once.
Stops(f, a) ==
    \/ f = "GetChar"
    \/ f = "GetLine" /\ a = NL
    \/ f = "GetStr" /\ a \in {SPACE, NL}

\* A slip the runs must notice: the next byte is cleared, not the one read.
Clear_Next ==
    /\ pc = "clear"
    /\ KeyBuff' = [KeyBuff EXCEPT ![BufferRead] = NUL]
    /\ got' = Append(got, ret)
    /\ IF Stops(caller, ret)
         THEN pc' = "idle" /\ caller' = "none"
         ELSE pc' = "wait" /\ UNCHANGED caller
    /\ UNCHANGED <<BufferRead, BufferWrite, CouldRead, ret, typed, mishaps>>

\* The byte is cleared, GetChar returns, and its caller goes on.
Clear ==
    /\ pc = "clear"
    /\ KeyBuff' = [KeyBuff EXCEPT ![BufferRead - 1] = NUL]
    /\ got' = Append(got, ret)
    /\ IF Stops(caller, ret)
         THEN pc' = "idle" /\ caller' = "none"
         ELSE pc' = "wait" /\ UNCHANGED caller
    /\ UNCHANGED <<BufferRead, BufferWrite, CouldRead, ret, typed, mishaps>>

Functions == {"GetChar", "GetStr", "GetLine"}

GetChar == WaitCouldRead \/ SpinIsEmpty \/ Load \/ Advance \/ Clear

\* MaxKeys bounds the characters stored and not rubbed out.
Key == \E a \in Chars : (Len(typed) < MaxKeys \/ a \in {BS, BEL}) /\ WriteToKeyBuff(a)

Next == Key \/ GetChar \/ \E f \in Functions : Call(f)

\* Interrupts return to the kernel thread, which then goes on with GetChar.
Spec == Init /\ [][Next]_vars /\ WF_vars(GetChar)

-----------------------------------------------------------------------------
(* Properties.                                                             *)

\* The types of the variables.
TypeOK ==
    /\ KeyBuff \in [0 .. SIZE -> Chars \cup {NUL}]
    /\ BufferRead \in Nat /\ BufferWrite \in Nat
    /\ CouldRead \in BOOLEAN
    /\ pc \in {"idle", "wait", "spin", "load", "advance", "clear"}
    /\ caller \in Functions \cup {"none"}
    /\ ret \in Chars \cup {NUL}
    /\ typed \in Seq(Chars) /\ got \in Seq(Chars \cup {NUL})
    /\ mishaps \subseteq Mishaps

\* Every access of GetChar, and every character stored, falls inside KeyBuff,
\* although neither function looks at both pointers at once and '\b' may move
\* BufferWrite back after IsEmpty has been passed.
PointersInBuffer ==
    /\ BufferRead \in 0 .. SIZE /\ BufferWrite \in 0 .. SIZE
    /\ pc \in {"load", "advance"} => BufferRead < SIZE
    /\ pc = "clear" => BufferRead > 0

\* What KeyBuff holds between the pointers is what was typed and not yet taken,
\* and what GetChar returned is what was typed first: nothing is lost, doubled
\* or reordered by the two sides meeting in the buffer, until the
\* writer wraps around or a character is rubbed out while it is being taken.
NothingLost ==
    mishaps \subseteq {"reopened"} =>
        /\ Len(typed) = BufferWrite
        /\ Len(got) = IF pc = "clear" THEN BufferRead - 1 ELSE BufferRead
        /\ BufferRead <= BufferWrite
        /\ \A i \in 1 .. Len(got) : got[i] = typed[i]
        /\ pc = "clear" => ret = typed[BufferRead]
        /\ \A i \in (BufferRead + 1) .. BufferWrite : KeyBuff[i - 1] = typed[i]

\* GetChar waits for a whole line: of the line still being typed, and still
\* open to '\b', the reader has at most one character.  (One, because CouldRead
\* stays true after the last line has been read.)
OpenLine == {i \in 1 .. Len(typed) : \A j \in i .. Len(typed) : typed[j] # NL}
ReadsAheadAtMostOne ==
    mishaps = {} =>
        \A i, j \in OpenLine : i <= BufferRead /\ j <= BufferRead => i = j

\* A call that finds a whole line to read returns, unless the user types on and
\* so clears CouldRead, or the writer wraps around.
CompleteLineIsReturned ==
    (pc = "wait" /\ CouldRead /\ ~IsEmpty)
        ~> (pc = "idle" \/ ~CouldRead \/ mishaps # {})

=============================================================================
