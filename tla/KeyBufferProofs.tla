--------------------------- MODULE KeyBufferProofs ---------------------------
(* What holds of KeyBuff for every size of the buffer and every typist.    *)
EXTENDS KeyBuffer, TLAPS

\* What the thread has in hand inside GetChar: past IsEmpty there is something
\* to take as long as nobody rubbed it out, and ret is what was there.
InHand ==
    mishaps \subseteq {"reopened"} =>
        /\ pc \in {"load", "advance"} => BufferRead < BufferWrite
        /\ pc = "advance" => ret = typed[BufferRead + 1]

IInv == TypeOK /\ PointersInBuffer /\ NothingLost /\ InHand

\* The buffer starts empty, with both pointers on its first cell.
LEMMA InitIInv == Init => IInv
<1> SUFFICES ASSUME Init PROVE IInv
  OBVIOUS
<1>1. TypeOK
  <2>1. KeyBuff \in [0 .. SIZE -> Chars \cup {NUL}]
    BY DEF Init
  <2>2. typed \in Seq(Chars) /\ got \in Seq(Chars \cup {NUL})
    BY DEF Init
  <2> QED
    BY <2>1, <2>2 DEF Init, TypeOK
<1>2. PointersInBuffer
  BY KeyBufferAssumption DEF Init, PointersInBuffer
<1>3. NothingLost
  BY DEF Init, NothingLost
<1>4. InHand
  BY DEF Init, InHand
<1> QED
  BY <1>1, <1>2, <1>3, <1>4 DEF IInv

\* '\b' in the keyboard interrupt.
LEMMA RubOutIInv ==
    ASSUME IInv, BS \in Chars, CouldRead' \in BOOLEAN, RubOut, UNCHANGED reader
    PROVE  IInv'
<1>0. SIZE \in Nat \ {0}
  BY KeyBufferAssumption
<1>1. CASE BufferWrite > BufferRead
  <2>1. /\ KeyBuff' = [KeyBuff EXCEPT ![BufferWrite] = NUL]
        /\ BufferWrite' = BufferWrite - 1
        /\ typed' = SubSeq(typed, 1, Len(typed) - 1)
        /\ mishaps \subseteq mishaps'
        /\ mishaps' \subseteq Mishaps
        /\ pc \in {"load", "advance"} /\ BufferWrite - 1 = BufferRead => "rubbed" \in mishaps'
    BY <1>1 DEF RubOut, IInv, TypeOK, Mishaps
  <2>2. UNCHANGED <<BufferRead, pc, caller, ret, got>>
    BY DEF reader
  <2>3. BufferRead \in 0 .. SIZE /\ BufferWrite \in 1 .. SIZE
    BY <1>0, <1>1 DEF IInv, PointersInBuffer
  <2>4. typed' \in Seq(Chars)
    BY <2>1 DEF IInv, TypeOK
  <2>5. TypeOK'
    BY <1>0, <2>1, <2>2, <2>3, <2>4 DEF IInv, TypeOK
  <2>6. PointersInBuffer'
    BY <1>0, <2>1, <2>2, <2>3 DEF IInv, PointersInBuffer
  <2>7. ASSUME mishaps' \subseteq {"reopened"} PROVE mishaps \subseteq {"reopened"}
    BY <2>1, <2>7
  <2>8. ASSUME mishaps' \subseteq {"reopened"}
        PROVE  Len(typed') = BufferWrite' /\ \A i \in 1 .. BufferWrite' : typed'[i] = typed[i]
    BY <2>1, <2>3, <2>7, <2>8 DEF IInv, TypeOK, NothingLost
  <2>9. NothingLost'
    BY <1>1, <2>1, <2>2, <2>3, <2>7, <2>8 DEF IInv, TypeOK, NothingLost, InHand, PointersInBuffer
  <2>10. InHand'
    BY <1>1, <2>1, <2>2, <2>3, <2>7, <2>8 DEF IInv, TypeOK, NothingLost, InHand
  <2> QED
    BY <2>5, <2>6, <2>9, <2>10 DEF IInv
<1>2. CASE ~(BufferWrite > BufferRead)
  <2>1. UNCHANGED <<KeyBuff, BufferWrite, typed, mishaps, BufferRead, pc, caller, ret, got>>
    BY <1>2 DEF RubOut, reader
  <2> QED
    BY <2>1 DEF IInv, TypeOK, PointersInBuffer, NothingLost, InHand
<1> QED
  BY <1>1, <1>2

\* A stored character in the keyboard interrupt.
LEMMA StoreIInv ==
    ASSUME IInv, NEW a \in Chars, CouldRead' \in BOOLEAN, Store(a), UNCHANGED reader
    PROVE  IInv'
<1>0. SIZE \in Nat \ {0}
  BY KeyBufferAssumption
<1> DEFINE at == IF BufferWrite = SIZE THEN 0 ELSE BufferWrite
<1>1. /\ KeyBuff' = [KeyBuff EXCEPT ![at] = a]
      /\ BufferWrite' = at + 1
      /\ typed' = Append(typed, a)
      /\ mishaps' = IF BufferWrite = SIZE THEN mishaps \cup {"wrapped"} ELSE mishaps
  BY DEF Store
<1>2. UNCHANGED <<BufferRead, pc, caller, ret, got>>
  BY DEF reader
<1>3. at \in 0 .. (SIZE - 1) /\ BufferRead \in 0 .. SIZE /\ BufferWrite \in 0 .. SIZE
  BY <1>0 DEF IInv, PointersInBuffer
<1>4. TypeOK'
  BY <1>0, <1>1, <1>2, <1>3 DEF IInv, TypeOK, Mishaps
<1>5. PointersInBuffer'
  BY <1>0, <1>1, <1>2, <1>3 DEF IInv, PointersInBuffer
<1>6. ASSUME mishaps' \subseteq {"reopened"}
      PROVE  mishaps \subseteq {"reopened"} /\ BufferWrite # SIZE
  BY <1>1, <1>6
<1>7. ASSUME mishaps' \subseteq {"reopened"}
      PROVE  /\ Len(typed') = BufferWrite'
             /\ typed'[BufferWrite'] = a
             /\ \A i \in 1 .. BufferWrite : typed'[i] = typed[i]
  <2>1. Len(typed) = BufferWrite /\ typed \in Seq(Chars)
    BY <1>6, <1>7 DEF IInv, TypeOK, NothingLost
  <2>2. BufferWrite' = BufferWrite + 1
    BY <1>1, <1>6, <1>7
  <2> QED
    BY <1>1, <1>3, <2>1, <2>2
<1>8. ASSUME mishaps' \subseteq {"reopened"}
      PROVE  /\ BufferWrite' = BufferWrite + 1
             /\ KeyBuff'[BufferWrite] = a
             /\ \A i \in 0 .. (BufferWrite - 1) : KeyBuff'[i] = KeyBuff[i]
  BY <1>0, <1>1, <1>3, <1>6, <1>8 DEF IInv, TypeOK
<1>9. NothingLost'
  <2> SUFFICES ASSUME mishaps' \subseteq {"reopened"}
               PROVE  NothingLost!2'
    BY DEF NothingLost
  <2> QED
    BY <1>2, <1>3, <1>6, <1>7, <1>8 DEF IInv, TypeOK, NothingLost, PointersInBuffer
<1>10. InHand'
  <2> SUFFICES ASSUME mishaps' \subseteq {"reopened"}
               PROVE  InHand!2'
    BY DEF InHand
  <2> QED
    BY <1>2, <1>3, <1>6, <1>7, <1>8 DEF IInv, TypeOK, NothingLost, InHand
<1> QED
  BY <1>4, <1>5, <1>9, <1>10 DEF IInv

\* The five steps of GetChar in the kernel thread.
LEMMA GetCharIInv == ASSUME IInv, GetChar PROVE IInv'
<1>0. SIZE \in Nat \ {0}
  BY KeyBufferAssumption
<1> USE DEF IInv, TypeOK, PointersInBuffer, NothingLost, InHand, keyboard
<1>1. CASE WaitCouldRead
  BY <1>1 DEF WaitCouldRead
<1>2. CASE SpinIsEmpty
  BY <1>0, <1>2 DEF SpinIsEmpty, IsEmpty
<1>3. CASE Load
  <2>1. BufferRead < SIZE /\ BufferRead \in 0 .. SIZE /\ pc = "load"
    BY <1>0, <1>3 DEF Load
  <2>2. /\ BufferRead' = BufferRead /\ ret' = KeyBuff[BufferRead] /\ pc' = "advance"
        /\ UNCHANGED <<KeyBuff, BufferWrite, CouldRead, typed, mishaps, caller, got>>
    BY <2>1, <1>3 DEF Load
  <2>3. ret' \in Chars \cup {NUL}
    BY <1>0, <2>1, <2>2
  <2>4. TypeOK' /\ PointersInBuffer'
    BY <1>0, <2>1, <2>2, <2>3
  <2>5. NothingLost'
    BY <2>1, <2>2
  <2>6. InHand'
    BY <2>1, <2>2
  <2> QED
    BY <2>4, <2>5, <2>6
<1>4. CASE Advance
  <2>1. BufferRead < SIZE /\ BufferRead \in 0 .. SIZE /\ pc = "advance"
    BY <1>0, <1>4 DEF Advance
  <2>2. /\ BufferRead' = BufferRead + 1 /\ pc' = "clear"
        /\ UNCHANGED <<KeyBuff, BufferWrite, CouldRead, typed, mishaps, caller, ret, got>>
    BY <1>4 DEF Advance
  <2> QED
    BY <1>0, <2>1, <2>2
<1>5. CASE Clear
  <2>1. BufferRead \in 1 .. SIZE /\ pc = "clear"
    BY <1>0, <1>5 DEF Clear
  <2>2. /\ KeyBuff' = [KeyBuff EXCEPT ![BufferRead - 1] = NUL]
        /\ got' = Append(got, ret)
        /\ pc' \in {"idle", "wait"} /\ caller' \in {"none", caller}
        /\ UNCHANGED <<BufferRead, BufferWrite, CouldRead, ret, typed, mishaps>>
    BY <1>5 DEF Clear
  <2>3. TypeOK'
    BY <1>0, <2>1, <2>2
  <2>4. PointersInBuffer'
    BY <2>1, <2>2
  <2>5. Len(got') = Len(got) + 1 /\ got'[Len(got')] = ret /\ \A i \in 1 .. Len(got) : got'[i] = got[i]
    BY <2>2
  <2>6. NothingLost'
    BY <1>0, <2>1, <2>2, <2>5
  <2>7. InHand'
    BY <2>1, <2>2
  <2> QED
    BY <2>3, <2>4, <2>6, <2>7
<1> QED
  BY <1>1, <1>2, <1>3, <1>4, <1>5 DEF GetChar

\* The invariant is inductive.
THEOREM KeyBufferInvariant == Spec => []IInv
<1>1. IInv /\ [Next]_vars => IInv'
  <2> SUFFICES ASSUME IInv, [Next]_vars PROVE IInv'
    OBVIOUS
  <2>1. ASSUME NEW a \in Chars, WriteToKeyBuff(a) PROVE IInv'
    <3>1. CouldRead' \in BOOLEAN /\ UNCHANGED reader
      BY <2>1 DEF WriteToKeyBuff
    <3>2. CASE a = BS /\ RubOut
      BY <3>1, <3>2, RubOutIInv
    <3>3. CASE a = BEL /\ UNCHANGED <<KeyBuff, BufferWrite, typed, mishaps>>
      BY <3>1, <3>3 DEF reader, IInv, TypeOK, PointersInBuffer, NothingLost, InHand
    <3>4. CASE a \notin {BS, BEL} /\ Store(a)
      BY <3>1, <3>4, StoreIInv
    <3> QED
      BY <2>1, <3>2, <3>3, <3>4 DEF WriteToKeyBuff
  <2>2. CASE GetChar
    BY <2>2, GetCharIInv
  <2>3. ASSUME NEW f \in Functions, Call(f) PROVE IInv'
    BY <2>3 DEF Call, keyboard, IInv, TypeOK, PointersInBuffer, NothingLost, InHand
  <2>4. CASE UNCHANGED vars
    BY <2>4 DEF vars, IInv, TypeOK, PointersInBuffer, NothingLost, InHand
  <2> QED
    BY <2>1, <2>2, <2>3, <2>4 DEF Next, Key
<1> QED
  BY <1>1, InitIInv, PTL DEF Spec

\* No access of GetChar and no stored character falls outside KeyBuff.
THEOREM PointersStayInBuffer == Spec => []PointersInBuffer
<1>1. IInv => PointersInBuffer
  BY DEF IInv
<1> QED
  BY <1>1, KeyBufferInvariant, PTL

\* Until the writer wraps around or '\b' meets GetChar, what is typed is what
\* is read, in its order.
THEOREM TypedIsRead == Spec => []NothingLost
<1>1. IInv => NothingLost
  BY DEF IInv
<1> QED
  BY <1>1, KeyBufferInvariant, PTL

\* That the reader is at most one character ahead is not inductive either: what
\* lets it go on is a line end, seen in CouldRead before IsEmpty is tested and used
\* after it, while the user types on and rubs out.
LineEndFrom(n) == \E j \in 1 .. Len(typed) : j >= n /\ typed[j] = NL
BehindALineEnd ==
    mishaps = {} =>
        /\ CouldRead => Len(typed) > 0 /\ typed[Len(typed)] = NL
        /\ pc \in {"spin", "load", "advance"} => LineEndFrom(BufferRead)
        /\ BufferRead >= 2 => LineEndFrom(BufferRead - 1)

\* Line ends stay where they are: '\b' over one is the accident "reopened".
LEMMA LineEndsStay ==
    ASSUME IInv, NEW a \in Chars, WriteToKeyBuff(a), mishaps' = {}, NEW n \in Int, LineEndFrom(n)
    PROVE  LineEndFrom(n)'
<1>1. CASE a = BS /\ RubOut /\ BufferWrite > BufferRead
  <2>1. /\ typed' = SubSeq(typed, 1, Len(typed) - 1)
        /\ mishaps = {} /\ KeyBuff[BufferWrite - 1] # NL
    BY <1>1 DEF RubOut
  <2>2. Len(typed) = BufferWrite /\ typed[BufferWrite] # NL
    BY <1>1, <2>1 DEF IInv, TypeOK, NothingLost
  <2>3. Len(typed') = Len(typed) - 1 /\ \A j \in 1 .. Len(typed') : typed'[j] = typed[j]
    BY <1>1, <2>1, <2>2 DEF IInv, TypeOK
  <2> QED
    BY <2>2, <2>3 DEF LineEndFrom, IInv, TypeOK
<1>2. CASE a \notin {BS, BEL} /\ Store(a)
  <2>1. typed' = Append(typed, a) /\ typed \in Seq(Chars)
    BY <1>2 DEF Store, IInv, TypeOK
  <2>2. Len(typed') = Len(typed) + 1 /\ \A j \in 1 .. Len(typed) : typed'[j] = typed[j]
    BY <2>1
  <2> QED
    BY <2>1, <2>2 DEF LineEndFrom
<1>3. CASE UNCHANGED typed
  BY <1>3 DEF LineEndFrom
<1> QED
  BY <1>1, <1>2, <1>3 DEF WriteToKeyBuff, RubOut

\* The thread takes a character only behind a line end.
LEMMA BehindALineEndStep ==
    ASSUME IInv, BehindALineEnd, [Next]_vars
    PROVE  BehindALineEnd'
<1> SUFFICES ASSUME mishaps' = {} PROVE BehindALineEnd!2'
  BY DEF BehindALineEnd
<1>1. ASSUME NEW a \in Chars, WriteToKeyBuff(a) PROVE BehindALineEnd!2'
  <2>1. mishaps = {} /\ UNCHANGED <<BufferRead, pc>> /\ CouldRead' = (a = NL) /\ BufferRead \in Nat
    BY <1>1 DEF WriteToKeyBuff, RubOut, Store, reader, IInv, TypeOK
  <2>2. ASSUME a = NL PROVE Len(typed') > 0 /\ typed'[Len(typed')] = NL
    <3>1. typed' = Append(typed, NL) /\ typed \in Seq(Chars)
      BY <1>1, <2>2, KeyBufferAssumption DEF WriteToKeyBuff, Store, IInv, TypeOK
    <3> QED
      BY <1>1, <2>2, <3>1
  <2>3. pc \in {"spin", "load", "advance"} => LineEndFrom(BufferRead)'
    BY <1>1, <2>1, LineEndsStay DEF BehindALineEnd, LineEndFrom
  <2>4. BufferRead >= 2 => LineEndFrom(BufferRead - 1)'
    <3>1. BufferRead >= 2 => LineEndFrom(BufferRead - 1)
      BY <2>1 DEF BehindALineEnd
    <3> QED
      BY <1>1, <2>1, <3>1, LineEndsStay DEF LineEndFrom
  <2> QED
    BY <2>1, <2>2, <2>3, <2>4 DEF LineEndFrom
<1>2. CASE GetChar \/ \E f \in Functions : Call(f)
  <2> USE DEF BehindALineEnd, LineEndFrom, IInv, TypeOK, keyboard
  <2>1. CASE WaitCouldRead
    BY <2>1 DEF WaitCouldRead, NothingLost
  <2>2. CASE SpinIsEmpty
    BY <2>2 DEF SpinIsEmpty
  <2>3. CASE Load
    BY <2>3 DEF Load, PointersInBuffer
  <2>4. CASE Advance
    BY <2>4 DEF Advance
  <2>5. CASE Clear
    BY <2>5 DEF Clear
  <2>6. ASSUME NEW f \in Functions, Call(f) PROVE BehindALineEnd!2'
    BY <2>6 DEF Call
  <2> QED
    BY <1>2, <2>1, <2>2, <2>3, <2>4, <2>5, <2>6 DEF GetChar
<1>3. CASE UNCHANGED vars
  BY <1>3 DEF vars, BehindALineEnd, LineEndFrom
<1> QED
  BY <1>1, <1>2, <1>3 DEF Next, Key

\* Of a line that '\b' may still change, GetChar has taken one character at
\* most, and that one because CouldRead outlives the line it was set for.
THEOREM ReaderWaitsForLines == Spec => []ReadsAheadAtMostOne
<1>1. Init => BehindALineEnd
  BY DEF Init, BehindALineEnd
<1>2. IInv /\ BehindALineEnd => ReadsAheadAtMostOne
  <2> SUFFICES ASSUME IInv, BehindALineEnd, mishaps = {},
                      NEW i \in OpenLine, NEW j \in OpenLine,
                      i <= BufferRead, j <= BufferRead, i < j
               PROVE  FALSE
    BY DEF ReadsAheadAtMostOne, OpenLine, IInv, TypeOK
  <2>1. LineEndFrom(BufferRead - 1)
    BY DEF BehindALineEnd, OpenLine, IInv, TypeOK
  <2> QED
    BY <2>1 DEF LineEndFrom, OpenLine, IInv, TypeOK
<1> QED
  BY <1>1, <1>2, BehindALineEndStep, KeyBufferInvariant, PTL DEF Spec

=============================================================================
