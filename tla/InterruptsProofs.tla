-------------------------- MODULE InterruptsProofs --------------------------
(* What holds of the interrupts whatever arrives and when, and whatever     *)
(* the keyboard handler may read from port 0x61.                            *)
EXTENDS Interrupts, TLAPS

Steps == {"dispatch", "read", "fun", "fault", "ack", "eoi", "iret"}

\* Only the keyboard's stub takes the steps of KeyboardCallback, only a page
\* fault's those of PageFault, and only that of an IRQ reports to the controllers.
Stubs ==
    {b \in [vector : Vectors, step : Steps, IFlag : BOOLEAN] :
        /\ b.step \in {"read", "fun", "ack"} => b.vector = Vector(1)
        /\ b.step = "fault" => b.vector = 14
        /\ b.step = "eoi" => IsIRQ(b.vector)}
PageFaults == {b \in Stubs : b.vector = 14}

\* Page faults only, each but the innermost at an access of PageFault.
FaultsNest ==
    /\ stack # << >> /\ stack \in Seq(PageFaults)
    /\ \A i \in 1 .. (Len(stack) - 1) : stack[i].IFlag = FALSE /\ stack[i + 1].step = "fault"

\* Nothing runs, or one stub, or that of exception 13 on top of one at its
\* int $0x80, or page faults.
Nested ==
    /\ IFlag \in BOOLEAN
    /\ IFlag => stack = << >>
    /\ \/ stack = << >>
       \/ \E b \in Stubs : stack = <<b>> /\ b.vector # 14
       \/ \E e, b \in Stubs :
             stack = <<e, b>> /\ e.vector = 13 /\ e.IFlag = FALSE /\ b.step = "fun"
       \/ FaultsNest

\* KeyboardCallback is registered for interrupt 33 and PageFault for exception
\* 14, and for no other ones.
Handlers ==
    /\ InterruptHandlers \in
          [Vectors -> {"none", "TimerCallback", "KeyboardCallback", "PageFault"}]
    /\ \A v \in Vectors : InterruptHandlers[v] = "KeyboardCallback" => v = Vector(1)
    /\ \A v \in Vectors : InterruptHandlers[v] = "PageFault" => v = 14
    /\ InterruptHandlers[Vector(1)] \in {"none", "KeyboardCallback"}

Base == stack[Len(stack)]

\* Lines are in service for one interrupt only, the outermost, and until it has
\* told the controllers.
Served ==
    isr # {} =>
        /\ stack # << >> /\ IsIRQ(Base.vector) /\ Base.step # "iret"
        /\ isr \subseteq InService(Base.vector - 32)

IInv == Nested /\ Handlers /\ Served /\ WaitingKeyIsFetched

-----------------------------------------------------------------------------
(* Stacks of one stub and of two.                                          *)

LEMMA JoinOne == ASSUME NEW x PROVE <<x>> \o << >> = <<x>>
  OBVIOUS

LEMMA JoinTwo == ASSUME NEW x, NEW y PROVE <<x>> \o <<y>> = <<x, y>>
<1> DEFINE S == {x, y}
           xy == <<x>> \o <<y>>
<1>1. <<x>> \in Seq(S) /\ <<y>> \in Seq(S) /\ <<x, y>> \in Seq(S)
  OBVIOUS
<1>2. xy \in Seq(S) /\ Len(xy) = 2 /\ xy[1] = x /\ xy[2] = y
  BY <1>1
<1>3. \A s \in Seq(S) : Len(s) = 2 => s = <<s[1], s[2]>>
  OBVIOUS
<1> HIDE DEF S, xy
<1> QED
  BY <1>2, <1>3 DEF xy

LEMMA OneStub ==
    ASSUME NEW b, stack = <<b>>
    PROVE  /\ stack # << >> /\ Len(stack) = 1 /\ stack[1] = b /\ Top = b /\ Base = b
           /\ Tail(stack) = << >>
  BY DEF Top, Base

LEMMA TwoStubs ==
    ASSUME NEW e, NEW b, stack = <<e, b>>
    PROVE  /\ stack # << >> /\ Len(stack) = 2 /\ stack[1] = e /\ stack[2] = b
           /\ Top = e /\ Base = b
           /\ Tail(stack) = <<b>>
  BY DEF Top, Base

\* What a step of the stub that runs does to the stack.
LEMMA GotoOne ==
    ASSUME NEW b \in Stubs, stack = <<b>>, NEW s, Goto(s)
    PROVE  stack' = <<[b EXCEPT !.step = s]>>
<1> DEFINE c == [b EXCEPT !.step = s]
<1>1. stack' = <<c>> \o << >>
  <2>1. Top = b /\ Tail(stack) = << >>
    BY OneStub
  <2> QED
    BY <2>1, Zenon DEF Goto
<1> HIDE DEF c
<1>2. <<c>> \o << >> = <<c>>
  BY JoinOne
<1> QED
  BY <1>1, <1>2, Zenon DEF c

LEMMA GotoTwo ==
    ASSUME NEW e \in Stubs, NEW b \in Stubs, stack = <<e, b>>, NEW s, Goto(s)
    PROVE  stack' = <<[e EXCEPT !.step = s], b>>
<1> DEFINE c == [e EXCEPT !.step = s]
<1>1. stack' = <<c>> \o <<b>>
  <2>1. Top = e /\ Tail(stack) = <<b>>
    BY TwoStubs
  <2> QED
    BY <2>1, Zenon DEF Goto
<1> HIDE DEF c
<1>2. <<c>> \o <<b>> = <<c, b>>
  BY JoinTwo
<1> QED
  BY <1>1, <1>2, Zenon DEF c

\* The stub that an interrupt starts.
Started(vector) == [vector |-> vector, step |-> "dispatch", IFlag |-> IFlag]

LEMMA PushNone ==
    ASSUME stack = << >>, NEW v
    PROVE  Push(v) = <<Started(v)>>
  BY JoinOne DEF Push, Started

LEMMA PushOne ==
    ASSUME NEW b, stack = <<b>>, NEW v
    PROVE  Push(v) = <<Started(v), b>>
  BY JoinTwo DEF Push, Started

\* Stacks of page faults.
LEMMA Pushed ==
    ASSUME NEW S, NEW q \in Seq(S), NEW x \in S
    PROVE  LET p == <<x>> \o q
           IN  /\ p \in Seq(S) /\ p # << >> /\ Len(p) = Len(q) + 1 /\ p[1] = x
               /\ \A i \in 1 .. Len(q) : p[i + 1] = q[i]
<1> DEFINE p == <<x>> \o q
<1>1. <<x>> \in Seq(S) /\ Len(<<x>>) = 1 /\ <<x>>[1] = x
  OBVIOUS
<1>2. p \in Seq(S) /\ Len(p) = 1 + Len(q) /\ Len(q) \in Nat
  BY <1>1
<1>3. p[1] = x
  BY <1>1
<1>4. \A i \in 1 .. Len(q) : p[i + 1] = q[i]
  BY <1>1
<1>5. p # << >>
  BY <1>2
<1> QED
  BY <1>2, <1>3, <1>4, <1>5

LEMMA FaultFacts ==
    ASSUME FaultsNest
    PROVE  /\ Len(stack) \in Nat \ {0} /\ Top \in PageFaults /\ Top = stack[1] /\ Base \in PageFaults
           /\ Tail(stack) \in Seq(PageFaults) /\ Len(Tail(stack)) = Len(stack) - 1
           /\ \A i \in 1 .. (Len(stack) - 1) : Tail(stack)[i] = stack[i + 1]
           /\ \A i \in 1 .. Len(stack) : stack[i].vector = 14
<1>1. Len(stack) \in Nat \ {0} /\ \A i \in 1 .. Len(stack) : stack[i] \in PageFaults
  BY DEF FaultsNest
<1>2. Top = stack[1]
  BY <1>1 DEF Top, FaultsNest
<1>3. /\ Tail(stack) \in Seq(PageFaults) /\ Len(Tail(stack)) = Len(stack) - 1
      /\ \A i \in 1 .. (Len(stack) - 1) : Tail(stack)[i] = stack[i + 1]
  BY <1>1 DEF FaultsNest
<1> QED
  BY <1>1, <1>2, <1>3 DEF Base, PageFaults

\* The innermost fault goes on.
LEMMA FaultGoes ==
    ASSUME FaultsNest, NEW s \in Steps \ {"read", "fun", "ack", "eoi"}, Goto(s)
    PROVE  FaultsNest'
<1> DEFINE x == [Top EXCEPT !.step = s]
           q == Tail(stack)
<1>1. x \in PageFaults /\ x.IFlag = Top.IFlag
  BY FaultFacts DEF PageFaults, Stubs
<1>2. /\ q \in Seq(PageFaults) /\ Len(q) = Len(stack) - 1 /\ Len(stack) \in Nat \ {0}
      /\ \A i \in 1 .. Len(q) : q[i] = stack[i + 1]
  BY FaultFacts
<1>3. stack' = <<x>> \o q
  BY Zenon DEF Goto
<1> HIDE DEF x, q
<1>4. /\ stack' \in Seq(PageFaults) /\ stack' # << >> /\ Len(stack') = Len(q) + 1 /\ stack'[1] = x
      /\ \A i \in 1 .. Len(q) : stack'[i + 1] = q[i]
  BY <1>1, <1>2, <1>3, Pushed
<1>5. ASSUME NEW i \in 1 .. (Len(stack') - 1)
      PROVE  stack'[i].IFlag = FALSE /\ stack'[i + 1].step = "fault"
  <2>1. i \in 1 .. Len(q) /\ i \in 1 .. (Len(stack) - 1)
    BY <1>2, <1>4
  <2>2. stack[i].IFlag = FALSE /\ stack[i + 1].step = "fault" /\ stack'[i + 1] = stack[i + 1]
    BY <1>2, <1>4, <2>1 DEF FaultsNest
  <2>3. CASE i = 1
    BY <1>1, <1>4, <2>2, <2>3, FaultFacts
  <2>4. CASE i # 1
    <3>1. i - 1 \in 1 .. Len(q) /\ (i - 1) + 1 = i
      BY <2>1, <2>4
    <3>2. stack'[i] = stack[i]
      BY <1>2, <1>4, <3>1
    <3> QED
      BY <2>2, <3>2
  <2> QED
    BY <2>3, <2>4
<1> QED
  BY <1>4, <1>5 DEF FaultsNest

\* It faults in turn.
LEMMA FaultFaults ==
    ASSUME FaultsNest, IFlag = FALSE, Top.step = "fault", stack' = Push(14)
    PROVE  FaultsNest'
<1> DEFINE x == Started(14)
<1>1. x \in PageFaults /\ x.IFlag = FALSE
  BY DEF Started, PageFaults, Stubs, Steps, Vectors
<1>2. stack' = <<x>> \o stack
  BY Zenon DEF Push, Started
<1>3. stack \in Seq(PageFaults) /\ Len(stack) \in Nat \ {0} /\ stack[1].step = "fault"
  <2>1. stack \in Seq(PageFaults) /\ Len(stack) \in Nat \ {0} /\ Top = stack[1]
    BY FaultFacts DEF FaultsNest
  <2> QED
    BY <2>1
<1> HIDE DEF x
<1>4. /\ stack' \in Seq(PageFaults) /\ stack' # << >> /\ Len(stack') = Len(stack) + 1 /\ stack'[1] = x
      /\ \A i \in 1 .. Len(stack) : stack'[i + 1] = stack[i]
  <2>1. LET p == <<x>> \o stack
        IN  /\ p \in Seq(PageFaults) /\ p # << >> /\ Len(p) = Len(stack) + 1 /\ p[1] = x
            /\ \A i \in 1 .. Len(stack) : p[i + 1] = stack[i]
    <3>1. x \in PageFaults /\ stack \in Seq(PageFaults)
      BY <1>1, <1>3
    <3> QED
      BY <3>1, Pushed
  <2> QED
    BY <1>2, <2>1
<1>5. ASSUME NEW i \in 1 .. (Len(stack') - 1)
      PROVE  stack'[i].IFlag = FALSE /\ stack'[i + 1].step = "fault"
  <2>1. i \in 1 .. Len(stack) /\ stack'[i + 1] = stack[i]
    BY <1>3, <1>4
  <2>2. CASE i = 1
    BY <1>1, <1>3, <1>4, <2>1, <2>2
  <2>3. CASE i # 1
    <3>1. i - 1 \in 1 .. (Len(stack) - 1) /\ i - 1 \in 1 .. Len(stack) /\ (i - 1) + 1 = i
      BY <1>3, <2>1, <2>3
    <3>2. stack'[i] = stack[i - 1] /\ stack[i - 1].IFlag = FALSE /\ stack[i].step = "fault"
      BY <1>4, <3>1 DEF FaultsNest
    <3> QED
      BY <2>1, <3>2
  <2> QED
    BY <2>2, <2>3
<1> QED
  BY <1>4, <1>5 DEF FaultsNest

\* It returns, to the access of the fault below it or to kmain.
LEMMA FaultReturns ==
    ASSUME FaultsNest, stack' = Tail(stack)
    PROVE  stack' = << >> \/ (FaultsNest' /\ Top.IFlag = FALSE)
<1>1. /\ stack' \in Seq(PageFaults) /\ Len(stack') = Len(stack) - 1 /\ Len(stack) \in Nat \ {0}
      /\ \A i \in 1 .. (Len(stack) - 1) : stack'[i] = stack[i + 1]
      /\ Top = stack[1]
  BY FaultFacts
<1>2. ASSUME NEW i \in 1 .. (Len(stack') - 1)
      PROVE  stack'[i].IFlag = FALSE /\ stack'[i + 1].step = "fault"
  <2>1. i \in 1 .. (Len(stack) - 1) /\ i + 1 \in 1 .. (Len(stack) - 1)
    BY <1>1
  <2> QED
    BY <1>1, <2>1 DEF FaultsNest
<1>3. CASE stack' # << >>
  <2>1. 1 \in 1 .. (Len(stack) - 1)
    BY <1>1, <1>3
  <2>2. Top.IFlag = FALSE
    BY <1>1, <2>1 DEF FaultsNest
  <2>3. FaultsNest'
    BY <1>1, <1>2, <1>3 DEF FaultsNest
  <2> QED
    BY <2>2, <2>3
<1>4. CASE stack' = << >>
  BY <1>4
<1> QED
  BY <1>3, <1>4

-----------------------------------------------------------------------------
(* The invariant.                                                          *)

LEMMA InitIInv == Init => IInv
  BY DEF Init, IInv, Nested, Handlers, Served, WaitingKeyIsFetched, Vectors, Vector, Lines

\* What the invariant says of the stubs does not change with the devices.
LEMMA StackStays ==
    ASSUME Nested, Served, WaitingKeyIsFetched, UNCHANGED <<IFlag, stack>>, isr' \subseteq isr,
           mishaps' = {} => mishaps = {},
           (output' # None /\ 1 \notin irr' /\ mishaps' = {}) => output # None /\ 1 \notin irr
    PROVE  Nested' /\ Served' /\ WaitingKeyIsFetched'
<1>1. Nested'
  BY DEF Nested, FaultsNest
<1>2. Served'
  BY DEF Served, Base
<1>3. WaitingKeyIsFetched'
  BY DEF WaitingKeyIsFetched
<1> QED
  BY <1>1, <1>2, <1>3

\* While page faults are under way no line is in service and no key waits for
\* the stub that is interrupted.
LEMMA FaultsIInv ==
    ASSUME IInv, FaultsNest, stack' = << >> \/ FaultsNest', IFlag' \in BOOLEAN, IFlag' => stack' = << >>,
           UNCHANGED <<InterruptHandlers, isr, irr, output>>, mishaps' = {} => mishaps = {}
    PROVE  IInv'
<1>1. isr = {}
  BY FaultFacts DEF IInv, Served, PageFaults, IsIRQ
<1>2. ~(output # None /\ 1 \notin irr /\ mishaps = {})
  BY FaultFacts DEF IInv, WaitingKeyIsFetched, Vector
<1>3. Nested'
  BY DEF Nested
<1>4. Handlers'
  BY DEF IInv, Handlers
<1> QED
  BY <1>1, <1>2, <1>3, <1>4 DEF IInv, Served, WaitingKeyIsFetched

LEMMA DevicesIInv ==
    ASSUME IInv, RaiseTimer \/ RaiseOther \/ KeyFollows \/ \E code \in {Plain, Function} : KeyPress(code)
    PROVE  IInv'
<1>1. UNCHANGED <<stage, InterruptHandlers, IFlag, isr, stack, mishaps>>
  BY DEF RaiseTimer, RaiseOther, KeyFollows, KeyPress, kernel
<1>2. (output' # None /\ 1 \notin irr') => output # None /\ 1 \notin irr
  BY DEF RaiseTimer, RaiseOther, KeyFollows, KeyPress, kernel
<1>3. Handlers'
  BY <1>1 DEF IInv, Handlers
<1> QED
  BY <1>1, <1>2, <1>3, StackStays DEF IInv

\* kmain goes on only while no stub runs.
LEMMA KmainIInv ==
    ASSUME IInv, Kmain \/ HeapInit
    PROVE  IInv'
<1>1. stack = << >> /\ stack' = << >>
  BY DEF Kmain, CheckMagic, InitDescriptorTables, InitTimer, SetIF, InitKeyboard,
         InitialisePaging, HeapInit, Passes
<1>2. isr' \subseteq isr
  BY DEF Kmain, CheckMagic, InitDescriptorTables, InitTimer, SetIF, InitKeyboard,
         InitialisePaging, HeapInit
<1>3. IFlag' \in BOOLEAN
  BY DEF Kmain, CheckMagic, InitDescriptorTables, InitTimer, SetIF, InitKeyboard,
         InitialisePaging, HeapInit, IInv, Nested
<1>4. Nested'
  BY <1>1, <1>3 DEF Nested
<1>5. Served'
  BY <1>1, <1>2 DEF IInv, Served
<1>6. WaitingKeyIsFetched'
  <2>1. CASE InitDescriptorTables
    BY <2>1, <1>1 DEF InitDescriptorTables, WaitingKeyIsFetched
  <2>2. CASE CheckMagic \/ InitTimer \/ SetIF \/ InitKeyboard \/ InitialisePaging \/ HeapInit
    <3>1. UNCHANGED <<output, irr, mishaps>>
      BY <2>2 DEF CheckMagic, InitTimer, SetIF, InitKeyboard, InitialisePaging, HeapInit, devices
    <3> QED
      BY <3>1, <1>1 DEF IInv, WaitingKeyIsFetched
  <2> QED
    BY <2>1, <2>2 DEF Kmain
<1>7. Handlers'
  <2>1. CASE UNCHANGED InterruptHandlers
    BY <2>1 DEF IInv, Handlers
  <2>2. CASE InitDescriptorTables
    BY <2>2 DEF InitDescriptorTables, Handlers, Vectors, Vector, Lines
  <2>3. CASE InitTimer
    BY <2>3 DEF InitTimer, RegisterInterruptHandler, IInv, Handlers, Vectors, Vector, Lines
  <2>4. CASE InitKeyboard
    BY <2>4 DEF InitKeyboard, RegisterInterruptHandler, IInv, Handlers, Vectors, Vector, Lines
  <2>5. CASE InitialisePaging
    BY <2>5 DEF InitialisePaging, RegisterInterruptHandler, IInv, Handlers, Vectors, Vector, Lines
  <2>6. CASE CheckMagic \/ SetIF \/ HeapInit
    BY <2>1, <2>6 DEF CheckMagic, SetIF, HeapInit
  <2> QED
    BY <2>2, <2>3, <2>4, <2>5, <2>6 DEF Kmain
<1> QED
  BY <1>4, <1>5, <1>6, <1>7 DEF IInv

\* An IRQ is taken with interrupts on, so while no stub runs and no line is in
\* service.
LEMMA AcceptIInv ==
    ASSUME IInv, NEW line \in Lines, Accept(line)
    PROVE  IInv' /\ isr = {}
<1>1. stack = << >> /\ IFlag = TRUE
  BY DEF Accept, IInv, Nested
<1>2. isr = {}
  BY <1>1 DEF IInv, Served
<1> DEFINE b == Started(Vector(line))
<1>3. b \in Stubs /\ b.vector = Vector(line) /\ b.step = "dispatch"
  BY <1>1 DEF Started, Stubs, Steps, Vectors, Vector, Lines
<1>4. stack' = <<b>> /\ IFlag' = FALSE
  BY <1>1, PushNone DEF Accept
<1> HIDE DEF b
<1>5. stack' # << >> /\ Len(stack') = 1 /\ stack'[1] = b /\ Base' = b
  BY <1>4 DEF Base
<1>6. Nested'
  <2>1. b.vector # 14
    BY <1>3 DEF Vector, Lines
  <2> QED
    BY <1>3, <1>4, <2>1 DEF Nested
<1>7. Handlers'
  BY DEF Accept, kernel, IInv, Handlers
<1>8. Served'
  <2>1. isr' = InService(line)
    BY <1>2 DEF Accept
  <2>2. IsIRQ(Base'.vector) /\ Base'.vector - 32 = line /\ Base'.step # "iret"
    BY <1>3, <1>5 DEF IsIRQ, Vector, Lines
  <2> QED
    BY <1>5, <2>1, <2>2 DEF Served
<1>9. WaitingKeyIsFetched'
  <2>1. CASE line = 1
    BY <2>1, <1>3, <1>5 DEF WaitingKeyIsFetched
  <2>2. CASE line # 1
    <3>1. 1 \notin irr' => 1 \notin irr
      BY <2>2 DEF Accept
    <3> QED
      BY <3>1, <1>1 DEF Accept, IInv, WaitingKeyIsFetched
  <2> QED
    BY <2>1, <2>2
<1> QED
  BY <1>2, <1>6, <1>7, <1>8, <1>9 DEF IInv

\* The page fault of kmain, which is no IRQ.
LEMMA TouchUnmappedIInv ==
    ASSUME IInv, TouchUnmapped
    PROVE  IInv'
<1>1. stack = << >> /\ isr = {}
  BY DEF TouchUnmapped, IInv, Served
<1> DEFINE b == Started(14)
<1>2. b \in PageFaults
  BY DEF Started, PageFaults, Stubs, Steps, Vectors, IInv, Nested
<1>3. stack' = <<b>> /\ IFlag' = FALSE
  BY <1>1, PushNone DEF TouchUnmapped
<1> HIDE DEF b
<1>4. Nested'
  <2>1. stack' \in Seq(PageFaults) /\ stack' # << >> /\ Len(stack') = 1
    BY <1>2, <1>3
  <2>2. FaultsNest'
    BY <2>1 DEF FaultsNest
  <2> QED
    BY <1>3, <2>2 DEF Nested
<1>5. Handlers'
  BY DEF TouchUnmapped, kernel, IInv, Handlers
<1>6. Served'
  BY <1>1 DEF TouchUnmapped, Served
<1>7. WaitingKeyIsFetched'
  BY <1>1 DEF TouchUnmapped, devices, IInv, WaitingKeyIsFetched
<1> QED
  BY <1>4, <1>5, <1>6, <1>7 DEF IInv

\* A step of the stub that runs, on top of the stack: the steps it leads to are
\* those of its vector.
LEMMA StepNested ==
    ASSUME Nested, stack # << >>, NEW s \in Steps, Goto(s), UNCHANGED IFlag,
           Top.step # "fun", Top.vector # 14, s # "fault",
           s \in {"read", "fun", "ack"} => Top.vector = Vector(1),
           s = "eoi" => IsIRQ(Top.vector)
    PROVE  /\ Nested'
           /\ Len(stack') = Len(stack)
           /\ \/ Base = Top /\ Base' = [Top EXCEPT !.step = s] /\ Len(stack) = 1
                 /\ stack = <<Top>> /\ stack' = <<Base'>>
              \/ Base' = Base /\ Top.vector = 13 /\ Len(stack) = 2 /\ Base.vector = Vector(1)
                 /\ Base.step = "fun"
<1>1. CASE \E b \in Stubs : stack = <<b>> /\ b.vector # 14
  <2>1. PICK b \in Stubs : stack = <<b>>
    BY <1>1
  <2> DEFINE c == [b EXCEPT !.step = s]
  <2>2. Top = b /\ Base = b /\ Len(stack) = 1
    BY <2>1, OneStub
  <2>3. stack' = <<c>>
    BY <2>1, GotoOne
  <2>4. c \in Stubs /\ c.vector # 14
    BY <2>2 DEF Stubs
  <2>5. c = [Top EXCEPT !.step = s]
    BY <2>2, Zenon
  <2> HIDE DEF c
  <2>6. Base' = c /\ Len(stack') = 1
    BY <2>3 DEF Base
  <2>7. Nested'
    BY <2>1, <2>3, <2>4 DEF Nested
  <2> QED
    BY <2>1, <2>2, <2>3, <2>5, <2>6, <2>7
<1>2. CASE \E e, b \in Stubs : stack = <<e, b>> /\ e.vector = 13 /\ e.IFlag = FALSE /\ b.step = "fun"
  <2>1. PICK e, b \in Stubs : stack = <<e, b>> /\ e.vector = 13 /\ e.IFlag = FALSE /\ b.step = "fun"
    BY <1>2
  <2> DEFINE c == [e EXCEPT !.step = s]
  <2>2. Top = e /\ Base = b /\ Len(stack) = 2
    BY <2>1, TwoStubs
  <2>3. stack' = <<c, b>>
    BY <2>1, GotoTwo
  <2>4. c \in Stubs /\ c.vector = 13 /\ c.IFlag = FALSE
    BY <2>1, <2>2 DEF Stubs
  <2> HIDE DEF c
  <2>5. Base' = b /\ Len(stack') = 2
    BY <2>3 DEF Base
  <2>6. Nested'
    BY <2>1, <2>3, <2>4, <1>2 DEF Nested
  <2>7. b.vector = Vector(1)
    BY <2>1 DEF Stubs
  <2> QED
    BY <2>1, <2>2, <2>5, <2>6, <2>7
<1>3. ~FaultsNest
  BY FaultFacts DEF PageFaults
<1> QED
  BY <1>1, <1>2, <1>3 DEF Nested

\* The stub that will fetch a key is the only one.
LEMMA FetcherIsTop ==
    ASSUME Nested, NEW i \in 1 .. Len(stack),
           stack[i].vector = Vector(1), stack[i].step \in {"dispatch", "read"}
    PROVE  Len(stack) = 1 /\ stack # << >> /\ stack[i] = Top
<1>1. CASE stack = << >>
  BY <1>1
<1>2. CASE \E b \in Stubs : stack = <<b>> /\ b.vector # 14
  BY <1>2, OneStub
<1>3. CASE \E e, b \in Stubs : stack = <<e, b>> /\ e.vector = 13 /\ e.IFlag = FALSE /\ b.step = "fun"
  BY <1>3, TwoStubs DEF Vector
<1>4. ~FaultsNest
  BY FaultFacts DEF Vector
<1> QED
  BY <1>1, <1>2, <1>3, <1>4 DEF Nested

LEMMA TopIsStub == ASSUME Nested, stack # << >> PROVE Top \in Stubs
  BY OneStub, TwoStubs, FaultFacts DEF Nested, PageFaults

\* Dispatch reaches the handler that is registered.  An interrupt 33 without
\* one leaves a key behind, and is a mishap.
LEMMA DispatchIInv ==
    ASSUME IInv, Dispatch
    PROVE  IInv'
<1> DEFINE handler == InterruptHandlers[Top.vector]
           s == CASE handler = "KeyboardCallback" -> "read"
                  [] handler = "PageFault" -> "fault"
                  [] OTHER -> AfterHandler(Top.vector)
<1>1. stack # << >> /\ Top.step = "dispatch" /\ Goto(s)
  BY DEF Dispatch, At
<1>2. UNCHANGED <<InterruptHandlers, IFlag, isr, irr, output>>
  BY DEF Dispatch, kernel, devices
<1>3. Top \in Stubs /\ Top.vector \in Vectors
  BY <1>1, TopIsStub DEF IInv, Stubs
<1>4. /\ s \in {"read", "fault", "eoi", "iret"}
      /\ s = "read" => Top.vector = Vector(1)
      /\ s = "fault" => Top.vector = 14
      /\ Top.vector = 14 => s \in {"fault", "iret"}
      /\ s \in {"eoi", "iret"} => handler # "KeyboardCallback"
      /\ s = "eoi" => IsIRQ(Top.vector)
      /\ s = "iret" => ~IsIRQ(Top.vector)
  BY <1>3 DEF IInv, Handlers, AfterHandler, Vector, IsIRQ
<1> HIDE DEF s
<1>f. CASE Top.vector = 14
  <2>1. FaultsNest
    BY <1>1, <1>f, OneStub, TwoStubs DEF IInv, Nested
  <2>2. FaultsNest'
    BY <1>1, <1>4, <1>f, <2>1, FaultGoes DEF Steps
  <2>3. IFlag = FALSE /\ (mishaps' = {} => mishaps = {})
    BY <1>1 DEF IInv, Nested, Dispatch
  <2> QED
    BY <1>2, <2>1, <2>2, <2>3, FaultsIInv
<1>n. SUFFICES ASSUME Top.vector # 14 PROVE IInv'
  BY <1>f
<1>5. /\ Nested'
      /\ \/ Base = Top /\ Base' = [Top EXCEPT !.step = s] /\ Len(stack) = 1
            /\ stack = <<Top>> /\ stack' = <<Base'>>
         \/ Base' = Base /\ Top.vector = 13 /\ Len(stack) = 2 /\ Base.vector = Vector(1)
            /\ Base.step = "fun" /\ Len(stack') = 2
  BY <1>n, <1>1, <1>2, <1>4, StepNested DEF IInv, Steps
<1>6. Handlers'
  BY <1>2 DEF IInv, Handlers
<1>7. CASE Base' = Base /\ Len(stack) = 2 /\ Len(stack') = 2
  <2>1. Served'
    BY <1>2, <1>7 DEF IInv, Served
  <2>2. mishaps' = {} => mishaps = {}
    BY DEF Dispatch
  <2>3. WaitingKeyIsFetched'
    BY <1>2, <1>7, <2>2, FetcherIsTop DEF IInv, WaitingKeyIsFetched
  <2> QED
    BY <1>5, <1>6, <2>1, <2>3 DEF IInv
<1>8. CASE Base = Top /\ Base' = [Top EXCEPT !.step = s] /\ stack' = <<Base'>>
  <2>1. Base'.vector = Top.vector /\ Base'.step = s
    BY <1>3, <1>8 DEF Stubs
  <2>2. stack' # << >> /\ Len(stack') = 1 /\ stack'[1] = Base'
    BY <1>8
  <2>3. Served'
    BY <1>2, <1>4, <1>8, <2>1, <2>2 DEF IInv, Served
  <2>4. ASSUME output' # None, 1 \notin irr', mishaps' = {}
        PROVE  Top.vector = Vector(1) /\ handler # "none"
    <3>1. mishaps = {}
      BY <2>4 DEF Dispatch
    <3>2. Top.vector = Vector(1)
      BY <1>2, <2>4, <3>1, FetcherIsTop DEF IInv, WaitingKeyIsFetched
    <3> QED
      BY <2>4, <3>2 DEF Dispatch
  <2>5. ASSUME output' # None, 1 \notin irr', mishaps' = {}
        PROVE  s = "read"
    BY <2>4, <2>5 DEF IInv, Handlers, s
  <2>6. WaitingKeyIsFetched'
    BY <2>1, <2>2, <2>4, <2>5 DEF WaitingKeyIsFetched
  <2> QED
    BY <1>5, <1>6, <2>3, <2>6 DEF IInv
<1> QED
  BY <1>5, <1>7, <1>8

\* The way of the keyboard's code: an empty output buffer waits for nobody.
LEMMA ReadScanCodeIInv ==
    ASSUME IInv, ReadScanCode
    PROVE  IInv'
<1> DEFINE s == IF output = Function THEN "fun" ELSE "ack"
<1>1. stack # << >> /\ Top.step = "read" /\ Goto(s) /\ output' = None
  BY DEF ReadScanCode, At
<1>2. UNCHANGED <<InterruptHandlers, IFlag, isr, irr>>
  BY DEF ReadScanCode, kernel
<1>3. Top \in Stubs /\ Top.vector = Vector(1)
  BY <1>1, TopIsStub DEF IInv, Stubs
<1>4. s \in {"fun", "ack"}
  OBVIOUS
<1> HIDE DEF s
<1>5. /\ Nested'
      /\ Base = Top /\ Base' = [Top EXCEPT !.step = s]
      /\ stack' = <<Base'>>
  BY <1>1, <1>2, <1>3, <1>4, StepNested DEF IInv, Steps, Vector
<1>6. Base'.vector = Top.vector /\ Base'.step = s /\ stack' # << >>
  BY <1>3, <1>5 DEF Stubs
<1>7. Served'
  BY <1>2, <1>4, <1>5, <1>6 DEF IInv, Served
<1>8. Handlers'
  BY <1>2 DEF IInv, Handlers
<1> QED
  BY <1>1, <1>5, <1>7, <1>8 DEF IInv, WaitingKeyIsFetched

\* int $0x80 in the keyboard's stub, which nothing is on top of.
LEMMA FunIInv ==
    ASSUME IInv, Fun
    PROVE  IInv'
<1>1. stack # << >> /\ Top.step = "fun" /\ Top \in Stubs
  BY TopIsStub DEF Fun, At, IInv
<1>2. Top.vector = Vector(1)
  BY <1>1 DEF Stubs
<1>3. UNCHANGED <<InterruptHandlers, isr, irr, output, mishaps>> /\ IFlag' = FALSE
  BY DEF Fun, kernel, devices
<1>4. IFlag = FALSE
  BY <1>1 DEF IInv, Nested
<1>5. PICK b \in Stubs : stack = <<b>>
  <2>1. CASE \E e, b \in Stubs : stack = <<e, b>> /\ e.vector = 13 /\ e.IFlag = FALSE /\ b.step = "fun"
    BY <1>2, <2>1, TwoStubs DEF Vector
  <2>2. ~FaultsNest
    BY <1>2, FaultFacts DEF PageFaults, Vector
  <2> QED
    BY <1>1, <2>1, <2>2 DEF IInv, Nested
<1> DEFINE e == Started(13)
<1>6. stack' = <<e, b>>
  BY <1>5, PushOne DEF Fun
<1>7. e \in Stubs /\ e.vector = 13 /\ e.IFlag = FALSE
  BY <1>4 DEF Started, Stubs, Steps, Vectors
<1> HIDE DEF e
<1>8. Top = b /\ Base = b /\ Base' = b /\ stack' # << >>
  BY <1>5, <1>6, OneStub DEF Base
<1>9. Nested'
  BY <1>1, <1>3, <1>6, <1>7, <1>8 DEF Nested
<1>10. Served'
  BY <1>3, <1>8 DEF IInv, Served
<1>11. Handlers'
  BY <1>3 DEF IInv, Handlers
<1>12. WaitingKeyIsFetched'
  BY <1>1, <1>3, FetcherIsTop DEF IInv, WaitingKeyIsFetched
<1> QED
  BY <1>9, <1>10, <1>11, <1>12 DEF IInv

\* PageFault's accesses, those that fault in turn and those that do not.
LEMMA PageFaultIInv ==
    ASSUME IInv, FaultInTurn \/ FillEntry
    PROVE  IInv'
<1>1. stack # << >> /\ Top.step = "fault"
  BY DEF FaultInTurn, FillEntry, At
<1>2. FaultsNest
  <2>1. Top \in Stubs
    BY <1>1, TopIsStub DEF IInv
  <2>2. Top.vector = 14
    BY <1>1, <2>1 DEF Stubs
  <2> QED
    BY <1>1, <2>2, OneStub, TwoStubs DEF IInv, Nested
<1>3. IFlag = FALSE
  BY <1>1 DEF IInv, Nested
<1>4. UNCHANGED <<InterruptHandlers, isr, irr, output, mishaps>> /\ IFlag' = FALSE
  BY <1>3 DEF FaultInTurn, FillEntry, kernel, devices
<1>5. FaultsNest'
  <2>1. CASE FaultInTurn
    BY <1>1, <1>2, <1>3, <2>1, FaultFaults DEF FaultInTurn
  <2>2. CASE FillEntry
    <3>1. Goto("iret") /\ "iret" \in Steps \ {"read", "fun", "ack", "eoi"}
      BY <2>2 DEF FillEntry, Steps
    <3> QED
      BY <1>2, <3>1, FaultGoes
  <2> QED
    BY <2>1, <2>2
<1> QED
  BY <1>2, <1>4, <1>5, FaultsIInv

\* outb(com&0x7f,0x61): where that ends an interrupt, it is the keyboard's own.
LEMMA AcknowledgeIInv ==
    ASSUME IInv, Acknowledge
    PROVE  /\ IInv'
           /\ isr' \subseteq isr /\ isr \ isr' \subseteq InService(Top.vector - 32)
<1> DEFINE s == AfterHandler(Top.vector)
<1>1. stack # << >> /\ Top.step = "ack" /\ Goto(s)
  BY DEF Acknowledge, At
<1>2. UNCHANGED <<InterruptHandlers, IFlag, irr, output, mishaps>>
  BY DEF Acknowledge, kernel, devices
<1>3. Top \in Stubs /\ Top.vector = Vector(1)
  BY <1>1, TopIsStub DEF IInv, Stubs
<1>4. s = "eoi" /\ IsIRQ(Top.vector) /\ Top.vector - 32 = 1
  BY <1>3 DEF AfterHandler, IsIRQ, Vector
<1> HIDE DEF s
<1>5. /\ Nested'
      /\ Base = Top /\ Base' = [Top EXCEPT !.step = s]
      /\ stack' = <<Base'>>
  BY <1>1, <1>2, <1>3, <1>4, StepNested DEF IInv, Steps, Vector
<1>6. Base'.vector = Top.vector /\ Base'.step = s /\ stack' # << >>
  BY <1>3, <1>5 DEF Stubs
<1>7. isr' \subseteq isr /\ isr \ isr' \subseteq {1}
  BY DEF Acknowledge
<1>8. Served'
  BY <1>4, <1>5, <1>6, <1>7 DEF IInv, Served
<1>9. Handlers'
  BY <1>2 DEF IInv, Handlers
<1>10. WaitingKeyIsFetched'
  BY <1>1, <1>2, FetcherIsTop DEF IInv, WaitingKeyIsFetched
<1> QED
  BY <1>4, <1>5, <1>7, <1>8, <1>9, <1>10 DEF IInv, InService

\* The command names no line, and ends the one in service.
LEMMA EndOfInterruptIInv ==
    ASSUME IInv, EndOfInterrupt
    PROVE  /\ IInv'
           /\ isr' \subseteq isr /\ isr \ isr' \subseteq InService(Top.vector - 32)
<1>1. stack # << >> /\ Top.step = "eoi" /\ Goto("iret") /\ isr' = isr \ Ended(Top.vector)
  BY DEF EndOfInterrupt, At
<1>2. UNCHANGED <<InterruptHandlers, IFlag, irr, output, mishaps>>
  BY DEF EndOfInterrupt, kernel, devices
<1>3. Top \in Stubs /\ IsIRQ(Top.vector) /\ Top.vector \in {32, 33, 46}
  BY <1>1, TopIsStub DEF IInv, Stubs, IsIRQ, Vectors, Vector, Lines
<1>4. /\ Nested'
      /\ Base = Top /\ Base' = [Top EXCEPT !.step = "iret"]
      /\ stack' = <<Base'>>
  BY <1>1, <1>2, <1>3, StepNested DEF IInv, Steps, Vector
<1>5. isr \subseteq InService(Top.vector - 32)
  BY <1>4 DEF IInv, Served
<1>6. Highest(isr) = isr
  <2>1. isr \subseteq {0} \/ isr \subseteq {1} \/ isr \subseteq {14, 2}
    <3>1. InService(0) = {0} /\ InService(1) = {1} /\ InService(14) = {14, 2}
      BY DEF InService
    <3>2. Top.vector - 32 \in {0, 1, 14}
      BY <1>3
    <3>3. PICK line \in {0, 1, 14} : line = Top.vector - 32
      BY <3>2
    <3>4. isr \subseteq InService(line)
      BY <1>5, <3>3
    <3> QED
      BY <3>1, <3>3, <3>4
  <2>2. \A l, k \in isr : Priority(l) <= Priority(k)
    <3>1. Priority(0) = 0 /\ Priority(1) = 1 /\ Priority(14) = 2 /\ Priority(2) = 2
      BY DEF Priority
    <3>2. /\ \A l, k \in {0} : Priority(l) <= Priority(k)
          /\ \A l, k \in {1} : Priority(l) <= Priority(k)
          /\ \A l, k \in {14, 2} : Priority(l) <= Priority(k)
      BY <3>1
    <3> QED
      BY <2>1, <3>2
  <2> QED
    BY <2>2, Zenon DEF Highest
<1>7. isr' = {}
  BY <1>1, <1>3, <1>5, <1>6 DEF Ended, InService
<1>8. Handlers'
  BY <1>2 DEF IInv, Handlers
<1>9. WaitingKeyIsFetched'
  BY <1>1, <1>2, FetcherIsTop DEF IInv, WaitingKeyIsFetched
<1> QED
  BY <1>4, <1>5, <1>7, <1>8, <1>9 DEF IInv, Served

\* iret: what was below goes on, with the flag that was saved.
LEMMA ReturnIInv ==
    ASSUME IInv, Return
    PROVE  IInv'
<1>1. stack # << >> /\ Top.step = "iret" /\ stack' = Tail(stack) /\ IFlag' = Top.IFlag
  BY DEF Return, At
<1>2. UNCHANGED <<InterruptHandlers, isr, irr, output, mishaps>>
  BY DEF Return, kernel, devices
<1>3. Handlers'
  BY <1>2 DEF IInv, Handlers
<1>4. WaitingKeyIsFetched'
  BY <1>1, <1>2, FetcherIsTop DEF IInv, WaitingKeyIsFetched
<1>5. CASE \E b \in Stubs : stack = <<b>> /\ b.vector # 14
  <2>1. stack' = << >> /\ Top \in Stubs /\ Base = Top
    BY <1>1, <1>5, OneStub
  <2>2. Nested'
    BY <1>1, <2>1 DEF Nested, Stubs
  <2>3. Served'
    BY <1>1, <1>2, <2>1 DEF IInv, Served
  <2> QED
    BY <1>3, <1>4, <2>2, <2>3 DEF IInv
<1>6. CASE \E e, b \in Stubs : stack = <<e, b>> /\ e.vector = 13 /\ e.IFlag = FALSE /\ b.step = "fun"
  <2>1. PICK e, b \in Stubs : stack = <<e, b>> /\ e.vector = 13 /\ e.IFlag = FALSE /\ b.step = "fun"
    BY <1>6
  <2>2. stack' = <<b>> /\ IFlag' = FALSE /\ Base = b
    BY <1>1, <2>1, TwoStubs
  <2>3. Base' = b /\ stack' # << >>
    BY <2>2 DEF Base
  <2>4. Nested'
    <3>1. b \in Stubs /\ b.vector # 14
      BY <2>1 DEF Stubs, Vector
    <3> QED
      BY <2>2, <3>1 DEF Nested
  <2>5. Served'
    BY <1>2, <2>2, <2>3 DEF IInv, Served
  <2> QED
    BY <1>3, <1>4, <2>4, <2>5 DEF IInv
<1>7. CASE FaultsNest
  <2>1. stack' = << >> \/ (FaultsNest' /\ IFlag' = FALSE)
    BY <1>1, <1>7, FaultReturns
  <2>2. IFlag' \in BOOLEAN
    BY <1>1, <1>7, FaultFacts DEF PageFaults, Stubs
  <2> QED
    BY <1>2, <1>7, <2>1, <2>2, FaultsIInv
<1> QED
  BY <1>1, <1>5, <1>6, <1>7 DEF IInv, Nested

\* Every step of the invariant, and what each may take out of service.
LEMMA NextIInv ==
    ASSUME IInv, [Next]_vars
    PROVE  IInv'
<1>1. CASE RaiseTimer \/ RaiseOther \/ KeyFollows \/ \E code \in {Plain, Function} : KeyPress(code)
  BY <1>1, DevicesIInv
<1>2. CASE \E line \in Lines : Accept(line)
  BY <1>2, AcceptIInv
<1>3. CASE Kmain \/ HeapInit
  BY <1>3, KmainIInv
<1>4. CASE TouchUnmapped
  BY <1>4, TouchUnmappedIInv
<1>5. CASE Handler
  BY <1>5, DispatchIInv, ReadScanCodeIInv, FunIInv, PageFaultIInv, AcknowledgeIInv, EndOfInterruptIInv,
     ReturnIInv DEF Handler
<1>6. CASE UNCHANGED vars
  <2>1. Handlers'
    BY <1>6 DEF vars, IInv, Handlers
  <2> QED
    BY <1>6, <2>1, StackStays DEF vars, IInv
<1> QED
  BY <1>1, <1>2, <1>3, <1>4, <1>5, <1>6 DEF Next

\* What the properties rest on: which stubs may be on the stack, which callback
\* stands where, and that lines are in service for the outermost stub alone.
THEOREM Inductive == Spec => []IInv
<1> QED
  BY InitIInv, NextIInv, PTL DEF Spec

-----------------------------------------------------------------------------
(* The properties.                                                         *)

\* No order of interrupts, exceptions and keys makes the stub of an IRQ run on top
\* of another stub: the gates keep IF clear, and only the exception of int $0x80
\* and the page faults of PageFault come on top of a stub, each where it is raised.
THEOREM StackIsBounded == Spec => []OneInterruptAtATime
<1>1. ASSUME IInv PROVE OneInterruptAtATime
  <2>1. CASE stack = << >>
    BY <2>1 DEF OneInterruptAtATime
  <2>2. CASE \E b \in Stubs : stack = <<b>> /\ b.vector # 14
    BY <2>2, <1>1, OneStub DEF IInv, Nested, OneInterruptAtATime
  <2>3. CASE \E e, b \in Stubs :
                stack = <<e, b>> /\ e.vector = 13 /\ e.IFlag = FALSE /\ b.step = "fun"
    BY <2>3, <1>1, TwoStubs DEF IInv, Nested, OneInterruptAtATime
  <2>4. CASE FaultsNest
    <3>1. ASSUME NEW i \in 1 .. (Len(stack) - 1)
          PROVE  stack[i].vector = 14 /\ stack[i + 1].step = "fault"
      <4>1. i \in 1 .. Len(stack)
        BY <2>4, FaultFacts
      <4> QED
        BY <2>4, <4>1, FaultFacts DEF FaultsNest
    <3> QED
      BY <1>1, <3>1 DEF IInv, Nested, OneInterruptAtATime
  <2> QED
    BY <1>1, <2>1, <2>2, <2>3, <2>4 DEF IInv, Nested
<1> QED
  BY Inductive, <1>1, PTL

\* No line is left in service behind an interrupt that is over, in the first
\* controller or in the second.
THEOREM NothingLeftInService == Spec => []InServiceIsUnderWay
<1>1. ASSUME IInv PROVE InServiceIsUnderWay
  <2> SUFFICES ASSUME NEW line \in isr \ {2}
               PROVE  \E i \in 1 .. Len(stack) : stack[i].vector = Vector(line)
    BY DEF InServiceIsUnderWay
  <2>1. /\ stack # << >> /\ IsIRQ(Base.vector)
        /\ line \in InService(Base.vector - 32)
    BY <1>1 DEF IInv, Served
  <2>2. Len(stack) \in 1 .. Len(stack) /\ Base \in Stubs
    BY <1>1, <2>1, OneStub, TwoStubs, FaultFacts DEF IInv, Nested, PageFaults, IsIRQ
  <2>3. Base.vector \in Int
    BY <2>2 DEF Stubs, Vectors, Vector, Lines
  <2>4. Base.vector = Vector(line)
    BY <2>1, <2>3 DEF InService, Vector
  <2> QED
    BY <2>2, <2>4 DEF Base
<1> QED
  BY Inductive, <1>1, PTL

\* A waiting scan code has an interrupt to fetch it, unless it came before the
\* keyboard was set up.
THEOREM KeyHasItsInterrupt == Spec => []WaitingKeyIsFetched
<1> QED
  BY Inductive, PTL DEF IInv

\* A line goes out of service by its own interrupt's stub only: the commands
\* name no line, but one line at most is in service.
THEOREM EndsItsOwnOnly == Spec => EndsOnlyItsOwn
<1>1. ASSUME IInv, [Next]_vars
      PROVE  [stage # "tables" =>
                \A line \in isr \ isr' : stack # << >> /\ line \in InService(Top.vector - 32)]_vars
  <2>1. CASE Acknowledge \/ EndOfInterrupt
    BY <1>1, <2>1, AcknowledgeIInv, EndOfInterruptIInv DEF Acknowledge, EndOfInterrupt, At
  <2>2. CASE InitDescriptorTables
    BY <2>2 DEF InitDescriptorTables, Passes
  <2>3. CASE \E line \in Lines : Accept(line)
    BY <2>3 DEF Accept
  <2>4. CASE ~(\/ Acknowledge \/ EndOfInterrupt \/ InitDescriptorTables
               \/ \E line \in Lines : Accept(line))
    <3>1. CASE UNCHANGED vars
      BY <3>1
    <3>2. CASE ~UNCHANGED vars
      <4>1. isr' = isr
        BY <1>1, <2>4, <3>2 DEF Next, RaiseTimer, RaiseOther, KeyFollows, KeyPress, Kmain,
           CheckMagic, InitTimer, SetIF, InitKeyboard, InitialisePaging, HeapInit,
           TouchUnmapped, Handler, Dispatch, ReadScanCode, Fun, FaultInTurn, FillEntry, Return
      <4> QED
        BY <4>1
    <3> QED
      BY <3>1, <3>2
  <2> QED
    BY <2>1, <2>2, <2>3, <2>4
<1> QED
  BY Inductive, <1>1, PTL DEF Spec, EndsOnlyItsOwn

=============================================================================
