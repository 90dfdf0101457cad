----------------------------- MODULE Interrupts -----------------------------
(***************************************************************************)
(* The kernel from kmain to its idle loop, with the interrupts that arrive *)
(* on the way: the order of core/kernel.c, the gates and the interrupt     *)
(* controllers of core/descriptor_tables.c, the stubs of                   *)
(* core/interrupts.s, the dispatch of core/isr.c, and the two handlers, of *)
(* core/timer.c and core/keyboard.c, down to their accesses of the ports.  *)
(* The controllers, the keyboard and the processor are the hardware they   *)
(* are written for.  Anything may be raised between any two steps.         *)
(***************************************************************************)
EXTENDS Integers, Sequences

CONSTANTS
    Plain, Function,    \* scan codes, of a character key and of F1 to F12
    None,               \* no scan code
    Port61,             \* what the keyboard handler may read from port 0x61
    MaxQueue,           \* bound: scan codes the keyboard itself keeps
    MaxNest             \* bound: page faults under way at once

ASSUME InterruptsAssumption ==
    /\ None \notin {Plain, Function}
    /\ Port61 \subseteq 0 .. 255
    /\ MaxQueue \in Nat /\ MaxNest \in Nat

VARIABLES
    stage,              \* where kmain is
    IFlag,                 \* the processor takes interrupts
    InterruptHandlers,
    irr,                \* the lines whose rising edge is latched
    isr,                \* the lines in service; 2 is the slave's
    imr,                \* the lines that are masked
    stack,              \* the interrupt stubs under way, the innermost first
    output,             \* the keyboard controller's output buffer
    queue,              \* the scan codes waiting behind it
    Tick,               \* modulo 2, which is all the properties need
    mishaps             \* history: which of the accidents below have happened

devices == <<irr, output, queue>>
kernel == <<stage, InterruptHandlers>>
vars == <<stage, IFlag, InterruptHandlers, irr, isr, imr, stack, output, queue, Tick, mishaps>>

\* IRQ 0 is the timer, IRQ 1 the keyboard; IRQ 14 stands for the devices that
\* the kernel unmasks without a handler, behind the second controller.
Lines == {0, 1, 14}
Vector(line) == 32 + line
Vectors == {13, 14} \cup {Vector(l) : l \in Lines}

Top == Head(stack)
Push(vector) == <<[vector |-> vector, step |-> "dispatch", IFlag |-> IFlag]>> \o stack
At(s) == stack # << >> /\ Top.step = s
Goto(s) == stack' = <<[Top EXCEPT !.step = s]>> \o Tail(stack)

\* "initialised": a key arrived before the controllers were set up.
\* "unhandled": a key was interrupt 33 before InitKeyboard.
Mishaps == {"initialised", "unhandled"}

\* The boot loader starts kmain with interrupts off; keys and ticks of the time
\* before may be latched.
Init ==
    /\ stage = "magic"
    /\ IFlag = FALSE
    /\ InterruptHandlers = [v \in Vectors |-> "none"]
    /\ irr \in SUBSET {0}
    /\ isr = {}
    /\ imr = {}
    /\ stack = << >>
    /\ output = None
    /\ queue = << >>
    /\ Tick = 0
    /\ mishaps = {}

-----------------------------------------------------------------------------
(* The devices.                                                            *)

\* A tick lasts longer than its handler.
RaiseTimer ==
    /\ \A i \in 1 .. Len(stack) : stack[i].vector # Vector(0)
    /\ irr' = irr \cup {0}
    /\ UNCHANGED <<kernel, IFlag, isr, imr, stack, output, queue, Tick, mishaps>>

RaiseOther ==
    /\ irr' = irr \cup {14}
    /\ UNCHANGED <<kernel, IFlag, isr, imr, stack, output, queue, Tick, mishaps>>

\* A scan code enters the empty output buffer, which raises IRQ 1; there is no
\* edge while the buffer is full, and the keyboard keeps the next codes.
KeyPress(code) ==
    /\ IF output = None
         THEN output' = code /\ irr' = irr \cup {1} /\ UNCHANGED queue
         ELSE Len(queue) < MaxQueue /\ queue' = Append(queue, code) /\ UNCHANGED <<irr, output>>
    /\ UNCHANGED <<kernel, IFlag, isr, imr, stack, Tick, mishaps>>

KeyFollows ==
    /\ output = None /\ queue # << >>
    /\ output' = Head(queue)
    /\ queue' = Tail(queue)
    /\ irr' = irr \cup {1}
    /\ UNCHANGED <<kernel, IFlag, isr, imr, stack, Tick, mishaps>>

\* The second controller's lines, 8 to 15, come in on line 2 of the first.
Priority(line) == IF line >= 8 THEN 2 ELSE line
InService(line) == {line} \cup (IF line >= 8 THEN {2} ELSE {})

Requested(line) ==
    /\ line \in irr \ imr
    /\ \A l \in isr : Priority(line) < Priority(l)
    /\ \A l \in irr \ imr : Priority(line) <= Priority(l)

\* A slip the runs must notice: a trap gate, which leaves IF set.
Accept_TrapGate(line) ==
    /\ IFlag
    /\ Requested(line)
    /\ irr' = irr \ {line}
    /\ isr' = isr \cup InService(line)
    /\ stack' = Push(Vector(line))
    /\ UNCHANGED <<kernel, IFlag, imr, output, queue, Tick, mishaps>>

\* The gates are interrupt gates (0x8e): the processor clears IF, having saved
\* it, and the stub clears it again.
Accept(line) ==
    /\ IFlag
    /\ Requested(line)
    /\ irr' = irr \ {line}
    /\ isr' = isr \cup InService(line)
    /\ stack' = Push(Vector(line))
    /\ IFlag' = FALSE
    /\ UNCHANGED <<kernel, imr, output, queue, Tick, mishaps>>

-----------------------------------------------------------------------------
(* kmain, which runs while no interrupt does.                              *)

Stages == <<"magic", "tables", "timer", "sti", "keyboard", "paging", "heap", "idle">>

\* kmain goes on from stage s to the next one; "stopped" is its first loop.
Passes(s) ==
    /\ stack = << >>
    /\ stage = s
    /\ stage' = Stages[(CHOOSE i \in 1 .. Len(Stages) : Stages[i] = s) + 1]

CheckMagic ==
    /\ \/ Passes("magic")
       \/ stack = << >> /\ stage = "magic" /\ stage' = "stopped"
    /\ UNCHANGED <<IFlag, InterruptHandlers, devices, isr, imr, stack, Tick, mishaps>>

\* InitDescriptorTables: the command words reset the latches of both
\* controllers, and leave no line masked; the handlers are cleared.
InitDescriptorTables ==
    /\ Passes("tables")
    /\ irr' = {}
    /\ isr' = {}
    /\ imr' = {}
    /\ InterruptHandlers' = [v \in Vectors |-> "none"]
    /\ mishaps' = IF output # None THEN mishaps \cup {"initialised"} ELSE mishaps
    /\ UNCHANGED <<IFlag, stack, output, queue, Tick>>

RegisterInterruptHandler(n, Handler) ==
    InterruptHandlers' = [InterruptHandlers EXCEPT ![n] = Handler]

\* InitTimer registers its handler and then, at its end, sets IF for good.
InitTimer ==
    /\ Passes("timer")
    /\ RegisterInterruptHandler(32, "TimerCallback")
    /\ UNCHANGED <<IFlag, devices, isr, imr, stack, Tick, mishaps>>

SetIF ==
    /\ Passes("sti")
    /\ IFlag' = TRUE
    /\ UNCHANGED <<InterruptHandlers, devices, isr, imr, stack, Tick, mishaps>>

InitKeyboard ==
    /\ Passes("keyboard")
    /\ RegisterInterruptHandler(33, "KeyboardCallback")
    /\ UNCHANGED <<IFlag, devices, isr, imr, stack, Tick, mishaps>>

InitialisePaging ==
    /\ Passes("paging")
    /\ RegisterInterruptHandler(14, "PageFault")
    /\ UNCHANGED <<IFlag, devices, isr, imr, stack, Tick, mishaps>>

HeapInit ==
    /\ Passes("heap")
    /\ UNCHANGED <<IFlag, InterruptHandlers, devices, isr, imr, stack, Tick, mishaps>>

\* The heap touches pages that are mapped only by the fault this raises.
TouchUnmapped ==
    /\ stack = << >>
    /\ stage = "heap"
    /\ stack' = Push(14)
    /\ IFlag' = FALSE
    /\ UNCHANGED <<kernel, devices, isr, imr, Tick, mishaps>>

Kmain ==
    \/ CheckMagic \/ InitDescriptorTables \/ InitTimer \/ SetIF
    \/ InitKeyboard \/ InitialisePaging

-----------------------------------------------------------------------------
(* The stubs and what they call, with IF clear.                            *)

IsIRQ(vector) == vector >= 32

\* A slip the runs must notice: exceptions take the way of the IRQs.
AfterHandler_Always(vector) == "eoi"

\* Only IRQHandler reports to the controllers.
AfterHandler(vector) == IF IsIRQ(vector) THEN "eoi" ELSE "iret"

\* ISRHandler and IRQHandler: the registered handler is called, if any.
Dispatch ==
    /\ At("dispatch")
    /\ LET handler == InterruptHandlers[Top.vector]
       IN  /\ Goto(CASE handler = "KeyboardCallback" -> "read"
                      [] handler = "PageFault" -> "fault"
                      [] OTHER -> AfterHandler(Top.vector))
           /\ Tick' = IF handler = "TimerCallback" THEN 1 - Tick ELSE Tick
           /\ mishaps' = IF handler = "none" /\ Top.vector = Vector(1)
                           THEN mishaps \cup {"unhandled"} ELSE mishaps
    /\ UNCHANGED <<kernel, IFlag, devices, isr, imr>>

\* A slip the runs must notice: the scan code is left in the port.
ReadScanCode_Not ==
    /\ At("read")
    /\ Goto("ack")
    /\ UNCHANGED <<kernel, IFlag, devices, isr, imr, Tick, mishaps>>

\* KeyboardCallback: ScanCode = inb(0x60) empties the output buffer, and the
\* code chooses the way.
ReadScanCode ==
    /\ At("read")
    /\ output' = None
    /\ Goto(IF output = Function THEN "fun" ELSE "ack")
    /\ UNCHANGED <<kernel, IFlag, irr, queue, isr, imr, Tick, mishaps>>

\* int $0x80 finds no gate: the processor raises exception 13, whose stub
\* returns to the same instruction.
Fun ==
    /\ At("fun")
    /\ stack' = Push(13)
    /\ IFlag' = FALSE
    /\ UNCHANGED <<kernel, devices, isr, imr, Tick, mishaps>>

\* PageFault looks for the table of the page, or clears a new one, and fills an
\* entry in: accesses that fault in turn if the table is not mapped.  The access
\* is made again when that fault has returned.
FaultInTurn ==
    /\ At("fault")
    /\ Len(stack) < MaxNest
    /\ stack' = Push(14)
    /\ IFlag' = FALSE
    /\ UNCHANGED <<kernel, devices, isr, imr, Tick, mishaps>>

FillEntry ==
    /\ At("fault")
    /\ Goto("iret")
    /\ UNCHANGED <<kernel, IFlag, devices, isr, imr, Tick, mishaps>>

\* outb(com&0x7f,0x61) has its arguments the wrong way round: it writes 0x61 to
\* the port whose number was read.  To the controller's port 0x20 that is the
\* end of IRQ 1; to port 0x21 it masks lines 0, 5 and 6.
Acknowledge ==
    /\ At("ack")
    /\ \E com \in Port61 :
          /\ isr' = IF com % 128 = 32 THEN isr \ {1} ELSE isr
          /\ imr' = IF com % 128 = 33 THEN {0, 5, 6} ELSE imr
    /\ Goto(AfterHandler(Top.vector))
    /\ UNCHANGED <<kernel, IFlag, devices, Tick, mishaps>>

Highest(lines) == {l \in lines : \A k \in lines : Priority(l) <= Priority(k)}

\* A slip the runs must notice: the second controller is not told.
Ended_MasterOnly(vector) == Highest(isr) \ {14}

\* A slip the runs must notice: the controllers are not told.
Ended_None(vector) == {}

\* An end of interrupt ends the line of the highest priority in service; from
\* vector 40 on, the second controller is told as well.
Ended(vector) ==
    IF vector >= 40 THEN Highest(isr) ELSE Highest(isr) \ {14}

EndOfInterrupt ==
    /\ At("eoi")
    /\ isr' = isr \ Ended(Top.vector)
    /\ Goto("iret")
    /\ UNCHANGED <<kernel, IFlag, devices, imr, Tick, mishaps>>

\* A slip the runs must notice: ret in place of iret.
Return_NoFlags ==
    /\ At("iret")
    /\ stack' = Tail(stack)
    /\ UNCHANGED <<kernel, IFlag, devices, isr, imr, Tick, mishaps>>

\* sti; iret: no interrupt is taken between the two, and iret restores IF as
\* the processor saved it.
Return ==
    /\ At("iret")
    /\ stack' = Tail(stack)
    /\ IFlag' = Top.IFlag
    /\ UNCHANGED <<kernel, devices, isr, imr, Tick, mishaps>>

Handler ==
    \/ Dispatch \/ ReadScanCode \/ Fun \/ FaultInTurn \/ FillEntry \/ Acknowledge
    \/ EndOfInterrupt \/ Return

Next ==
    \/ RaiseTimer \/ RaiseOther \/ KeyFollows
    \/ \E code \in {Plain, Function} : KeyPress(code)
    \/ \E line \in Lines : Accept(line)
    \/ Kmain \/ HeapInit \/ TouchUnmapped \/ Handler

\* The timer ticks for ever and the keyboard sends what it keeps; the processor
\* goes on.  Handlers are much shorter than a tick, so a lower line, and kmain,
\* that are kept waiting by the timer get their turn in between.  HeapInit may
\* touch the same page for ever.
Spec ==
    /\ Init /\ [][Next]_vars
    /\ WF_vars(RaiseTimer) /\ WF_vars(KeyFollows)
    /\ WF_vars(Handler) /\ SF_vars(Kmain)
    /\ \A line \in Lines : SF_vars(Accept(line))

-----------------------------------------------------------------------------
(* Properties.                                                             *)

\* The 32 KB stack of loader.s holds the stub of one IRQ and no more: nothing but
\* an exception is taken on top of another stub, general protection only at the
\* int $0x80 of a function key, and a page fault only at an access to the tables
\* by PageFault, which is then made again.
OneInterruptAtATime ==
    /\ IFlag => stack = << >>
    /\ \A i \in 1 .. (Len(stack) - 1) :
          \/ stack[i].vector = 13 /\ stack[i + 1].step = "fun"
          \/ stack[i].vector = 14 /\ stack[i + 1].step = "fault"

\* A line that the controllers hold in service is that of an interrupt whose
\* stub is under way; a line left in service would shut out all lower ones.
InServiceIsUnderWay ==
    \A line \in isr \ {2} : \E i \in 1 .. Len(stack) : stack[i].vector = Vector(line)

\* A line is taken out of service by nobody but its own interrupt's stub,
\* though the command that IRQHandler sends names no line, and the keyboard
\* handler may send one of its own.
EndsOnlyItsOwn ==
    [][stage # "tables" =>
         \A line \in isr \ isr' : stack # << >> /\ line \in InService(Top.vector - 32)]_vars

\* A scan code that waits in the output buffer, with no interrupt latched or
\* under way to fetch it, shuts the keyboard up for ever.  That happens only to a key
\* pressed while the kernel comes up: before the controllers are set up, or in
\* the time that interrupts are on and InitKeyboard has not run.
WaitingKeyIsFetched ==
    (output # None /\ 1 \notin irr /\ mishaps = {}) =>
        \E i \in 1 .. Len(stack) :
            stack[i].vector = Vector(1) /\ stack[i].step \in {"dispatch", "read"}

Hung == \E i \in 1 .. Len(stack) : stack[i].step = "fun"

Faulting == \E i \in 1 .. Len(stack) : stack[i].vector = 14

\* After such a start, or a function key, all is lost, and so it is when the
\* faults of PageFault go on and on; otherwise every key that waits is read.
KeysAreRead ==
    \/ <>[]Faulting
    \/ (output # None) ~> (output = None \/ mishaps # {} \/ Hung \/ stage = "stopped")

\* Time goes on: Tick changes for ever, unless kmain does not like its magic
\* number, a function key is pressed, the keyboard handler's stray write masks
\* the timer, or the faults of PageFault go on and on.
TimeGoesOn ==
    \/ []<>(Tick = 0) /\ []<>(Tick = 1)
    \/ <>[]Faulting
    \/ <>(Hung \/ stage = "stopped" \/ 0 \in imr)

=============================================================================
