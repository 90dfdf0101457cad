------------------------------- MODULE Screen -------------------------------
(***************************************************************************)
(* The text screen of core/videodriver.c.  The kernel thread prints with   *)
(* KPrintf; the keyboard interrupt echoes what it stores in the key        *)
(* buffer; both call WriteChar, on the same position and the same memory,  *)
(* and nothing keeps them apart.  An echo runs to its end between two      *)
(* accesses of the thread.  Of the memory, the model keeps which cells     *)
(* show a character; colours and the cursor are left out.                  *)
(***************************************************************************)
EXTENDS Integers

CONSTANTS
    Width, Height,      \* 80 by 25
    TabWidth,           \* the spaces of a tab: 8
    SIZE,               \* what the key buffer holds, and '\b' can take back: 1024
    MaxBack             \* bound: how far to the left of the screen '\b' goes

ASSUME ScreenAssumption ==
    /\ {Width, TabWidth, SIZE} \subseteq Nat \ {0}
    /\ Height \in Nat \ {0, 1}
    /\ MaxBack \in Nat

VARIABLES
    screen,     \* PositionX, PositionY, the cells, and the history of mishaps
    typed,      \* the characters '\b' can take back: BufferWrite - BufferRead
    pc,         \* where the thread is in WriteChar
    local       \* what the thread has loaded and not yet stored

vars == <<screen, typed, pc, local>>

\* "edge": a character went to column Width, which is the next line's first.
\* "crossed": '\b' went to the left of the first column.
\* "raced": an echo came between two accesses of the thread that belong together.
Mishaps == {"edge", "crossed", "raced"}

OnScreen == 0 .. Width * Height - 1

Init ==
    /\ screen = [X |-> 0, Y |-> 0, ink |-> {}, lost |-> FALSE, mishaps |-> {}]
    /\ typed = 0
    /\ pc = "idle"
    /\ local = 0

-----------------------------------------------------------------------------
(* What the functions do to the screen.                                    *)

Happens(s, mishap, happened) == IF happened THEN [s EXCEPT !.mishaps = @ \cup {mishap}] ELSE s

\* A character is stored in a cell.  It is lost, or takes another one's place,
\* where the cell is in use or off the screen.
Store(s, cell) ==
    [s EXCEPT !.ink = @ \cup ({cell} \cap OnScreen),
              !.lost = @ \/ cell \in s.ink \/ cell \notin OnScreen]

\* What comes with the column the character goes to.
AtColumn(s) == Happens(Happens(s, "edge", s.X = Width), "crossed", s.X < 0)

Cell(s) == s.Y * Width + s.X

\* A slip the runs must notice: the last line is not cleared.
CopyUp_NoClear(ink) ==
    ({c - Width : c \in ink} \cap OnScreen) \cup {c \in ink : c >= Width * (Height - 1)}

\* memcpy moves all lines up, ascending, so that they may overlap; memset
\* clears the last one.
CopyUp(ink) == {c - Width : c \in ink} \cap OnScreen

ScrollScreen(s) == [s EXCEPT !.ink = CopyUp(@), !.X = 0, !.Y = @ - 1]

\* NewLine goes down, also to the line behind the screen, or scrolls.
MayGoDown(Y) == Y < Height

NewLine(s) == IF MayGoDown(s.Y) THEN [s EXCEPT !.Y = @ + 1, !.X = 0] ELSE ScrollScreen(s)

\* A slip the runs must notice: the screen scrolls one line late.
Bottom_Late(s) == IF s.Y > Height THEN ScrollScreen(s) ELSE s

\* The last statement of WriteChar.
Bottom(s) == IF s.Y >= Height THEN ScrollScreen(s) ELSE s

\* if (PositionX > 80) NewLine().
Broken(s) == IF s.X > Width THEN NewLine(s) ELSE s

Advance(s) == [s EXCEPT !.X = @ + 1]
Back(s) == [s EXCEPT !.X = @ - 1]

Plain(s) == Bottom(Broken(Advance(Store(AtColumn(s), Cell(s)))))

\* '\b' goes back, writes a 0, and goes back again.
Blank(s) == Bottom(Broken(Advance([s EXCEPT !.ink = @ \ {Cell(s)}])))
RubOut(s) == Bottom(Back(Blank(Happens(Back(s), "crossed", s.X <= 0))))

Tab(s) ==
    LET spaces[n \in 0 .. TabWidth] == IF n = 0 THEN s ELSE Plain(spaces[n - 1])
    IN  Bottom(spaces[TabWidth])

-----------------------------------------------------------------------------
(* The keyboard interrupt: WriteToKeyBuff calls WriteChar.                 *)

\* The accesses of the thread between which every echo does harm.
Critical ==
    \/ pc \in {"store", "load", "bump", "go_down", "line_home", "home", "load_up", "go_up"}
    \/ pc \in {"bottom", "copy"} /\ screen.Y = Height

\* The kernel reads nothing from the buffer; full, it is begun again.
EchoChar ==
    /\ typed' = IF typed = SIZE THEN 1 ELSE typed + 1
    /\ LET s == Happens(screen, "raced", Critical)
       IN  screen' \in {Plain(s), Tab(s), Bottom(NewLine(s))}
    /\ UNCHANGED <<pc, local>>

\* '\b' is echoed if there is a character in the buffer that it takes back.
EchoRubOut ==
    /\ typed > 0
    /\ screen.X > -MaxBack
    /\ typed' = typed - 1
    /\ screen' = RubOut(Happens(screen, "raced", Critical))
    /\ UNCHANGED <<pc, local>>

-----------------------------------------------------------------------------
(* The kernel thread, which prints characters and line ends.               *)

At(step) == pc = step
Go(step) == pc' = step

KPrintf ==
    /\ At("idle")
    /\ (Go("index") \/ Go("line"))
    /\ UNCHANGED <<screen, typed, local>>

\* The index of the cell: PositionY is loaded, then PositionX.  Between the two
\* an echo does harm if it changes the line.
IndexY ==
    /\ At("index") /\ Go("index_x")
    /\ local' = screen.Y
    /\ UNCHANGED <<screen, typed>>

IndexX ==
    /\ At("index_x") /\ Go("store")
    /\ local' = local * Width + screen.X
    /\ screen' = Happens(AtColumn(screen), "raced", local # screen.Y)
    /\ UNCHANGED typed

StoreChar ==
    /\ At("store") /\ Go("load")
    /\ screen' = Store(screen, local)
    /\ UNCHANGED <<typed, local>>

\* PositionX++
LoadX ==
    /\ At("load") /\ Go("bump")
    /\ local' = screen.X
    /\ UNCHANGED <<screen, typed>>

StoreX ==
    /\ At("bump") /\ Go("edge")
    /\ screen' = [screen EXCEPT !.X = local + 1]
    /\ UNCHANGED <<typed, local>>

Edge ==
    /\ At("edge")
    /\ Go(IF screen.X > Width THEN "line" ELSE "bottom")
    /\ UNCHANGED <<screen, typed, local>>

LineTest ==
    /\ At("line")
    /\ Go(IF MayGoDown(screen.Y) THEN "down" ELSE "copy")
    /\ UNCHANGED <<screen, typed, local>>

\* PositionY++
LoadDown ==
    /\ At("down") /\ Go("go_down")
    /\ local' = screen.Y
    /\ UNCHANGED <<screen, typed>>

StoreDown ==
    /\ At("go_down") /\ Go("line_home")
    /\ screen' = [screen EXCEPT !.Y = local + 1]
    /\ UNCHANGED <<typed, local>>

LineHome ==
    /\ At("line_home") /\ Go("bottom")
    /\ screen' = [screen EXCEPT !.X = 0]
    /\ UNCHANGED <<typed, local>>

BottomTest ==
    /\ At("bottom")
    /\ Go(IF screen.Y >= Height THEN "copy" ELSE "idle")
    /\ UNCHANGED <<screen, typed, local>>

Copy ==
    /\ At("copy") /\ Go("home")
    /\ screen' = [screen EXCEPT !.ink = CopyUp(@)]
    /\ UNCHANGED <<typed, local>>

ScrollHome ==
    /\ At("home") /\ Go("load_up")
    /\ screen' = [screen EXCEPT !.X = 0]
    /\ UNCHANGED <<typed, local>>

\* PositionY--
LoadUp ==
    /\ At("load_up") /\ Go("go_up")
    /\ local' = screen.Y
    /\ UNCHANGED <<screen, typed>>

\* WriteChar is over: its last test cannot hold after a ScrollScreen.
StoreUp ==
    /\ At("go_up") /\ Go("idle")
    /\ screen' = [screen EXCEPT !.Y = local - 1]
    /\ local' = 0
    /\ UNCHANGED typed

WriteChar ==
    \/ IndexY \/ IndexX \/ StoreChar \/ LoadX \/ StoreX \/ Edge
    \/ LineTest \/ LoadDown \/ StoreDown \/ LineHome
    \/ BottomTest \/ Copy \/ ScrollHome \/ LoadUp \/ StoreUp

Next == EchoChar \/ EchoRubOut \/ KPrintf \/ WriteChar

Spec == Init /\ [][Next]_vars

-----------------------------------------------------------------------------
(* Properties.                                                             *)

\* Between two characters of the thread the next one goes to a line of the
\* screen, and at no time further than the line behind it: whatever echoes come
\* between the accesses of NewLine and ScrollScreen, which both sides may be in
\* at the same time.
RestsOnScreen ==
    /\ screen.Y \in 0 .. Height
    /\ pc = "idle" => screen.Y < Height

\* '\b' does not stop at the first column, and the echo's tabs and line ends
\* are wider than what it goes back; but as it takes back no more than the
\* buffer holds, it stays within SIZE columns of the line's begin, and writing
\* within one of its end.
ColumnsInReach ==
    "raced" \notin screen.mishaps => screen.X \in (typed - SIZE) .. (Width + 1)

\* The position stays in reach of the screen, in both directions.
PositionInReach == RestsOnScreen /\ ColumnsInReach

\* Every character goes to a blank cell of the screen, in spite of the scrolling
\* and of echoes in the middle of the thread's own WriteChar, but for the
\* three accidents.
NothingOverwritten == screen.mishaps = {} => ~screen.lost

=============================================================================
