------------------------------- MODULE PaneView -------------------------------
(***************************************************************************)
(* What a pane of internal/term makes of its program's output: the emulator *)
(* and, read from the same bytes by a parser of its own, the keyboard modes *)
(* of its two views; and what the user looks at, a window that may be       *)
(* scrolled back into the history, and selects there.                       *)
(* Every step holds the lock of the pane.  A sequence that a read cuts in   *)
(* two is put together by both parsers, so each arrives whole.              *)
(***************************************************************************)
EXTENDS Emulator

CONSTANTS
    Sizes,        \* sizes of the screen, as <<columns, rows>>
    Counts,       \* arguments of a sequence
    Flags,        \* kitty keyboard flags
    StackLimit,   \* kittyKeyboardStackLimit
    MaxSteps      \* bound: sequences of the program and acts of the user

ASSUME PaneViewAssumption ==
    /\ {StackLimit, MaxSteps} \cup Counts \subseteq Nat \ {0} /\ 0 \in Flags
    /\ Sizes \subseteq (Nat \ {0}) \X (Nat \ {0})  \* Resize, NewHolderPane and Start take no less

VARIABLES
    vt,           \* the terminal
    keys,         \* keyboardAlt, keyboardMode, modifyOtherKeys, modifyOtherKeysMain
    offset,       \* scrollOffset
    sel,          \* the selection, in lines: the oldest of the history is 0
    steps         \* what MaxSteps bounds

viewVars == <<vt, keys, offset, sel, steps>>

Step == steps < MaxSteps /\ steps' = steps + 1

-----------------------------------------------------------------------------
(* Output.                                                                 *)

\* Mutant of Followed: the growth of the history instead of what was added.
FollowedByLength(t) ==
    IF offset = 0 THEN 0 ELSE Least(Len(t.history), offset + Len(t.history) - Len(vt.history))

\* writeOutput: the window stays on what it shows.
Followed(t) ==
    IF offset = 0 THEN 0 ELSE Least(Len(t.history), offset + t.serial - vt.serial)

Output(t) == Step /\ vt' = t /\ offset' = Followed(t) /\ UNCHANGED sel
Draws(t) == Output(t) /\ UNCHANGED keys

Parse == \E width \in 0 .. 2 : Draws(PutGlyph(vt, width))

ControlCodes ==
    \/ Draws(PutTab(vt, TRUE)) \/ Draws(MoveTo(vt, vt.cur.x - 1, vt.cur.y)) \/ Draws(MoveTo(vt, 0, vt.cur.y))
    \/ Draws(Newline(vt, "crlf" \in vt.mode))

ParseEsc ==
    \/ Draws(IF vt.cur.y = vt.bottom THEN ScrollUp(vt, vt.top, 1) ELSE MoveTo(vt, vt.cur.x, vt.cur.y + 1))
    \/ Draws(IF vt.cur.y = vt.top THEN ScrollDown(vt, vt.top, 1) ELSE MoveTo(vt, vt.cur.x, vt.cur.y - 1))
    \/ Draws(Newline(vt, TRUE)) \/ Draws([vt EXCEPT !.tabs = @ \cup {vt.cur.x}])
    \/ Draws(SaveCursor(vt)) \/ Draws(RestoreCursor(vt)) \/ Draws(AlignmentTest(vt))

\* handleCSI: the cursor.
MoveCSI ==
    LET x == vt.cur.x
        y == vt.cur.y
    IN  \/ \E n \in Counts : \E to \in {<<x, y - n>>, <<x, y + n>>, <<x + n, y>>, <<x - n, y>>, <<0, y + n>>, <<0, y - n>>, <<n - 1, y>>} :
              Draws(MoveTo(vt, to[1], to[2]))
        \/ \E n, m \in Counts : Draws(MoveAbsTo(vt, n - 1, m - 1))
        \/ \E n \in Counts : Draws(MoveAbsTo(vt, x, n - 1))
        \/ Draws(PutTab(vt, FALSE)) \/ Draws([vt EXCEPT !.tabs = @ \ {x}]) \/ Draws([vt EXCEPT !.tabs = {}])

\* handleCSI: erasing, inserting, deleting, scrolling.
EditCSI ==
    \/ \E how \in 0 .. 2 : Draws(EraseDisplay(vt, how)) \/ Draws(EraseLine(vt, how))
    \/ \E n \in Counts :
          \/ Draws(InsertBlanks(vt, n)) \/ Draws(DeleteChars(vt, n))
          \/ Draws(InsertBlankLines(vt, n)) \/ Draws(DeleteLines(vt, n))
          \/ Draws(ScrollUp(vt, vt.top, n)) \/ Draws(ScrollDown(vt, vt.top, n))
          \/ Draws(Clear(vt, vt.cur.x, vt.cur.y, vt.cur.x + n - 1, vt.cur.y))

\* setMode, and DECSTBM.
ModeCSI ==
    \/ \E set \in BOOLEAN : Draws(SetMode(vt, set, "wrap")) \/ Draws(SetMode(vt, set, "crlf")) \/ Draws(SetOrigin(vt, set))
    \/ \E a, b \in Counts : Draws(MoveAbsTo(SetScroll(vt, a - 1, b - 1), 0, 0))

-----------------------------------------------------------------------------
(* The keyboard.                                                           *)

NoMode == [flags |-> 0, stack |-> <<>>]
NoKeys == [alt |-> FALSE, mode |-> [view \in BOOLEAN |-> NoMode], other |-> FALSE, otherMain |-> FALSE]

\* applyKeyboardCSI: a switch of the view is followed only when it is one.
Switched(set) ==
    IF set = keys.alt THEN keys
    ELSE IF set THEN [keys EXCEPT !.alt = TRUE, !.otherMain = keys.other]
    ELSE [keys EXCEPT !.alt = FALSE, !.other = keys.otherMain]

\* A switch of the screen, with the cursor or without.
AltCSI(set) ==
    /\ \E withCursor \in BOOLEAN : Output(SetAlt(vt, set, withCursor))
    /\ keys' = Switched(set)

\* RIS, for both parsers.
ParseReset == Output(Reset(vt)) /\ keys' = NoKeys

\* Mutant of KeyView: both views share their modes.
KeyViewShared == FALSE

KeyView == keys.alt

Mode == keys.mode[KeyView]

\* CSI > flags u: the oldest entry makes room.
PushKeys(flags) ==
    LET room == IF Len(Mode.stack) = StackLimit THEN Tail(Mode.stack) ELSE Mode.stack IN
    keys' = [keys EXCEPT !.mode[KeyView] = [flags |-> flags, stack |-> Append(room, Mode.flags)]]

\* CSI = flags u.
ReplaceKeys(flags) == keys' = [keys EXCEPT !.mode[KeyView].flags = flags]

\* CSI < n u: more than there are leaves none.
PopKeys(n) ==
    LET left == Len(Mode.stack) - n IN
    keys' = [keys EXCEPT !.mode[KeyView] =
                IF left < 0 THEN NoMode ELSE [flags |-> Mode.stack[left + 1], stack |-> SubSeq(Mode.stack, 1, left)]]

\* CSI ? u asks for the flags and is not answered.
QueryKeys == UNCHANGED keys

\* To the emulator, which overlooks the sign before the number, each is CSI u.
KeyboardCSI ==
    /\ Output(RestoreCursor(vt))
    /\ \/ \E f \in Flags : PushKeys(f) \/ ReplaceKeys(f)
       \/ \E n \in Counts : PopKeys(n)
       \/ QueryKeys

\* CSI > 4 ; 2 m and CSI > 4 m.
OtherKeys(on) == Output(vt) /\ keys' = [keys EXCEPT !.other = on]

-----------------------------------------------------------------------------
(* The user.                                                               *)

HistoryLen == Len(vt.history)

\* lineText: what a line of the selection holds.
LineText(t, line) ==
    IF line < Len(t.history) THEN t.history[line + 1]
    ELSE IF line - Len(t.history) \in DOMAIN t.lines THEN t.lines[line - Len(t.history)] ELSE <<>>

IsBlank(text) == \A x \in DOMAIN text : text[x] = Blank

\* RenderLines: what row y of the window shows.
Rendered(t, o, y) == LineText(t, Len(t.history) - Least(o, Len(t.history)) + y)

\* Scroll, by some lines, and ResetScroll.
Scroll(delta) == Step /\ offset' = Clamp(offset + delta, 0, HistoryLen) /\ UNCHANGED <<vt, keys, sel>>

NoSelection == [active |-> FALSE, selecting |-> FALSE, start |-> 0, end |-> 0]

LineForRow(y) == HistoryLen - offset + y

Selects(s) == Step /\ sel' = s /\ UNCHANGED <<vt, keys, offset>>

StartSelection(y) == Selects([active |-> TRUE, selecting |-> TRUE, start |-> LineForRow(y), end |-> LineForRow(y)])
ExtendSelection(y) == sel.selecting /\ Selects([sel EXCEPT !.end = LineForRow(y)])

\* SelectionText, by whole lines.
SelectionText ==
    LET from == Least(sel.start, sel.end)
        to == IF from = sel.start THEN sel.end ELSE sel.start
    IN  [line \in from .. to |-> LineText(vt, line)]

\* What is blank, or no more than a character of one line, is not kept.
FinishSelection ==
    LET text == SelectionText IN
    /\ sel.selecting
    /\ \/ Selects(NoSelection) /\ (DOMAIN text = {sel.start} \/ \A line \in DOMAIN text : IsBlank(text[line]))
       \/ Selects([sel EXCEPT !.selecting = FALSE]) /\ \E line \in DOMAIN text : ~IsBlank(text[line])

ClearSelection == sel.active /\ Selects(NoSelection)

\* The live key.
GoLive == Step /\ offset > 0 /\ offset' = 0 /\ sel' = NoSelection /\ UNCHANGED <<vt, keys>>

\* The layout changes; the offset stays.
Resizes == Step /\ (\E s \in Sizes : vt' = Resize(vt, s[1], s[2])) /\ UNCHANGED <<keys, offset, sel>>

-----------------------------------------------------------------------------
ViewInit ==
    /\ \E s \in Sizes : vt = New(s[1], s[2])
    /\ keys = NoKeys /\ offset = 0 /\ sel = NoSelection /\ steps = 0

ViewNext ==
    \/ Parse \/ ControlCodes \/ ParseEsc \/ ParseReset \/ MoveCSI \/ EditCSI \/ ModeCSI \/ KeyboardCSI
    \/ \E set \in BOOLEAN : AltCSI(set) \/ OtherKeys(set)
    \/ Resizes \/ FinishSelection \/ ClearSelection \/ GoLive
    \/ \E d \in {1, -1} : Scroll(d)
    \/ \E y \in 0 .. vt.rows - 1 : StartSelection(y) \/ ExtendSelection(y)

ViewSpec == ViewInit /\ [][ViewNext]_viewVars

-----------------------------------------------------------------------------
(* Properties.                                                             *)

\* The cursor is a cell of the screen, of its region in origin mode, and the
\* window shows lines there are, after every change of the size, the screen
\* and the region, and every restored cursor (state.go: restoreCursor, resize).
CursorInside ==
    /\ vt.cur.x \in 0 .. vt.cols - 1
    /\ vt.cur.y \in IF vt.cur.origin THEN vt.top .. vt.bottom ELSE 0 .. vt.rows - 1
    /\ 0 <= vt.top /\ vt.top <= vt.bottom /\ vt.bottom < vt.rows
    /\ offset \in 0 .. HistoryLen

WholeLine(l) ==
    \A x \in DOMAIN l : /\ l[x] = Wide => x + 1 \in DOMAIN l /\ l[x + 1] = Dummy
                        /\ l[x] = Dummy => x - 1 \in DOMAIN l /\ l[x - 1] = Wide

Whole(t) == \A ls \in {t.lines, t.altLines, t.history} : \A y \in DOMAIN ls : WholeLine(ls[y])

\* The sequences that cut glyphs in two.
Cuts ==
    \/ <<vt'.cols, vt'.rows>> # <<vt.cols, vt.rows>>
    \/ \E n \in Counts : vt' = InsertBlanks(vt, n) \/ vt' = DeleteChars(vt, n)

\* A line drawn never is a cell too wide or too narrow: no step leaves half of
\* a wide glyph, on either screen or in the scrollback, but for the sequences
\* that insert or delete cells and a change of the size (state.go: clearWideAt).
GlyphsWhole == [][Whole(vt) /\ ~Cuts => Whole(vt')]_viewVars

Prints == steps' # steps /\ vt' # vt
Dropped(t) == t.serial - Len(t.history)  \* lines the cap took

WindowStays ==
    offset > 0 /\ vt.serial - offset >= Dropped(vt') =>
        \A y \in 0 .. vt.rows - 1 : y < offset => Rendered(vt', offset', y) = Rendered(vt, offset, y)

\* A window that is scrolled back shows the same lines of the history however
\* much is printed below it, also when the history is full, until the cap takes
\* the oldest line it shows (pane.go: writeOutput).
ViewStays == [][Prints => WindowStays]_viewVars

\* The other screen holds the shell's lines while the program shows its own.
ShellStays ==
    AltScreen(vt) /\ AltScreen(vt') =>
        /\ vt'.history = vt.history
        /\ vt'.altLines = vt.altLines \/ <<vt'.cols, vt'.rows>> # <<vt.cols, vt.rows>>

ShellKeysStay ==
    keys.alt /\ keys' # NoKeys =>
        /\ keys'.mode[FALSE] = keys.mode[FALSE]
        /\ keys'.otherMain = keys.otherMain /\ (~keys'.alt => keys'.other = keys.otherMain)

\* A full-screen program, until it leaves its screen or resets the terminal,
\* changes neither the shell's screen and scrollback nor its keyboard modes,
\* and the shell's key encoding is back when it leaves (state.go: pushHistory;
\* pane.go: keyboardProtocolMode).
AltLeavesShell == [][ShellStays /\ ShellKeysStay]_viewVars
=============================================================================
