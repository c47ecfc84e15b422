------------------------------- MODULE Emulator -------------------------------
(***************************************************************************)
(* The terminal emulator of internal/vt (state.go, parse.go, csi.go): what  *)
(* each character and each complete escape sequence makes of a terminal t.  *)
(* Columns and rows count from 0, as in the code.  A cell holds a glyph:    *)
(* whether it is blank, narrow, the first or the second half of a wide one; *)
(* colours, titles, colour tables and the answers to queries are left out.  *)
(***************************************************************************)
EXTENDS Integers, Sequences, FiniteSets

CONSTANTS
    HistoryLimit, \* lines of scrollback, 5000 in the code
    TabSpaces     \* columns between tab stops, 8 in the code

ASSUME EmulatorAssumption == {HistoryLimit, TabSpaces} \subseteq Nat \ {0}

Blank == "blank"
Narrow == "narrow"
Wide == "wide"    \* attrWide
Dummy == "dummy"  \* attrWideDummy

Least(a, b) == IF a < b THEN a ELSE b
Clamp(v, low, high) == IF v < low THEN low ELSE IF v > high THEN high ELSE v

BlankLine(cols) == [x \in 0 .. cols - 1 |-> Blank]
BlankScreen(cols, rows) == [y \in 0 .. rows - 1 |-> BlankLine(cols)]
HomeCursor == [x |-> 0, y |-> 0, wrapNext |-> FALSE, origin |-> FALSE]

AltScreen(t) == "alt" \in t.mode

-----------------------------------------------------------------------------
(* The cursor.                                                             *)

MoveTo(t, x, y) ==
    LET row == IF t.cur.origin THEN Clamp(y, t.top, t.bottom) ELSE Clamp(y, 0, t.rows - 1)
    IN  [t EXCEPT !.cur = [x |-> Clamp(x, 0, t.cols - 1), y |-> row, wrapNext |-> FALSE, origin |-> t.cur.origin]]

MoveAbsTo(t, x, y) == MoveTo(t, x, IF t.cur.origin THEN y + t.top ELSE y)

SaveCursor(t) == [t EXCEPT !.saved = t.cur]

\* Mutant of RestoreCursor: the cursor is put back where it was.
RestoreUnmoved(t) == [t EXCEPT !.cur = t.saved]

\* The screen and its region may have changed since.
RestoreCursor(t) == MoveTo([t EXCEPT !.cur = t.saved], t.saved.x, t.saved.y)

\* putTab: to the next or previous tab stop, or the edge.
PutTab(t, forward) ==
    LET ahead == {x \in t.tabs : x > t.cur.x}
        behind == {x \in t.tabs : x < t.cur.x}
    IN  MoveTo(t, IF forward THEN (IF ahead = {} THEN t.cols ELSE CHOOSE x \in ahead : \A z \in ahead : x <= z)
                  ELSE (IF behind = {} THEN 0 ELSE CHOOSE x \in behind : \A z \in behind : x >= z), t.cur.y)

-----------------------------------------------------------------------------
(* Cells.                                                                  *)

\* Mutant of WideCleared: only the second half of a wide glyph is looked for.
WideClearedAhead(l, x) ==
    [i \in DOMAIN l |-> IF i = x + 1 /\ l[x] = Wide /\ l[i] = Dummy THEN Blank ELSE l[i]]

\* clearWideAt: the other half of a wide glyph that x cuts goes.
WideCleared(l, x) ==
    [i \in DOMAIN l |-> IF \/ i = x + 1 /\ l[x] = Wide /\ l[i] = Dummy
                           \/ i = x - 1 /\ l[x] = Dummy /\ l[i] = Wide THEN Blank ELSE l[i]]

Erased(l, x0, x1) ==
    [i \in DOMAIN l |-> IF i \in x0 .. x1 THEN Blank ELSE WideCleared(WideCleared(l, x0), x1)[i]]

\* clear; y0 <= y1 at every call.
Clear(t, x0, y0, x1, y1) ==
    [t EXCEPT !.lines = [y \in DOMAIN @ |->
        IF y \in y0 .. y1 THEN Erased(@[y], Clamp(x0, 0, t.cols - 1), Clamp(x1, 0, t.cols - 1)) ELSE @[y]]]

ClearAll(t) == Clear(t, 0, 0, t.cols - 1, t.rows - 1)

Newest(seq) == SubSeq(seq, 1 + (IF Len(seq) > HistoryLimit THEN Len(seq) - HistoryLimit ELSE 0), Len(seq))

\* The n first lines go to the scrollback; serial counts them.
Pushed(t, n) ==
    [t EXCEPT !.serial = @ + n, !.history = Newest(@ \o [i \in 1 .. n |-> t.lines[i - 1]])]

\* Mutant of PushHistory: lines of the alternate screen are kept, too.
PushAnyway(t, n) == Pushed(t, n)

PushHistory(t, n) == IF AltScreen(t) THEN t ELSE Pushed(t, n)

\* scrollUp and scrollDown: the lines from orig to the bottom of the region.
ScrollUp(t, orig, k) ==
    LET n == Clamp(k, 0, t.bottom - orig + 1)
        pushed == IF orig = 0 THEN PushHistory(t, n) ELSE t
    IN  [pushed EXCEPT !.lines = [y \in DOMAIN @ |-> IF y \notin orig .. t.bottom THEN @[y]
                                                    ELSE IF y + n <= t.bottom THEN @[y + n] ELSE BlankLine(t.cols)]]

ScrollDown(t, orig, k) ==
    LET n == Clamp(k, 0, t.bottom - orig + 1) IN
    [t EXCEPT !.lines = [y \in DOMAIN @ |-> IF y \notin orig .. t.bottom THEN @[y]
                                           ELSE IF y - n >= orig THEN @[y - n] ELSE BlankLine(t.cols)]]

Newline(t, firstCol) ==
    LET s == IF t.cur.y = t.bottom THEN ScrollUp(t, t.top, 1) ELSE t IN
    MoveTo(s, IF firstCol THEN 0 ELSE t.cur.x, IF t.cur.y = t.bottom THEN t.cur.y ELSE t.cur.y + 1)

\* parse: a character of that width; a combining mark is not kept.
PutGlyph(t, width) ==
    LET wraps == "wrap" \in t.mode
        s == IF wraps /\ t.cur.wrapNext THEN Newline(t, TRUE) ELSE t
        u == IF width = 2 /\ s.cur.x = s.cols - 1 /\ wraps THEN Newline(s, TRUE) ELSE s
        x == u.cur.x
        y == u.cur.y
        fits == width = 2 /\ x + 1 < u.cols
        cut == IF fits THEN WideCleared(WideCleared(u.lines[y], x), x + 1) ELSE WideCleared(u.lines[y], x)
        drawn == IF fits THEN [cut EXCEPT ![x] = Wide, ![x + 1] = Dummy] ELSE [cut EXCEPT ![x] = Narrow]
        v == [u EXCEPT !.lines[y] = drawn]
    IN  IF width = 0 THEN s
        ELSE IF x + width < u.cols THEN MoveTo(v, x + width, y)
        ELSE [v EXCEPT !.cur.x = u.cols - 1, !.cur.wrapNext = TRUE]

\* parseEscTest: the screen is filled with a letter.
AlignmentTest(t) == [t EXCEPT !.lines = [y \in DOMAIN @ |-> [x \in DOMAIN @[y] |-> Narrow]]]

-----------------------------------------------------------------------------
(* Editing within a line and between lines.                                *)

SetLine(t, l) == [t EXCEPT !.lines[t.cur.y] = l]

\* insertBlanks: the copy comes first, so half a glyph may be pushed on.
InsertBlanks(t, n) ==
    LET x == t.cur.x
        l == t.lines[t.cur.y]
        moved == [i \in DOMAIN l |-> IF i >= x + n THEN l[i - n] ELSE l[i]]
    IN  IF x + n >= t.cols THEN Clear(t, x, t.cur.y, t.cols - 1, t.cur.y)
        ELSE Clear(SetLine(t, moved), x, t.cur.y, x + n - 1, t.cur.y)

\* deleteChars.
DeleteChars(t, n) ==
    LET x == t.cur.x
        l == t.lines[t.cur.y]
        moved == [i \in DOMAIN l |-> IF i >= x /\ i + n < t.cols THEN l[i + n] ELSE l[i]]
    IN  IF x + n >= t.cols THEN Clear(t, x, t.cur.y, t.cols - 1, t.cur.y)
        ELSE Clear(SetLine(t, moved), t.cols - n, t.cur.y, t.cols - 1, t.cur.y)

InsertBlankLines(t, n) == IF t.cur.y \in t.top .. t.bottom THEN ScrollDown(t, t.cur.y, n) ELSE t
DeleteLines(t, n) == IF t.cur.y \in t.top .. t.bottom THEN ScrollUp(t, t.cur.y, n) ELSE t

\* CSI J: the line above the cursor's is only cleared from the third line on.
EraseDisplay(t, how) ==
    CASE how = 0 -> LET s == Clear(t, t.cur.x, t.cur.y, t.cols - 1, t.cur.y) IN
                    IF t.cur.y < t.rows - 1 THEN Clear(s, 0, t.cur.y + 1, t.cols - 1, t.rows - 1) ELSE s
      [] how = 1 -> Clear(IF t.cur.y > 1 THEN Clear(t, 0, 0, t.cols - 1, t.cur.y - 1) ELSE t, 0, t.cur.y, t.cur.x, t.cur.y)
      [] how = 2 -> ClearAll(t)

\* CSI K.
EraseLine(t, how) ==
    Clear(t, IF how = 0 THEN t.cur.x ELSE 0, t.cur.y, IF how = 1 THEN t.cur.x ELSE t.cols - 1, t.cur.y)

-----------------------------------------------------------------------------
(* Modes, the region and the size.                                         *)

SetScroll(t, a, b) ==
    LET top == Clamp(a, 0, t.rows - 1)
        bottom == Clamp(b, 0, t.rows - 1)
    IN  [t EXCEPT !.top = IF top > bottom THEN bottom ELSE top, !.bottom = IF top > bottom THEN top ELSE bottom]

SetMode(t, set, m) == [t EXCEPT !.mode = IF set THEN @ \cup {m} ELSE @ \ {m}]

SetOrigin(t, set) == MoveAbsTo([t EXCEPT !.cur.origin = set], 0, 0)

SwapScreen(t) == [t EXCEPT !.lines = t.altLines, !.altLines = t.lines,
                           !.mode = IF AltScreen(t) THEN @ \ {"alt"} ELSE @ \cup {"alt"}]

\* Modes 47, 1047 and, with the cursor, 1049.
SetAlt(t, set, withCursor) ==
    LET cleared == IF AltScreen(t) THEN ClearAll(t) ELSE t
        swapped == IF ~set \/ ~AltScreen(t) THEN SwapScreen(cleared) ELSE cleared
    IN  IF ~withCursor THEN swapped ELSE IF set THEN SaveCursor(swapped) ELSE RestoreCursor(swapped)

\* reset: the scrollback and the other screen stay.  The last row and column
\* are passed in the wrong order, so that only a square is cleared.
Reset(t) ==
    LET s == [t EXCEPT !.cur = HomeCursor, !.saved = HomeCursor, !.top = 0, !.bottom = t.rows - 1, !.mode = {"wrap"},
                       !.tabs = {x \in 1 .. t.cols - 1 : x % TabSpaces = 0}]
    IN  MoveTo(Clear(s, 0, 0, t.rows - 1, t.cols - 1), 0, 0)

\* resize: lines slide up until the cursor's is inside; new columns get no tab
\* stops.
Resize(t, cols, rows) ==
    LET slide == IF t.cur.y - rows + 1 > 0 THEN t.cur.y - rows + 1 ELSE 0
        fit(ls) == [y \in 0 .. rows - 1 |-> [x \in 0 .. cols - 1 |->
                       IF y < Least(rows, t.rows) /\ x < Least(cols, t.cols) THEN ls[y + slide][x] ELSE Blank]]
        s == [t EXCEPT !.cols = cols, !.rows = rows, !.lines = fit(t.lines), !.altLines = fit(t.altLines),
                       !.tabs = {x \in t.tabs : x < cols}]
    IN  IF cols = t.cols /\ rows = t.rows THEN t ELSE MoveTo(SetScroll(s, 0, rows - 1), t.cur.x, t.cur.y)

New(cols, rows) ==
    Reset([cols |-> cols, rows |-> rows, lines |-> BlankScreen(cols, rows), altLines |-> BlankScreen(cols, rows),
           cur |-> HomeCursor, saved |-> HomeCursor, top |-> 0, bottom |-> rows - 1, mode |-> {}, tabs |-> {},
           history |-> <<>>, serial |-> 0])
=============================================================================
