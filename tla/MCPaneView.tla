----------------------------- MODULE MCPaneView -----------------------------
(* Checks the emulator, the window on its scrollback and the keyboard.     *)
EXTENDS PaneView

MCSizes == {<<3, 2>>, <<4, 3>>}

\* Fresh, or with a scrollback that is full.
Used(t) == PutGlyph(ScrollUp(PutGlyph(Newline(PutGlyph(t, 2), TRUE), 1), 0, 2), 1)
MCInit ==
    /\ \E s \in Sizes : LET t == New(s[1], s[2]) IN vt \in {t, Used(t)}
    /\ keys = NoKeys /\ offset = 0 /\ sel = NoSelection /\ steps = 0
MCSpec == MCInit /\ [][ViewNext]_viewVars

-----------------------------------------------------------------------------
\* Expected to fail: no step leaves half of a wide glyph.
GlyphsAlwaysWhole == [][Whole(vt) => Whole(vt')]_viewVars

\* Expected to fail: what keys are encoded for and what wheel and scrollback
\* are kept for is the same screen (pane.go: AltScreen).
FullScreenAgrees == keys.alt <=> AltScreen(vt)

\* Expected to fail: what sets the encoding of keys moves no cursor (README.md:
\* the keyboard protocol of kitty is handled; pane.go: scanKeyboardProtocol).
KeysMoveNothing == [][keys' # keys /\ keys'.alt = keys.alt /\ keys' # NoKeys => vt'.cur = vt.cur]_viewVars

\* Expected to fail: a reset leaves an empty screen (parse.go: "reset to initial
\* state").
ResetClears == [][ParseReset => \A y \in DOMAIN vt'.lines : vt'.lines[y] = BlankLine(vt'.cols)]_viewVars

\* Expected to fail: a line of the selection holds the same text however much
\* is printed (pane.go: "stable line coordinates").
SelectionStays ==
    [][sel.active /\ sel' = sel /\ sel.start < HistoryLen =>
          LineText(vt', sel.start) = LineText(vt, sel.start)]_viewVars
=============================================================================
