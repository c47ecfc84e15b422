SPECIFICATION MCSpec
CONSTANTS
 HistoryLimit = 2
 TabSpaces = 2
 Sizes <- MCSizes
 Counts = {1,2}
 Flags = {0,1}
 StackLimit = 2
 MaxSteps = 4
INVARIANT CursorInside
PROPERTIES GlyphsWhole ViewStays AltLeavesShell
CHECK_DEADLOCK FALSE
