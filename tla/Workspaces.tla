------------------------------ MODULE Workspaces ------------------------------
(***************************************************************************)
(* Workspaces, tabs and panes of internal/ui (model.go, split.go,           *)
(* persist.go): the lists, the layout trees and the selections that every   *)
(* operation of the user, the control socket and a plugin rearranges, the   *)
(* menus that stay open meanwhile, and the state file that a launch         *)
(* restores them from.                                                     *)
(*                                                                         *)
(* The update loop handles one message after another, so each handler is    *)
(* one step.  A save takes place within one: a crash in the middle leaves   *)
(* the old file (state.Save renames a complete temporary file), as a crash  *)
(* before the handler does.  A pane's identity stands for its session; ids  *)
(* of panes and workspaces that nothing refers to any more are used again,  *)
(* which hides nothing, because they only tell them apart.                  *)
(***************************************************************************)
EXTENDS SplitTree, FiniteSets

CONSTANTS
    Panes,        \* bound: panes that are open, or that a menu refers to
    Spaces,       \* bound: workspaces, likewise
    MaxTabs,      \* bound: tabs of a workspace
    DragPanes,    \* bound: panes while something is dragged
    Ratios,       \* tenths a divider is dragged to
    Width, Height \* of the terminal area

ASSUME WorkspacesAssumption ==
    /\ None \notin Panes \cup Spaces \cup Nat /\ Panes \cap Spaces = {} /\ {MaxTabs, DragPanes, Width, Height} \subseteq Nat \ {0} /\ Ratios \subseteq 1 .. 9

VARIABLES
    spaces,       \* m.spaces, each with its tabs
    selected,     \* m.selected
    floating,     \* the panes with a placement of their own
    menu,         \* m.mode with menuPane, menuSpace or pickSpace
    dragSpace,    \* the workspace that is dragged in the sidebar
    dragMoved,    \* and whether it was moved
    divider,      \* m.drag: a divider is dragged
    fresh,        \* workspaces of the command line that no save has seen,
    moved,        \* and whether what a drag moved is not saved: history
    file          \* the state file

drag == <<dragSpace, dragMoved, divider>>
spacesVars == <<spaces, selected, floating, menu, drag, fresh, moved, file>>

NoMenu == [kind |-> "none", target |-> None]
EmptyTab == [panes |-> <<>>, layout |-> Nil, selected |-> 1]

-----------------------------------------------------------------------------
(* The state file.                                                         *)

\* A list without some of its elements.
Without(list, gone) == FlattenSeq([i \in DOMAIN list |-> IF list[i] \in gone THEN <<>> ELSE <<list[i]>>])

Kept(t, fl) == Without(t.panes, fl)

\* Mutant of Saved: indexes count the floating panes too.
SavedCounting(t, fl) == [panes |-> Kept(t, fl), layout |-> SnapshotNode(t.layout, t.panes)]

\* A tab as snapshot writes it: floating panes are left out.
Saved(t, fl) == [panes |-> Kept(t, fl), layout |-> SnapshotNode(t.layout, Kept(t, fl))]

\* The selections in the file are left out: restore takes them as numbers n
\* that it brings into the lists it restored.
SnapshotSpaces(sp, fl) == [i \in DOMAIN sp |-> [id |-> sp[i].id, tabs |-> [j \in DOMAIN sp[i].tabs |-> Saved(sp[i].tabs[j], fl)]]]

RestoredTab(t, n) ==
    LET layout == RestoreNode(t.layout, t.panes) IN
    [panes |-> t.panes, selected |-> Clamp(n, 1, Len(t.panes)),
     layout |-> IF LayoutComplete(layout, t.panes) THEN layout ELSE FallbackLayout(t.panes)]

\* restore: tabs without panes and workspaces without tabs are dropped.
RestoredSpace(s, n) ==
    LET tabs == Without(s.tabs, {t \in ToSet(s.tabs) : t.panes = <<>>}) IN
    [id |-> s.id, tabs |-> [j \in DOMAIN tabs |-> RestoredTab(tabs[j], n)], active |-> Clamp(n, 1, Len(tabs))]

Restored(f, n) ==
    LET all == [i \in DOMAIN f |-> RestoredSpace(f[i], n)] IN Without(all, {s \in ToSet(all) : s.tabs = <<>>})

-----------------------------------------------------------------------------
Live(sp) == UNION {UNION {ToSet(s.tabs[j].panes) : j \in DOMAIN s.tabs} : s \in ToSet(sp)}
Ids(sp) == {s.id : s \in ToSet(sp)}
FreePanes ==
    IF (divider \/ dragSpace # None) /\ Cardinality(Live(spaces)) >= DragPanes THEN {}
    ELSE Panes \ (Live(spaces) \cup {menu.target})
FreeSpaces == Spaces \ (Ids(spaces) \cup {menu.target, dragSpace})

Current == spaces[selected]
ActiveTab(s) == s.tabs[s.active]

\* The workspace of a pane.
OwnerOf(p) == CHOOSE i \in DOMAIN spaces : p \in Live(<<spaces[i]>>)

\* persist.
Persist == file' = SnapshotSpaces(spaces', floating') /\ fresh' = {} /\ moved' = FALSE
Unsaved == UNCHANGED <<fresh, moved, file>>

\* A motion of the mouse moves what it drags at once, and saves nothing.
Moving == moved' = TRUE /\ UNCHANGED <<fresh, file>>

\* The keyboard and the mouse belong to a menu while it is open, also the
\* motions and the release of a drag.
Modal == menu.kind # "none"

-----------------------------------------------------------------------------
(* Opening.                                                                *)

\* What addPaneSide splits: the focused pane, or the last one of the layout
\* when a floating pane has the focus.
SplitTarget(t, fl) == IF t.panes[t.selected] \in fl THEN t.layout[Max(Leaves(t.layout))].pane ELSE t.panes[t.selected]

Appended(t, p) == [t EXCEPT !.panes = Append(@, p), !.selected = Len(t.panes) + 1]

\* addPaneSide.
WithPane(t, p, vertical, before) ==
    [Appended(t, p) EXCEPT !.layout = IF Leaves(@) = {} THEN Leaf(p) ELSE Inserted(@, SplitTarget(t, floating), p, vertical, before)]

NewSpaceOf(id, p) == [id |-> id, tabs |-> <<WithPane(EmptyTab, p, TRUE, FALSE)>>, active |-> 1]

\* A workspace is opened by a picker, a socket request or a plugin.
NewSpace ==
    /\ \E id \in FreeSpaces, p \in FreePanes : spaces' = Append(spaces, NewSpaceOf(id, p))
    /\ selected' = Len(spaces) + 1 /\ UNCHANGED <<floating, menu, drag>> /\ Persist

\* addTab.
WithTab(s, p) ==
    [s EXCEPT !.tabs = Append(@, WithPane(EmptyTab, p, TRUE, FALSE)), !.active = Len(s.tabs) + 1]

NewTab(i) ==
    /\ Len(spaces[i].tabs) < MaxTabs
    /\ \E p \in FreePanes : spaces' = [spaces EXCEPT ![i] = WithTab(@, p)]
    /\ selected' = i /\ UNCHANGED <<floating, drag>> /\ Persist

\* A pane next to the focused one; only keys put it before.
SplitPane(i, vertical, before) ==
    /\ \E p \in FreePanes :
          spaces' = [spaces EXCEPT ![i].tabs[spaces[i].active] = WithPane(@, p, vertical, before)]
    /\ selected' = i /\ UNCHANGED <<floating, drag>> /\ Persist

\* addFloatingPane.
Float(i) ==
    /\ \E p \in FreePanes :
          /\ spaces' = [spaces EXCEPT ![i].tabs[spaces[i].active] = Appended(@, p)]
          /\ floating' = floating \cup {p}
    /\ selected' = i /\ UNCHANGED <<menu, drag>> /\ Persist

-----------------------------------------------------------------------------
(* Focus.                                                                  *)

TabOf(s, p) == CHOOSE j \in DOMAIN s.tabs : p \in ToSet(s.tabs[j].panes)

\* focusPane: a floating pane comes to the front, which is the end.
Focused(s, p) ==
    IF p \notin Live(<<s>>) THEN s
    ELSE LET j == TabOf(s, p)
             t == s.tabs[j]
             raised == Append(RemoveAt(t.panes, Place(t.panes, p)), p)
         IN  [s EXCEPT !.active = j,
                       !.tabs[j] = IF p \in floating THEN [t EXCEPT !.panes = raised, !.selected = Len(raised)]
                                   ELSE [t EXCEPT !.selected = Place(t.panes, p)]]

\* A pane is clicked in the terminal, which does not save that,
ClickPane(p) ==
    /\ ~Modal /\ p \in ToSet(ActiveTab(Current).panes) /\ spaces' = [spaces EXCEPT ![selected] = Focused(@, p)]
    /\ UNCHANGED <<selected, floating, menu, drag>> /\ Unsaved

\* or in the sidebar, which does.
PickPane(i, p) ==
    /\ ~Modal /\ p \in Live(<<spaces[i]>>) /\ selected' = i
    /\ spaces' = [spaces EXCEPT ![i] = Focused(@, p)]
    /\ UNCHANGED <<floating, menu, drag>> /\ Persist

\* cyclePane: the panes of the layout in order, then the floating ones.
CyclePane(delta) ==
    LET t == ActiveTab(Current)
        ordered == Walk(t.layout) \o SelectSeq(t.panes, LAMBDA p : p \in floating)
        at == Place(ordered, t.panes[t.selected])
    IN  /\ ~Modal /\ Len(t.panes) >= 2 /\ at > 0
        /\ spaces' = [spaces EXCEPT ![selected] = Focused(@, ordered[1 + ((at - 1 + delta + Len(ordered)) % Len(ordered))])]
        /\ UNCHANGED <<selected, floating, menu, drag>> /\ Unsaved

SelectSpace(i) ==
    /\ ~Modal /\ selected' = i
    /\ UNCHANGED <<spaces, floating, menu, drag>> /\ Unsaved

SelectTab(i, j) ==
    /\ ~Modal /\ selected' = i /\ spaces' = [spaces EXCEPT ![i].active = j]
    /\ UNCHANGED <<floating, menu, drag>> /\ Persist

-----------------------------------------------------------------------------
(* Layout.                                                                 *)

EqualizeCurrent ==
    /\ ~Modal /\ spaces' = [spaces EXCEPT ![selected].tabs[Current.active].layout = Equalized(@)]
    /\ UNCHANGED <<selected, floating, menu, drag>> /\ Persist

\* A divider of the current tab is pressed, moved, and released, which saves.
PressDivider ==
    /\ ~Modal /\ Cardinality(Live(spaces)) <= DragPanes
    /\ \E r \in Ratios : Dragged(ActiveTab(Current).layout, r) # {}
    /\ divider' = TRUE /\ UNCHANGED <<spaces, selected, floating, menu, dragSpace, dragMoved>> /\ Unsaved

\* By then its split may be in a tab that is no longer the current one, or
\* gone; here it is any that there is.
DragDivider(r) ==
    /\ ~Modal /\ divider /\ dragSpace = None
    /\ \E i \in DOMAIN spaces : \E j \in DOMAIN spaces[i].tabs : \E n \in Dragged(spaces[i].tabs[j].layout, r) :
          spaces' = [spaces EXCEPT ![i].tabs[j].layout = n]
    /\ UNCHANGED <<selected, floating, menu, drag>> /\ Moving

DropDivider ==
    /\ ~Modal /\ divider /\ dragSpace = None /\ divider' = FALSE
    /\ UNCHANGED <<spaces, selected, floating, menu, dragSpace, dragMoved>> /\ Persist

\* A workspace is pressed in the sidebar, dragged over others, and released,
\* which saves; a release that a menu took leaves the drag under way, and the
\* next press then forgets that it moved something.
Press(i) ==
    /\ ~Modal /\ Cardinality(Live(spaces)) <= DragPanes
    /\ dragSpace' = spaces[i].id /\ dragMoved' = FALSE /\ selected' = i
    /\ UNCHANGED <<spaces, floating, menu, divider>> /\ Unsaved

\* moveSpaceTo.
MoveSpaceTo(i) ==
    /\ ~Modal
    /\ \E from \in DOMAIN spaces \ {i} :
          /\ spaces[from].id = dragSpace
          /\ spaces' = InsertAt(RemoveAt(spaces, from), i, spaces[from])
    /\ selected' = i /\ dragMoved' = TRUE /\ UNCHANGED <<floating, menu, dragSpace, divider>> /\ Moving

Release ==
    /\ ~Modal /\ dragSpace # None /\ dragSpace' = None /\ dragMoved' = FALSE
    /\ UNCHANGED <<spaces, selected, floating, menu, divider>>
    /\ IF dragMoved THEN Persist ELSE Unsaved

-----------------------------------------------------------------------------
(* Closing.                                                                *)

\* closeTab.
WithoutTab(s, j) == [s EXCEPT !.tabs = RemoveAt(s.tabs, j), !.active = Clamp(@, 1, Len(s.tabs) - 1)]

\* Mutant of Shortened: the selection is not brought back into the list.
ShortenedUnclamped(t, p) ==
    [t EXCEPT !.panes = RemoveAt(@, Place(@, p)), !.layout = Removed(@, p)]

\* A tab without one of its panes.
Shortened(t, p) ==
    [t EXCEPT !.panes = RemoveAt(@, Place(@, p)), !.layout = Removed(@, p),
              !.selected = Clamp(@, 1, Len(t.panes) - 1)]

\* removePane: the last pane takes its tab with it, unless that is the only one.
WithoutPane(s, p) ==
    LET j == TabOf(s, p)
        t == Shortened(s.tabs[j], p)
    IN  IF t.panes = <<>> /\ Len(s.tabs) > 1 THEN WithoutTab(s, j) ELSE [s EXCEPT !.tabs[j] = t]

\* The program of a pane ends, or its float is closed, or its plugin is.
RemovePane(p) ==
    /\ p \in Live(spaces) /\ spaces' = [spaces EXCEPT ![OwnerOf(p)] = WithoutPane(@, p)]
    /\ floating' = floating \ {p} /\ UNCHANGED <<selected, menu, drag>> /\ Persist

FocusedPane(s) == LET t == ActiveTab(s) IN IF t.panes = <<>> THEN None ELSE t.panes[t.selected]

\* closeCurrentPane, of a workspace that was selected or focused just before.
CloseFocused(i, s) ==
    /\ selected' = i
    /\ IF FocusedPane(s) = None THEN spaces' = [spaces EXCEPT ![i] = s] /\ UNCHANGED floating /\ Unsaved
       ELSE /\ spaces' = [spaces EXCEPT ![i] = WithoutPane(s, FocusedPane(s))]
            /\ floating' = floating \ {FocusedPane(s)} /\ Persist
    /\ UNCHANGED drag

\* The key, or pane.close of the socket.
ClosePane(p) ==
    /\ p \in Live(spaces) /\ CloseFocused(OwnerOf(p), Focused(spaces[OwnerOf(p)], p)) /\ UNCHANGED menu

\* closeCurrentSpace, of the workspace that was selected just before.
CloseSpace(i) ==
    /\ spaces' = RemoveAt(spaces, i) /\ floating' = floating \ Live(<<spaces[i]>>)
    /\ selected' = Clamp(i, 1, Len(spaces) - 1) /\ UNCHANGED drag /\ Persist

\* closeTab of a tab of the current workspace.
CloseTab(j) ==
    /\ spaces' = [spaces EXCEPT ![selected] = WithoutTab(@, j)]
    /\ floating' = floating \ ToSet(Current.tabs[j].panes)
    /\ UNCHANGED <<selected, drag>> /\ Persist

-----------------------------------------------------------------------------
(* Menus.                                                                  *)

\* A right click focuses what it opens the menu of, and saves that if it was
\* on a row of a tab or a pane in the sidebar.  A menu of a tab is told by the
\* workspace the tab is in, which a tab never leaves.
OpenMenu(i) ==
    /\ ~Modal /\ selected' = i /\ UNCHANGED <<floating, drag>>
    /\ \/ /\ menu' = [kind |-> "space", target |-> spaces[i].id]
          /\ UNCHANGED spaces /\ Unsaved
       \/ /\ menu' = [kind |-> "tabs", target |-> spaces[i].id] /\ i = selected
          /\ \E j \in DOMAIN spaces[i].tabs : spaces' = [spaces EXCEPT ![i].active = j]
          /\ Unsaved
       \/ \E p \in Live(<<spaces[i]>>) :
             /\ menu' \in {[kind |-> "pane", target |-> p], [kind |-> "tabs", target |-> spaces[i].id]}
             /\ spaces' = [spaces EXCEPT ![i] = Focused(@, p)]
             /\ Persist \/ (p \in ToSet(ActiveTab(Current).panes) /\ menu'.kind = "pane" /\ Unsaved)

\* A picker for a new pane of the current tab, or for a new tab; for a drag it
\* also stands for every other window that takes the mouse.
OpenPicker ==
    /\ ~Modal
    /\ menu' \in {[kind |-> "split", target |-> None], [kind |-> "tab", target |-> Current.id]}
    /\ UNCHANGED <<spaces, selected, floating, drag>> /\ Unsaved

CloseMenu ==
    /\ Modal /\ menu' = NoMenu /\ UNCHANGED <<spaces, selected, floating, drag>> /\ Unsaved

\* Mutant of Targeted: a target that is gone is not noticed.
TargetedAny == TRUE

\* runMenuAction and runKindPick look for the target again.
Targeted == menu.target \in {None} \cup Ids(spaces) \cup Live(spaces)

\* The workspace with an id is selected, if it is still there.
Selected(id) == IF id \in Ids(spaces) THEN CHOOSE i \in DOMAIN spaces : spaces[i].id = id ELSE selected

\* runKindPick.
KindPicked ==
    \/ menu.kind = "split" /\ \E v, b \in BOOLEAN : SplitPane(selected, v, b)
    \/ menu.kind = "tab" /\ NewTab(Selected(menu.target))

\* An item of the menu of a tab, wherever the workspace now selected comes
\* from: its last tab stays, and a tab of another is not found in it, so that
\* only the programs of its panes are ended.
TabClosed ==
    /\ Len(Current.tabs) > 1
    /\ IF Current.id = menu.target THEN \E j \in DOMAIN Current.tabs : CloseTab(j)
       ELSE UNCHANGED <<spaces, selected, floating, drag>> /\ Persist

\* Enter, or a click on an item; one that opens a picker is CloseMenu, and
\* then OpenPicker.
MenuRuns ==
    /\ Modal /\ Targeted /\ spaces # <<>> /\ menu' = NoMenu
    /\ \/ menu.kind = "space" /\ CloseSpace(Selected(menu.target))
       \/ menu.kind = "tabs" /\ TabClosed
       \/ menu.kind = "pane" /\ CloseFocused(selected, Focused(Current, menu.target))
       \/ KindPicked

-----------------------------------------------------------------------------
\* hrdx quits, which saves, or crashes; it is launched with the directory of
\* a workspace that is open, or of a new one.
Relaunch ==
    /\ \E f \in {file, SnapshotSpaces(spaces, floating)}, n \in 1 .. Cardinality(Panes) :
          LET sp == Restored(f, n) IN
          /\ selected' = Clamp(n, 1, Len(sp)) /\ file' = f
          /\ \/ sp # <<>> /\ spaces' = sp /\ fresh' = {}
             \/ \E id \in Spaces \ Ids(sp), p \in Panes \ Live(sp) : spaces' = Append(sp, NewSpaceOf(id, p)) /\ fresh' = {id}
    /\ floating' = {} /\ menu' = NoMenu /\ dragSpace' = None /\ dragMoved' = FALSE /\ divider' = FALSE /\ moved' = FALSE

SpacesInit ==
    /\ \E id \in Spaces, p \in Panes : spaces = <<NewSpaceOf(id, p)>> /\ fresh = {id}
    /\ selected = 1 /\ floating = {} /\ menu = NoMenu /\ dragSpace = None /\ dragMoved = FALSE /\ divider = FALSE /\ moved = FALSE
    /\ file = <<>>

SpacesNext ==
    \/ NewSpace \/ CloseMenu \/ MenuRuns \/ Release \/ DropDivider \/ Relaunch
    \/ \E r \in Ratios : DragDivider(r)
    \/ \E p \in Panes : RemovePane(p) \/ ClosePane(p)
    \/ \E i \in DOMAIN spaces :
          \/ NewTab(i) /\ UNCHANGED menu
          \/ \E v \in BOOLEAN : SplitPane(i, v, FALSE) /\ UNCHANGED menu
          \/ Float(i) \/ SelectSpace(i) \/ Press(i) \/ MoveSpaceTo(i) \/ OpenMenu(i)
          \/ CloseSpace(i) /\ UNCHANGED menu
          \/ \E p \in Panes : PickPane(i, p)
          \/ \E j \in DOMAIN spaces[i].tabs : SelectTab(i, j)
    \/ spaces # <<>> /\ (OpenPicker \/ EqualizeCurrent \/ PressDivider)
    \/ spaces # <<>> /\ ((\E d \in {1, -1} : CyclePane(d)) \/ \E p \in Panes : ClickPane(p))

SpacesSpec == SpacesInit /\ [][SpacesNext]_spacesVars

-----------------------------------------------------------------------------
(* Properties.                                                             *)

\* Whatever is split, dragged, moved and closed: every tab shows each of its
\* panes that do not float in exactly one leaf of its tree, and selections are
\* places of the lists they select from, so that no handler that follows finds
\* nothing where it looks (split.go:68, model.go:627).
LayoutsComplete ==
    /\ spaces = <<>> \/ selected \in DOMAIN spaces
    /\ \A i \in DOMAIN spaces :
          /\ spaces[i].active \in DOMAIN spaces[i].tabs
          /\ \A j \in DOMAIN spaces[i].tabs :
                LET t == spaces[i].tabs[j] IN
                /\ LayoutComplete(t.layout, Kept(t, floating))
                /\ t.panes = <<>> \/ t.selected \in DOMAIN t.panes

Area == Rect(0, 0, Width, Height)
Covers(r, x, y) == x \in r.x .. r.x + r.w - 1 /\ y \in r.y .. r.y + r.h - 1

\* There is room for the least size of a pane, and of both children of every split.
Roomy(n, rect) ==
    /\ Width >= MinPaneCols /\ Height >= MinPaneRows
    /\ \A k \in DOMAIN n \ Leaves(n) :
          IF n[k].vertical THEN rect[k].w >= 2 * MinPaneCols ELSE rect[k].h >= 2 * MinPaneRows

\* A layout is one tree, whose every split has two children; and if there is
\* room for the least size of its panes, none gets less, none reaches beyond the
\* terminal area, and each of some cells belongs to exactly one.
Tiles(n, rect, xs, ys) ==
    /\ IsTree(n)
    /\ n # Nil /\ Roomy(n, rect) =>
         /\ \A i \in Leaves(n) :
               /\ rect[i].w >= MinPaneCols /\ rect[i].h >= MinPaneRows
               /\ rect[i].x >= 0 /\ rect[i].y >= 0
               /\ rect[i].x + rect[i].w <= Width /\ rect[i].y + rect[i].h <= Height
         /\ \A x \in xs, y \in ys : \E i \in Leaves(n) : \A k \in Leaves(n) : Covers(rect[k], x, y) <=> k = i

\* Columns and rows where a pane begins, or ends before: what shows a cell
\* changes nowhere else.
Cols(n, rect) == (0 .. Width - 1) \cap ({0} \cup UNION {{rect[i].x, rect[i].x + rect[i].w} : i \in Leaves(n)})
Rows(n, rect) == (0 .. Height - 1) \cap ({0} \cup UNION {{rect[i].y, rect[i].y + rect[i].h} : i \in Leaves(n)})

Trees(sp) == UNION {{t.layout : t \in ToSet(s.tabs)} : s \in ToSet(sp)}

\* The panes of a layout tile the terminal area (split.go:134).
PanesTile == \A n \in Trees(spaces) : LET rect == LayoutNode(n, Area) IN Tiles(n, rect, Cols(n, rect), Rows(n, rect))
CellsTile == \A n \in Trees(spaces) : Tiles(n, LayoutNode(n, Area), 0 .. Width - 1, 0 .. Height - 1)

\* What is shown of workspaces that are not among some: the trees of their
\* tabs, but for those that show no pane.
Layouts(s) == [j \in DOMAIN s.tabs |-> s.tabs[j].layout]
Look(s) == [id |-> s.id, trees |-> Without(Layouts(s), {n \in ToSet(Layouts(s)) : PanesIn(n) = {}})]
Looks(sp) == [i \in DOMAIN sp |-> Look(sp[i])]
Shape(sp, but) == Without(Looks(sp), {l \in ToSet(Looks(sp)) : l.trees = <<>> \/ l.id \in but})

\* The workspaces of a shape and the panes each tree of theirs shows, whatever
\* the order of the workspaces and the splits.
Rough(shape) == {[id |-> l.id, trees |-> {PanesIn(n) : n \in ToSet(l.trees)}] : l \in ToSet(shape)}

\* Whatever was opened, split, dragged, moved and closed: a launch from the
\* state file shows the same trees of the same panes in the same order, but
\* for workspaces just named on the command line; between a motion that drags
\* a divider or a workspace and the next save it may lose the ratio or the
\* order, and nothing else (persist.go:89).
RestoresAsShown ==
    LET launched == Shape(Restored(file, 1), {})
        shown == Shape(spaces, fresh)
    IN  IF moved THEN Rough(launched) = Rough(shown) ELSE launched = shown

Gone == Live(spaces) \ Live(spaces')
TargetPanes == UNION {Live(<<s>>) : s \in {x \in ToSet(spaces) : x.id = menu.target}} \cup {menu.target}

\* An action of the menu of a workspace or a tab never closes what is not in
\* the workspace it was opened for, although requests of the socket and plugins
\* went on (model.go:1910).
MenusCloseTheirSpace == [][MenuRuns /\ menu.kind \in {"space", "tabs"} => Gone \subseteq TargetPanes]_spacesVars
=============================================================================
