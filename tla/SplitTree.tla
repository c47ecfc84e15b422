------------------------------- MODULE SplitTree -------------------------------
(***************************************************************************)
(* The layout tree of internal/ui/split.go, its saved form and its         *)
(* geometry.  A tree is the list of its nodes from first to last: a split  *)
(* stands before its first child, which stands before the second.  A leaf  *)
(* has a pane; a split has None.  Ratios are tenths.  The saved form names *)
(* a pane by its place in the list of its tab.                             *)
(***************************************************************************)
EXTENDS Integers, SequencesExt

CONSTANT None  \* no pane

Nil == <<>>
LeafNode(p) == [pane |-> p, vertical |-> FALSE, ratio |-> 0]
SplitNode(vertical, ratio) == [pane |-> None, vertical |-> vertical, ratio |-> ratio]
Leaf(p) == <<LeafNode(p)>>
IsLeaf(node) == node.pane # None

\* The place of a pane in a list, 0 if it is not there.
Place(list, p) == SelectInSeq(list, LAMBDA q : q = p)

\* The node that shows a pane, 0 if none does.
NodeOf(n, p) == SelectInSeq(n, LAMBDA node : node.pane = p)

Leaves(n) == {k \in DOMAIN n : IsLeaf(n[k])}
PanesIn(n) == {n[k].pane : k \in Leaves(n)}

\* walk: the panes from first to last.
Walk(n) == LET leaves == SelectSeq(n, IsLeaf) IN [i \in DOMAIN leaves |-> leaves[i].pane]

\* insertAtSide: the leaf of target becomes a split of it and add.
Inserted(n, target, add, vertical, before) ==
    LET k == NodeOf(n, target)
        both == IF before THEN Leaf(add) \o Leaf(target) ELSE Leaf(target) \o Leaf(add)
    IN  IF k = 0 THEN n
        ELSE SubSeq(n, 1, k - 1) \o <<SplitNode(vertical, 5)>> \o both \o SubSeq(n, k + 1, Len(n))

\* Leaves less splits, among the first nodes of a list.
Balance(n, e) == 2 * Cardinality({i \in 1 .. e : IsLeaf(n[i])}) - e

\* The tree that begins with node k ends at the first node up to which it has
\* more leaves than splits; and a list of nodes may be such a tree.
End(n, k) == Min({e \in k .. Len(n) : Balance(n, e) > Balance(n, k - 1)})
IsTree(n) == n # Nil => Balance(n, Len(n)) = 1 /\ \A e \in 1 .. Len(n) - 1 : Balance(n, e) <= 0

\* parentSplit: the split whose child node k is, but for the root.
Parents(n, k) == {j \in 1 .. k - 1 : ~IsLeaf(n[j]) /\ (k = j + 1 \/ k = End(n, j + 1) + 1)}

\* removeAt: the leaf goes, its sibling takes the place of the split.
Removed(n, target) ==
    LET k == NodeOf(n, target)
        gone == Parents(n, k) \cup {k}
    IN  FlattenSeq([i \in DOMAIN n |-> IF i \in gone THEN <<>> ELSE <<n[i]>>])

\* equalizeCurrent: every divider in the middle.
Equalized(n) == [k \in DOMAIN n |-> IF IsLeaf(n[k]) THEN n[k] ELSE [n[k] EXCEPT !.ratio = 5]]

\* The trees applyDrag makes of a tree by moving one divider to a ratio.
Dragged(n, ratio) == {[n EXCEPT ![k].ratio = ratio] : k \in DOMAIN n \ Leaves(n)}

-----------------------------------------------------------------------------
(* The saved form.                                                         *)

\* snapshotNode, with the list of the panes that are saved; 0 stands for a
\* pane that is not.
SnapshotNode(n, list) ==
    [k \in DOMAIN n |-> IF IsLeaf(n[k]) THEN LeafNode(Place(list, n[k].pane)) ELSE n[k]]

\* restoreNode: one leaf without a pane is enough to have no tree.
RestoreNode(n, list) ==
    IF PanesIn(n) \subseteq DOMAIN list
    THEN [k \in DOMAIN n |-> IF IsLeaf(n[k]) THEN LeafNode(list[n[k].pane])
                             ELSE [n[k] EXCEPT !.ratio = IF @ \in 1 .. 9 THEN @ ELSE 5]]
    ELSE Nil

\* layoutComplete: every pane of the list appears exactly once in the tree.
LayoutComplete(n, list) ==
    /\ PanesIn(n) = ToSet(list) /\ IsInjective(list)
    /\ \A i, k \in Leaves(n) : n[i].pane = n[k].pane => i = k

\* fallbackLayout: one pane after another is split off the first, so that the
\* second pane of the list comes last.
FallbackLayout(list) ==
    LET n == Len(list) IN
    [k \in 1 .. 2 * n - 1 |-> IF k < n THEN SplitNode(TRUE, 5) ELSE LeafNode(list[IF k = n THEN 1 ELSE 2 * n + 1 - k])]

-----------------------------------------------------------------------------
(* Geometry, in cells.                                                     *)

MinPaneCols == 10
MinPaneRows == 4

Clamp(v, low, high) == IF high < low \/ v < low THEN low ELSE IF v > high THEN high ELSE v

Rect(x, y, w, h) == [x |-> x, y |-> y, w |-> w, h |-> h]

\* Mutant of First: a pane may get less than its least width.
FirstUnclamped(s, r) == IF s.vertical THEN (r.w * s.ratio) \div 10 ELSE (r.h * s.ratio) \div 10

\* The columns, or rows, that the first child of a split gets.
First(s, r) ==
    IF s.vertical THEN Clamp((r.w * s.ratio) \div 10, MinPaneCols, r.w - MinPaneCols)
    ELSE Clamp((r.h * s.ratio) \div 10, MinPaneRows, r.h - MinPaneRows)

\* splitRects.
RectA(s, r) == IF s.vertical THEN [r EXCEPT !.w = First(s, r)] ELSE [r EXCEPT !.h = First(s, r)]
RectB(s, r) == IF s.vertical THEN [r EXCEPT !.x = @ + First(s, r), !.w = @ - First(s, r)]
               ELSE [r EXCEPT !.y = @ + First(s, r), !.h = @ - First(s, r)]

\* layoutNode: what each node gets of the area of its parent.
LayoutNode(n, area) ==
    LET parent == [k \in 2 .. Len(n) |-> CHOOSE j \in Parents(n, k) : TRUE]
        rect[k \in DOMAIN n] ==
            IF k = 1 THEN area
            ELSE LET j == parent[k] IN IF k = j + 1 THEN RectA(n[j], rect[j]) ELSE RectB(n[j], rect[j])
    IN  [k \in DOMAIN n |-> rect[k]]
=============================================================================
