SPECIFICATION SpacesSpec
CONSTANTS
    Panes = {p1, p2, p3}
    Spaces = {s1, s2}
    None = None
    MaxTabs = 2
    DragPanes = 2
    Ratios = {2}
    Width = 48
    Height = 17
SYMMETRY Symmetry
INVARIANTS LayoutsComplete PanesTile RestoresAsShown
PROPERTY MenusCloseTheirSpace
CHECK_DEADLOCK FALSE
