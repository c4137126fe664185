\* Three runs on two workspaces, with edits, invalidates and cancels at any point.
SPECIFICATION Spec
CONSTANTS
    w1 = w1  w2 = w2
    Workspaces = {w1, w2}
    MaxRuns = 3
    MaxEdits = 2
    MaxInvalidates = 1
    MaxBuilds = 2
INVARIANTS
    FreshRegistry
    ObjectsMatchIndex
SYMMETRY
    Symmetry
CHECK_DEADLOCK FALSE
