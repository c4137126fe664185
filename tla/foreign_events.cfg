\* Share commands overlap, and other organisations share the same object.
SPECIFICATION Spec
CONSTANTS
    d1 = d1  d2 = d2  w1 = w1  ci = ci  s1 = s1  s2 = s2
    Documents = {d1}
    Workspaces = {w1}
    Runner = ci
    Runs = {s1, s2}
    MaxCommands = 3
    Workers = 1
    MaxVersions = 1
    MaxEvents = 2
    Removals = 1
    Reverts = FALSE
    Overlapping = TRUE
PROPERTIES
    ForeignEventsKept
SYMMETRY
    Symmetry
