\* Two objects, two workers, commands after one another, on a workspace or a runner.
SPECIFICATION Spec
CONSTANTS
    d1 = d1  d2 = d2  w1 = w1  ci = ci  s1 = s1  s2 = s2
    Documents = {d1, d2}
    Workspaces = {w1}
    Runner = ci
    Runs = {s1}
    MaxCommands = 3
    Workers = 2
    MaxVersions = 2
    MaxEvents = 2
    Removals = 1
    Reverts = FALSE
    Overlapping = FALSE
INVARIANTS
    OneEventPerObject
    LedgerHoldsRecords
PROPERTIES
    RecordsAreTrue
SYMMETRY
    Symmetry
