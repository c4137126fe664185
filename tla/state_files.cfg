\* Migrations, deploys and an import, killed or without power at any step.
SPECIFICATION Spec
CONSTANTS
    f1 = f1  f2 = f2  u1 = u1  t1 = t1  t2 = t2
    Files = {f1, f2}
    Uuids = {u1}
    UuidOf <- OneUuid
    Tenants = {t1}
    MaxIds = 2
    MaxCommands = 3
    MaxFaults = 2
INVARIANTS
    IdsSurvive
    WholeFiles
PROPERTIES
    CompletedIsDone
    FailsForCause
SYMMETRY
    Symmetry
CHECK_DEADLOCK FALSE
