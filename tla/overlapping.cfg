\* Jobs run beside each other (GitHub, Azure without a lock) while an operator edits.
SPECIFICATION Spec
CONSTANTS
    r1 = r1  r2 = r2  t1 = t1  t2 = t2  mr = mr
    Rules = {r1}
    Tenants = {t1, t2}
    MaxIds = 4
    MaxPushes = 2
    Staging = {}
    LegacyRules = {}
    PushAttempts = 3
    MaxRuns = 1
    HandEdits = 1
    LostAcks = 0
    Queued = FALSE
    OldestFirst = FALSE
    CancelInWriteback = FALSE
    Statuses = {"UNIVERSAL", "DELETION"}
INVARIANTS
    NothingDroppedSilently
PROPERTIES
    OthersBindingsKept
    LandsWhole
    ImplementsRunDeltas
