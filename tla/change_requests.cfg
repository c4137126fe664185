\* A change request's job beside a production job; one rule is not migrated.
SPECIFICATION Spec
CONSTANTS
    r1 = r1  r2 = r2  t1 = t1  t2 = t2  mr = mr
    Rules = {r1, r2}
    Tenants = {t1}
    MaxIds = 3
    MaxPushes = 1
    Staging = {mr}
    LegacyRules = {r2}
    PushAttempts = 2
    MaxRuns = 2
    HandEdits = 0
    LostAcks = 0
    Queued = TRUE
    OldestFirst = TRUE
    CancelInWriteback = FALSE
    Statuses = {"PREVIEW", "UNIVERSAL", "DELETION"}
INVARIANTS
    NoDuplicate
    ChangeRequestKeepsState
