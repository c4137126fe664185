\* A push lands and the client is told otherwise, among overlapping jobs that are fair.
SPECIFICATION FairSpec
CONSTANTS
    r1 = r1  r2 = r2  t1 = t1  t2 = t2  mr = mr
    Rules = {r1}
    Tenants = {t1}
    MaxIds = 4
    MaxPushes = 2
    Staging = {}
    LegacyRules = {}
    PushAttempts = 3
    MaxRuns = 1
    HandEdits = 2
    LostAcks = 1
    Queued = FALSE
    OldestFirst = FALSE
    CancelInWriteback = FALSE
    Statuses = {"UNIVERSAL", "DELETION"}
INVARIANTS
    NothingDroppedSilently
PROPERTIES
    OwnCommitOnly
    EveryIdSurfaces
