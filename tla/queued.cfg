\* One production job at a time, oldest first: GitLab's resource group set to
\* oldest_first, Azure's exclusive lock.
SPECIFICATION FairSpec
CONSTANTS
    r1 = r1  r2 = r2  t1 = t1  t2 = t2  mr = mr
    Rules = {r1}
    Tenants = {t1, t2}
    MaxIds = 4
    MaxPushes = 2
    Staging = {}
    LegacyRules = {}
    PushAttempts = 3
    MaxRuns = 1
    HandEdits = 0
    LostAcks = 1
    Queued = TRUE
    OldestFirst = TRUE
    CancelInWriteback = TRUE
    Statuses = {"UNIVERSAL", "DISABLEMENT", "DELETION"}
INVARIANTS
    TypeOK
    NoDuplicate
    
    TenantsMatchNewestMerge
PROPERTIES
    EveryJobEnds
    
