\* Deploys of a rule in a policy and of a tuning, with faults and edits in the console.
SPECIFICATION Spec
CONSTANTS
    r1 = r1  r2 = r2  p1 = p1  p2 = p2  t1 = t1  t2 = t2
    Rules = {r1, r2}
    Tunings = {r2}
    Tenants = {t1}
    Policies = {p1, p2}
    MaxIds = 2
    MaxMerges = 1
    MaxRuns = 3
    MaxFaults = 2
    MaxConsole = 1
INVARIANTS
    LiveIsBound
    EveryRuleReported
PROPERTIES
    DeployedIsEnforced
    OthersNamesKept
SYMMETRY
    Symmetry
CHECK_DEADLOCK FALSE
