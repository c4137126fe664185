\* Two requests that may change the same objects, their jobs and merges.
SPECIFICATION Spec
CONSTANTS
    o1 = o1  o2 = o2  p1 = p1  p2 = p2
    Objects = {o1, o2}
    Requests = {p1, p2}
    MaxJobs = 3
    MaxVersion = 2
    PushAttempts = 3
    LostAcks = 1
INVARIANTS
    GreenIsPublished
    GreenIsPruned
PROPERTIES
    OnlyMergesChangeObjects
    OthersShardsKept
    GoneStaysGone
SYMMETRY
    Symmetry
