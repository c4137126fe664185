\* The write that fails is a progress notification.
SPECIFICATION FairSpec
CONSTANTS
    i1 = i1  i2 = i2
    MaxRuns = 1
    Ids = {i1}
    Commands <- OneCommand
    Closers = {}
    ClientMayGo = TRUE
PROPERTIES
    EndsOnceOutputFails
