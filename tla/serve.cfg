\* Two runs, cancels by id, a client that goes and a close, in any order. A signal's close
\* runs beside the reading thread: it takes every step exit's does.
SPECIFICATION FairSpec
CONSTANTS
    i1 = i1  i2 = i2
    MaxRuns = 2
    Ids = {i1, i2}
    Commands <- TwoCommands
    Closers = {"signal"}
    ClientMayGo = TRUE
INVARIANTS
    AnswersAreTrue
    StoppedOnlyIfNamed
    QueuedNeverRuns
    ServerStateRestored
PROPERTIES
    EveryRunAnswered
    EndsOnceClosed
