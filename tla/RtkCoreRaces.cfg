\* Two threads that make any lifecycle call at any time, one worker.
CONSTANTS
    c1 = c1
    c2 = c2
    Callers = {c1, c2}
    w1 = w1
    w2 = w2
    Workers = {w1}
    NoOne = NoOne
    NoWorker = NoWorker
    MayCall <- MayCallAnything
    TickErrorThreshold = 1
    MaxReconnects = 1
SPECIFICATION FairSpec
PROPERTIES
    StopIsNoticed
