\* One application thread, every API function.
CONSTANTS
    c1 = c1
    Callers = {c1}
    Owner = c1
    Workers = {w1, w2}
    NoOne = NoOne
    NoWorker = NoWorker
    MayCall <- MayCallSingle
    TickErrorThreshold = 3
    MaxReconnects = 2
SPECIFICATION FairSpec
INVARIANTS
    IInv
    JoinsAreDefined
    SdkCallsInOrder
    StoppedMeansGone
    RetryingShowsReason
    RunningMeansConnected
    NoStatusAfterStop
PROPERTIES
    DeinitReleasesAll
    StopReturns
    LostSessionRetried
    ImplementsLifecycle
