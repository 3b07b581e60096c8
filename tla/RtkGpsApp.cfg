\* An application closes and opens the port meanwhile.
CONSTANTS
    main = main
    worker = worker
    sixents = sixents
    app = app
    Main = main
    Worker = worker
    Sixents = sixents
    App = app
    Threads = {main, worker, sixents, app}
    MayUse <- MayUseService
    Fds = {3, 4, 5, 6}
    NoFd = NoFd
    ErrorThreshold = 1
    MaxReconnects = 2
    HeartbeatInterval = 1
    NoDataTimeout = 1
SPECIFICATION FairGpsSpec
INVARIANTS
    DescriptorSafety
PROPERTIES
    StopReturns
