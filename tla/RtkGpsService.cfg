\* The bundled program: nobody else touches the port.
CONSTANTS
    main = main
    worker = worker
    sixents = sixents
    app = app
    Main = main
    Worker = worker
    Sixents = sixents
    App = app
    Threads = {main, worker, sixents}
    MayUse <- MayUseService
    Fds = {3, 4, 5}
    NoFd = NoFd
    ErrorThreshold = 2
    MaxReconnects = 2
    HeartbeatInterval = 1
    NoDataTimeout = 2
SPECIFICATION FairGpsSpec
INVARIANTS
    GpsTypeOK
    NoLeak
    StoppedMeansClosed
PROPERTIES
    HeartbeatsSpaced
    ClosedUntilOpened
    PortRecovers
