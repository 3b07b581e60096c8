\* The bundled program, with a broadcast switched at run time.
CONSTANTS
    main = main
    worker = worker
    sixents = sixents
    Main = main
    Worker = worker
    Sixents = sixents
    App = app
    Threads = {main, worker, sixents}
    MayUse <- MayUseService
    Fds = {3, 4, 5}
    NoFd = NoFd
    ErrorThreshold = 1
    MaxReconnects = 1
    HeartbeatInterval = 1
    NoDataTimeout = 1
    Addrs = {a1}
    Malformed = malformed
    NoAddr = NoAddr
    Socks = {6, 7}
    NoSocket = NoSocket
    Switching = TRUE
SPECIFICATION ServiceSpec
INVARIANTS
    EverythingReleased
    NobodyLeftAtDeinit
PROPERTIES
    ImplementsSwitch
    SignalEndsProgram
