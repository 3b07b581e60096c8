\* All threads, callbacks that call the API, a log callback that does not.
CONSTANTS
    app = app
    gps = gps
    sixents = sixents
    App = app
    Gps = gps
    Sixents = sixents
    Reentry <- ReentryApi
SPECIFICATION Spec
INVARIANTS
    LocksInOrder
    NoDeadlock
    CallbacksHoldNothing
