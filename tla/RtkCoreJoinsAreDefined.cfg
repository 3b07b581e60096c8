\* One thread initialises, starts and deinitialises while another one stops.
CONSTANTS
    c1 = c1
    c2 = c2
    Callers = {c1, c2}
    w1 = w1
    w2 = w2
    Workers = {w1, w2}
    NoOne = NoOne
    NoWorker = NoWorker
    MayCall <- MayCallStopper
    TickErrorThreshold = 1
    MaxReconnects = 1
SPECIFICATION Spec
INVARIANTS
    JoinsAreDefined
SYMMETRY WorkerSymmetry
