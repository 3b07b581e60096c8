\* The values of rtk_internal.h.
CONSTANTS
    RTK_RECONNECT_BASE_MS = 3000
    RTK_RECONNECT_FACTOR = 160
    RTK_RECONNECT_MAX_MS = 10800000
    AttemptLimit = 25
SPECIFICATION Spec
INVARIANTS
    WaitsAsCommented
