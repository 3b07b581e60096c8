\* Three positions from the module or the application in every order.
CONSTANTS
    Interval = 2
    MaxSentences = 3
SPECIFICATION Spec
INVARIANTS
    UsableIsFix
    ReportedHasFix
    CacheNotBehind
PROPERTIES
    SendUndisturbed
    HandedInIsSent
    InputReturns
