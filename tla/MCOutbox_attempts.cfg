SPECIFICATION Spec
CONSTANTS
    Workers = {w1}
    NoWorker = NoWorker
    Events = {1}
    EmailEvents = {1}
    BatchLimit = 2
    MaxAttempts = 5
    MaxCrashes = 1
INVARIANTS
    AtMostMaxAttempts
