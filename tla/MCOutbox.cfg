SPECIFICATION FairSpec
CONSTANTS
    Workers = {w1, w2}
    NoWorker = NoWorker
    Events = {1, 2, 3}
    EmailEvents = {1, 2}
    BatchLimit = 2
    MaxAttempts = 3
    MaxCrashes = 1
INVARIANTS
    ExclusiveClaim
    DoneWasSent
    FailedWasEarned
    DuplicatesExplained
    Inductive
PROPERTIES
    OutcomeIsFinal
    Implements
    EventuallySettled
