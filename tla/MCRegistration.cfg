CONSTANTS
    h1 = h1
    h2 = h2
    n1 = n1
    n2 = n2
    e1 = e1
    e2 = e2
    Handlers = {h1, h2}
    Users = {1, 2}
    NoUser = NoUser
    Names = {n1, n2}
    Emails = {e1, e2}
    NoKey = NoKey
    NotGiven = NotGiven
    Requests <- AllRequests
    RowsLoad = TRUE
    IdsPassed = TRUE
SPECIFICATION FairSpec
INVARIANTS Inductive NamesAreUnique VerifiedWasReached DeadlocksNeedUpdates
PROPERTIES Implements Answered
