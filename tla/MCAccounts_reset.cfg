CONSTANTS
    u1 = u1
    h1 = h1
    h2 = h2
    old = old
    new = new
    Handlers = {h1, h2}
    NoHandler = NoHandler
    Users = {u1}
    NoUser = NoUser
    Sessions = {1, 2}
    Links = {1}
    Passwords = {old, new}
    Requests <- ResetRequests
    LockAfter = 6
    RowsLoad = TRUE
    IdsPassed = TRUE
SPECIFICATION Spec
INVARIANTS ResetLogsOutAllDevices
