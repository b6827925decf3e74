CONSTANTS
    u1 = u1
    h1 = h1
    h2 = h2
    old = old
    new = old  \* one password: no property of this run compares two
    Handlers = {h1, h2}
    NoHandler = NoHandler
    Users = {u1}
    NoUser = NoUser
    Sessions = {1, 2, 3}
    Links = {1, 2}
    Passwords = {old}
    Requests <- RaceRequests
    LockAfter = 1
    RowsLoad = TRUE
    IdsPassed = TRUE
SPECIFICATION FairSpec
INVARIANTS Inductive SweptStayDead RotationIsAtomic
PROPERTIES SpentForGood Answered
