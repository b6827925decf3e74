CONSTANTS
    c1 = c1
    c2 = c2
    u1 = u1
    u2 = u2
    usd = usd
    USD = USD
    Clients = {c1, c2}
    Users = {u1, u2}
    Spellings = {usd, USD}
    Upper <- UpperCase
    Ids = {w1, w2}
    NoId = NoId
    Moves = {m1, m2, m3}
    MaxTime = 2
    Requests <- EachRequests
SPECIFICATION Spec
SYMMETRY Same
INVARIANTS Inductive CreateLeavesWallet PagesCoverHistory TotalCoversPage
