SPECIFICATION FairSpec
CONSTANTS
    h1 = h1
    h2 = h2
    Handlers = {h1, h2}
    NoHandler = NoHandler
    MaxUuid = 9
    Wallets = {1, 2, 3}
    Users <- MCUsers
    Owner <- MCOwner
    Currency <- MCCurrency
    Keys = {"a", "b", "c", "d"}
    Requests <- AllRequests
    MaxBigint = 3
INVARIANTS
    LedgerExplainsBalance
    Reconciled
    MoneyConserved
    KeyAppliedOnce
    DoubleEntry
    SuccessIsCommitted
    NoDeadlock
    Inductive
PROPERTIES
    AppendOnly
    RefusalIsCurrent
    Implements
    Answered
