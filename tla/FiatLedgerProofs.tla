-------------------------- MODULE FiatLedgerProofs --------------------------
(***************************************************************************)
(* Proofs about FiatLedger, for every set of handlers, wallets and         *)
(* requests that its assumptions allow.                                    *)
(***************************************************************************)
EXTENDS FiatLedger, FiniteSetTheorems, WellFoundedInduction, TLAPS

-----------------------------------------------------------------------------
(* Facts about requests and about the end of a request *)

\* A request of a handler is one of the requests the routes let through.
LEMMA RequestFacts ==
    ASSUME NEW r \in Requests
    PROVE  /\ r \in RequestType
           /\ r.op = "deposit" => r.from = NoWallet /\ r.to # NoWallet
           /\ r.op = "withdrawal" => r.to = NoWallet /\ r.from # NoWallet
           /\ r.op = "transfer" => r.from # NoWallet /\ r.to # NoWallet
           /\ \A w \in Wallets : w \in Nat /\ w # NoWallet
    <1>1. r \in RequestType /\ NoWallet = 0
        BY RequestsAssumption DEF NoWallet
    <1>2. r.op \in {"deposit", "withdrawal", "transfer"}
        BY <1>1 DEF RequestType, Ops
    <1>3. /\ r.op = "deposit" <=> r.from = NoWallet
          /\ r.op = "withdrawal" <=> r.to = NoWallet
        BY RequestsAssumption
    <1>4. \A w \in Wallets : w \in Nat /\ w # NoWallet
        BY <1>1, WalletsAssumption
    <1> QED BY <1>1, <1>2, <1>3, <1>4

\* When the checks pass, the guarded wallet and all the named ones exist, belong
\* to one currency, and the debited one covers the amount.
LEMMA PassedChecks ==
    ASSUME NEW r \in Requests, NEW seen,
           Refusal(r, seen) = "none"
    PROVE  /\ Named(r) \subseteq Wallets
           /\ Rows(r) = Named(r)
           /\ Guarded(r) \in Wallets
           /\ Owner[Guarded(r)] = r.user
           /\ \A v, w \in Rows(r) : Currency[v] = Currency[w]
           /\ r.from # NoWallet => ~(seen[r.from] < r.amount)
    <1>1. /\ ~(Named(r) # Rows(r) \/ Owner[Guarded(r)] # r.user)
          /\ ~(\E v, w \in Rows(r) : Currency[v] # Currency[w])
          /\ ~(r.from # NoWallet /\ seen[r.from] < r.amount)
        BY DEF Refusal
    <1>2. Guarded(r) \in Named(r)
        BY RequestFacts, RequestsAssumption DEF Guarded, Named
    <1> QED BY <1>1, <1>2 DEF Rows

\* The new row of table transactions is well formed once the checks passed.
LEMMA TransactionTyped ==
    ASSUME NEW r \in Requests, Guarded(r) \in Wallets
    PROVE  Transaction(r) \in TransactionType
    <1>1. r \in RequestType
        BY RequestFacts
    <1>2. Currency[Guarded(r)] \in Currencies
        BY DEF Currencies
    <1>3. (IF r.op = "transfer" THEN {r.from, r.to} ELSE {}) \in SUBSET Nat
        BY <1>1 DEF RequestType
    <1> QED BY <1>1, <1>2, <1>3 DEF Transaction, TransactionType, RequestType

\* Ending a request without touching the tables keeps the invariant.
LEMMA FinishKeepsInductive ==
    ASSUME Inductive, NEW p \in Handlers, NEW status \in Statuses,
           NEW tx \in SUBSET TransactionType,
           Finish(p, status, tx), UNCHANGED tables
    PROVE  Inductive'
    <1> USE DEF Inductive
    <1>0. /\ balance' = balance /\ ledger' = ledger /\ transactions' = transactions
          /\ req' = req
          /\ p # NoHandler
          /\ pc' = [pc EXCEPT ![p] = "idle"]
          /\ read' = [read EXCEPT ![p] = Nothing]
          /\ posted' = [posted EXCEPT ![p] = {}]
          /\ lockedBy' = [w \in Wallets |->
                            IF lockedBy[w] = p THEN NoHandler ELSE lockedBy[w]]
        BY HandlersAssumption DEF Finish, tables
    <1>1. TypeOK'
        <2>1. Nothing \in [Wallets -> 0..MaxBigint]
            BY MaxBigintAssumption DEF Nothing
        <2>2. reply' \in [Handlers -> [status : Statuses, tx : SUBSET TransactionType]]
            BY DEF Finish, TypeOK
        <2> QED BY <1>0, <2>1, <2>2 DEF TypeOK
    <1>2. \A q \in Handlers : q # p =>
            /\ pc'[q] = pc[q] /\ read'[q] = read[q] /\ posted'[q] = posted[q]
            /\ \A w \in Wallets : lockedBy'[w] = q <=> lockedBy[w] = q
        BY <1>0, HandlersAssumption DEF TypeOK
    <1>3. /\ pc'[p] = "idle" /\ posted'[p] = {}
          /\ \A w \in Wallets : lockedBy'[w] # p
        BY <1>0 DEF TypeOK
    <1>4. ReadIsCurrent'
        BY <1>0, <1>2, <1>3 DEF ReadIsCurrent
    <1>5. LocksFollowCode'
        BY <1>0, <1>2, <1>3 DEF LocksFollowCode, Missing, Rows
    <1>6. LocksAscend'
        BY <1>0, <1>2, <1>3 DEF LocksAscend, LocksFollowCode, Rows
    <1>7. ChecksHold'
        BY <1>0, <1>2, <1>3 DEF ChecksHold
    <1>8. PostedLegsFit'
        BY <1>0, <1>2, <1>3 DEF PostedLegsFit, NewBalance
    <1>9. KeyAppliedOnce' /\ ConflictIsCommitted'
        BY <1>0, <1>2, <1>3 DEF KeyAppliedOnce, ConflictIsCommitted, HoldsKey, Fetch
    <1> QED BY <1>1, <1>4, <1>5, <1>6, <1>7, <1>8, <1>9

-----------------------------------------------------------------------------
(* The invariant is inductive *)

\* Before any request nothing is locked, read or written.
LEMMA InitInductive == Init => Inductive
    <1> SUFFICES ASSUME Init PROVE Inductive
        OBVIOUS
    <1> USE DEF Init
    <1>1. (CHOOSE r \in Requests : TRUE) \in Requests
        BY RequestsAssumption
    <1>2. TypeOK
        BY <1>1, MaxBigintAssumption, HandlersAssumption DEF TypeOK, Nothing, Statuses
    <1>3. ReadIsCurrent /\ LocksFollowCode
        BY HandlersAssumption DEF ReadIsCurrent, LocksFollowCode
    <1>4. LocksAscend /\ ChecksHold /\ PostedLegsFit
        BY DEF LocksAscend, ChecksHold, PostedLegsFit
    <1>5. KeyAppliedOnce /\ ConflictIsCommitted
        BY DEF KeyAppliedOnce, ConflictIsCommitted, HoldsKey
    <1> QED BY <1>2, <1>3, <1>4, <1>5 DEF Inductive

\* A request that arrives.
LEMMA ReceiveKeepsInductive ==
    ASSUME Inductive, NEW p \in Handlers, NEW r \in Requests, Receive(p, r)
    PROVE  Inductive'
    <1> USE DEF Inductive
    <1>0. /\ UNCHANGED <<balance, ledger, transactions, lockedBy, read, posted>>
          /\ pc[p] = "idle"
          /\ pc' = [pc EXCEPT ![p] = "check"]
          /\ req' = [req EXCEPT ![p] = r]
          /\ reply' = [reply EXCEPT ![p] = [status |-> "none", tx |-> {}]]
        BY DEF Receive, tables
    <1>1. TypeOK'
        BY <1>0 DEF TypeOK, Statuses
    <1>2. \A q \in Handlers : q # p => pc'[q] = pc[q] /\ req'[q] = req[q]
        BY <1>0 DEF TypeOK
    <1>3. pc'[p] = "check" /\ posted[p] = {} /\ \A w \in Wallets : lockedBy[w] # p
        BY <1>0 DEF TypeOK, PostedLegsFit, LocksFollowCode
    <1>4. ReadIsCurrent'
        BY <1>0 DEF ReadIsCurrent
    <1>5. LocksFollowCode'
        BY <1>0, <1>2, <1>3 DEF LocksFollowCode, Missing, Rows
    <1>6. LocksAscend'
        BY <1>0, <1>2, <1>3 DEF LocksAscend, LocksFollowCode, Rows
    <1>7. ChecksHold'
        BY <1>0, <1>2, <1>3 DEF ChecksHold
    <1>8. PostedLegsFit'
        BY <1>0, <1>2, <1>3 DEF PostedLegsFit, NewBalance
    <1>9. KeyAppliedOnce' /\ ConflictIsCommitted'
        BY <1>0, <1>2, <1>3 DEF KeyAppliedOnce, ConflictIsCommitted, HoldsKey, Fetch
    <1> QED BY <1>1, <1>4, <1>5, <1>6, <1>7, <1>8, <1>9

\* A handler that only moves on to its next statement, still before its insert.
LEMMA AdvanceKeepsInductive ==
    ASSUME Inductive, NEW p \in Handlers,
           NEW next \in {"lock", "insert", "refetch"},
           pc' = [pc EXCEPT ![p] = next],
           UNCHANGED <<tables, lockedBy, req, read, posted, reply>>,
           pc[p] # "post",
           req[p].from # req[p].to,
           next = "lock" => pc[p] = "check",
           next = "refetch" => Fetch(req[p].key) # {},
           next # "lock" => Missing(p) = {} /\ Refusal(req[p], read[p]) = "none"
    PROVE  Inductive'
    <1> USE DEF Inductive
    <1>0. UNCHANGED <<balance, ledger, transactions>>
        BY DEF tables
    <1>1. TypeOK'
        BY <1>0 DEF TypeOK
    <1>2. \A q \in Handlers : q # p => pc'[q] = pc[q]
        BY DEF TypeOK
    <1>3. pc'[p] = next
        BY DEF TypeOK
    <1>4. ReadIsCurrent'
        BY <1>0 DEF ReadIsCurrent
    <1>5. LocksFollowCode'
        BY <1>0, <1>2, <1>3 DEF LocksFollowCode, Missing, Rows
    <1>6. LocksAscend'
        BY <1>0, <1>2, <1>3 DEF LocksAscend, LocksFollowCode, Rows
    <1>7. ChecksHold'
        BY <1>0, <1>2, <1>3 DEF ChecksHold
    <1>8. PostedLegsFit'
        BY <1>0, <1>2, <1>3 DEF PostedLegsFit, NewBalance
    <1>9. KeyAppliedOnce' /\ ConflictIsCommitted'
        BY <1>0, <1>2, <1>3 DEF KeyAppliedOnce, ConflictIsCommitted, HoldsKey, Fetch
    <1> QED BY <1>1, <1>4, <1>5, <1>6, <1>7, <1>8, <1>9

\* The next row is the least of those still missing.
LEMMA NextRowIsLeast ==
    ASSUME Inductive, NEW p \in Handlers, Missing(p) # {}
    PROVE  NextRow(p) \in Missing(p) /\ \A v \in Missing(p) : NextRow(p) <= v
    <1>1. PICK a, b \in Nat : Missing(p) \subseteq {a, b}
        BY RequestFacts DEF Inductive, TypeOK, Missing, Rows, Named, RequestType
    <1>2. \E w \in Missing(p) : \A v \in Missing(p) : w <= v
        BY <1>1
    <1> QED BY <1>2 DEF NextRow

\* The read a lock comes with is the committed balance, and nobody else can
\* change it while the lock is held.
LEMMA LockRowKeepsInductive ==
    ASSUME Inductive, NEW p \in Handlers, LockRow(p)
    PROVE  Inductive'
    <1> USE DEF Inductive
    <1> DEFINE w == NextRow(p)
    <1>0. /\ UNCHANGED <<balance, ledger, transactions, pc, req, posted, reply>>
          /\ pc[p] = "lock"
          /\ Missing(p) # {}
          /\ lockedBy[w] = NoHandler
          /\ lockedBy' = [lockedBy EXCEPT ![w] = p]
          /\ read' = [read EXCEPT ![p][w] = balance[w]]
        BY DEF LockRow, RowIsFree, tables
    <1>1. /\ w \in Wallets /\ w \in Rows(req[p])
          /\ \A v \in Missing(p) : w <= v
        BY <1>0, NextRowIsLeast DEF Missing, Rows
    <1> HIDE DEF w
    <1>2. TypeOK'
        BY <1>0, <1>1 DEF TypeOK
    <1>3. /\ \A q \in Handlers : q # p => read'[q] = read[q]
          /\ \A v \in Wallets : v # w => read'[p][v] = read[p][v] /\ lockedBy'[v] = lockedBy[v]
          /\ read'[p][w] = balance[w] /\ lockedBy'[w] = p
        BY <1>0, <1>1 DEF TypeOK
    <1>4. ReadIsCurrent'
        BY <1>0, <1>1, <1>3, HandlersAssumption DEF ReadIsCurrent
    <1>5. LocksFollowCode'
        BY <1>0, <1>1, <1>3, HandlersAssumption DEF LocksFollowCode, Missing, Rows
    <1>6. LocksAscend'
        <2>1. \A v \in Rows(req[p]) : lockedBy'[v] # p => w < v
            BY <1>0, <1>1, <1>3, WalletsAssumption DEF Missing, Rows
        <2>2. \A v \in Rows(req[p]) : lockedBy[v] = p => v < w
            BY <1>0, <1>1, HandlersAssumption DEF LocksAscend
        <2>3. \A u, v \in Rows(req[p]) : lockedBy'[u] = p /\ lockedBy'[v] # p => u < v
            BY <1>0, <1>1, <1>3, <2>1, <2>2 DEF LocksAscend, Rows
        <2> QED BY <1>0, <1>1, <1>3, <2>3, HandlersAssumption DEF LocksAscend, Rows
    <1>7. ChecksHold'
        BY <1>0, <1>3 DEF ChecksHold
    <1>8. PostedLegsFit'
        BY <1>0, <1>3 DEF PostedLegsFit, NewBalance
    <1>9. KeyAppliedOnce' /\ ConflictIsCommitted'
        BY <1>0 DEF KeyAppliedOnce, ConflictIsCommitted, HoldsKey, Fetch
    <1> QED BY <1>2, <1>4, <1>5, <1>6, <1>7, <1>8, <1>9

\* The handler whose insert finds neither a committed nor an uncommitted row of
\* its key becomes the only one to hold the key.
LEMMA InsertKeepsInductive ==
    ASSUME Inductive, NEW p \in Handlers, InsertTransaction(p)
    PROVE  Inductive'
    <1> USE DEF Inductive
    <1>0. /\ UNCHANGED <<balance, ledger, transactions, lockedBy, req, read, posted, reply>>
          /\ pc[p] = "insert"
          /\ \A q \in Handlers : ~HoldsKey(q, req[p].key)
        BY DEF InsertTransaction, tables, KeyIsFree
    <1>1. CASE Fetch(req[p].key) # {}
        <2>1. pc' = [pc EXCEPT ![p] = "refetch"]
            BY <1>1 DEF InsertTransaction
        <2>2. /\ req[p].from # req[p].to
              /\ Missing(p) = {}
              /\ Refusal(req[p], read[p]) = "none"
            BY <1>0 DEF ChecksHold, LocksFollowCode
        <2> QED BY <1>0, <1>1, <2>1, <2>2, AdvanceKeepsInductive DEF tables
    <1>2. CASE Fetch(req[p].key) = {}
        <2>1. pc' = [pc EXCEPT ![p] = "post"]
            BY <1>2 DEF InsertTransaction
        <2>2. TypeOK'
            BY <1>0, <2>1 DEF TypeOK
        <2>3. pc'[p] = "post" /\ \A q \in Handlers : q # p => pc'[q] = pc[q]
            BY <2>1 DEF TypeOK
        <2>4. ReadIsCurrent'
            BY <1>0 DEF ReadIsCurrent
        <2>5. LocksFollowCode'
            BY <1>0, <2>3 DEF LocksFollowCode, Missing, Rows
        <2>6. LocksAscend'
            BY <1>0, <2>3 DEF LocksAscend, Rows
        <2>7. ChecksHold'
            BY <1>0, <2>3 DEF ChecksHold
        <2>8. PostedLegsFit'
            BY <1>0, <2>3 DEF PostedLegsFit, NewBalance
        <2>9. KeyAppliedOnce' /\ ConflictIsCommitted'
            BY <1>0, <1>2, <2>3 DEF KeyAppliedOnce, ConflictIsCommitted, HoldsKey, Fetch
        <2> QED BY <2>2, <2>4, <2>5, <2>6, <2>7, <2>8, <2>9
    <1> QED BY <1>1, <1>2

\* A new balance is an integer.
LEMMA NewBalanceIsInt ==
    ASSUME Inductive, NEW p \in Handlers, NEW w \in Wallets
    PROVE  NewBalance(p, w) \in Int /\ Delta(req[p], w) \in Int
    <1>1. req[p] \in RequestType
        BY RequestFacts DEF Inductive, TypeOK
    <1>2. read[p][w] \in Int
        BY MaxBigintAssumption DEF Inductive, TypeOK
    <1> QED BY <1>1, <1>2 DEF NewBalance, Delta, RequestType

\* The wallet of the next leg is one of the rows of the request.
LEMMA NextLegIsUnposted ==
    ASSUME Inductive, NEW p \in Handlers, Unposted(p) # {}
    PROVE  NextLeg(p) \in Unposted(p)
    BY DEF NextLeg, Unposted, Rows, Named

\* A leg is written only if its balance fits; otherwise the request ends.
LEMMA PostLegKeepsInductive ==
    ASSUME Inductive, NEW p \in Handlers, PostLeg(p)
    PROVE  Inductive'
    <1> USE DEF Inductive
    <1>0. pc[p] = "post" /\ Unposted(p) # {} /\ UNCHANGED tables
        BY DEF PostLeg
    <1>1. CASE ~Storable(NewBalance(p, NextLeg(p)))
        <2>1. Finish(p, "error", {})
            BY <1>1 DEF PostLeg
        <2> QED BY <1>0, <2>1, FinishKeepsInductive DEF Statuses
    <1>2. CASE Storable(NewBalance(p, NextLeg(p)))
        <2> DEFINE w == NextLeg(p)
        <2>1. /\ posted' = [posted EXCEPT ![p] = @ \cup {w}]
              /\ UNCHANGED <<balance, ledger, transactions, lockedBy, pc, req, read, reply>>
            BY <1>0, <1>2 DEF PostLeg, tables
        <2>2. w \in Rows(req[p]) /\ w \in Wallets /\ Storable(NewBalance(p, w))
            BY <1>0, <1>2, NextLegIsUnposted DEF Unposted, Rows
        <2> HIDE DEF w
        <2>3. TypeOK'
            BY <2>1, <2>2 DEF TypeOK
        <2>4. posted'[p] = posted[p] \cup {w} /\ \A q \in Handlers : q # p => posted'[q] = posted[q]
            BY <2>1 DEF TypeOK
        <2>5. ReadIsCurrent' /\ LocksFollowCode' /\ LocksAscend' /\ ChecksHold'
            BY <2>1 DEF ReadIsCurrent, LocksFollowCode, LocksAscend, ChecksHold, Missing, Rows
        <2>6. PostedLegsFit'
            BY <1>0, <2>1, <2>2, <2>4 DEF PostedLegsFit, NewBalance
        <2>7. KeyAppliedOnce' /\ ConflictIsCommitted'
            BY <2>1 DEF KeyAppliedOnce, ConflictIsCommitted, HoldsKey, Fetch
        <2> QED BY <2>3, <2>5, <2>6, <2>7
    <1> QED BY <1>1, <1>2

\* What a commit knows: every row of its request is locked and written, its key
\* is free, and the balances it stores are the committed ones plus its deltas.
LEMMA CommitFacts ==
    ASSUME Inductive, NEW p \in Handlers, Commit(p)
    PROVE  /\ posted[p] = Rows(req[p])
           /\ Rows(req[p]) = Named(req[p])
           /\ \A w \in posted[p] :
                 /\ w \in Wallets
                 /\ lockedBy[w] = p
                 /\ NewBalance(p, w) \in 0..MaxBigint
                 /\ NewBalance(p, w) = balance[w] + Delta(req[p], w)
           /\ \A t \in transactions : t.key # req[p].key
           /\ \A q \in Handlers : q # p => ~HoldsKey(q, req[p].key)
           /\ Transaction(req[p]) \in TransactionType
           /\ Transaction(req[p]).key = req[p].key
    <1> USE DEF Inductive
    <1>1. pc[p] = "post" /\ Unposted(p) = {} /\ req[p] \in Requests
        BY DEF Commit, TypeOK
    <1>2. posted[p] = Rows(req[p])
        BY <1>1 DEF PostedLegsFit, Unposted
    <1>3. Refusal(req[p], read[p]) = "none" /\ Missing(p) = {}
        BY <1>1 DEF ChecksHold, LocksFollowCode
    <1>4. Rows(req[p]) = Named(req[p]) /\ Guarded(req[p]) \in Wallets
        BY <1>1, <1>3, PassedChecks
    <1>5. ASSUME NEW w \in posted[p]
          PROVE  /\ w \in Wallets
                 /\ lockedBy[w] = p
                 /\ NewBalance(p, w) \in 0..MaxBigint
                 /\ NewBalance(p, w) = balance[w] + Delta(req[p], w)
        <2>1. w \in Wallets /\ lockedBy[w] = p
            BY <1>2, <1>3 DEF Missing, Rows
        <2>2. Storable(NewBalance(p, w))
            BY DEF PostedLegsFit
        <2>3. NewBalance(p, w) \in 0..MaxBigint
            BY <2>1, <2>2, NewBalanceIsInt, MaxBigintAssumption DEF Storable
        <2>4. read[p][w] = balance[w]
            BY <2>1 DEF ReadIsCurrent
        <2> QED BY <2>1, <2>3, <2>4 DEF NewBalance
    <1>6. \A t \in transactions : t.key # req[p].key
        BY <1>1 DEF KeyAppliedOnce, Fetch
    <1>7. \A q \in Handlers : q # p => ~HoldsKey(q, req[p].key)
        BY <1>1 DEF KeyAppliedOnce, HoldsKey
    <1>8. Transaction(req[p]) \in TransactionType
        BY <1>1, <1>4, TransactionTyped
    <1>9. Transaction(req[p]).key = req[p].key
        BY DEF Transaction
    <1> QED BY <1>2, <1>4, <1>5, <1>6, <1>7, <1>8, <1>9

\* The ledger entries a commit appends are well formed.
LEMMA EntryTyped ==
    ASSUME Inductive, NEW p \in Handlers, Commit(p), NEW w \in posted[p]
    PROVE  [key |-> req[p].key, amount |-> Delta(req[p], w),
            after |-> NewBalance(p, w)] \in Entry
    <1>1. req[p].key \in Keys
        BY RequestFacts DEF Inductive, TypeOK, RequestType
    <1>2. NewBalance(p, w) \in 0..MaxBigint /\ Delta(req[p], w) \in Int
        BY CommitFacts, NewBalanceIsInt
    <1> QED BY <1>1, <1>2 DEF Entry

\* The commit makes the writes visible and ends the request.
LEMMA CommitKeepsInductive ==
    ASSUME Inductive, NEW p \in Handlers, Commit(p)
    PROVE  Inductive'
    <1> USE DEF Inductive
    <1> DEFINE t == Transaction(req[p])
    <1>0. /\ pc[p] = "post"
          /\ balance' = [w \in Wallets |->
                IF w \in posted[p] THEN NewBalance(p, w) ELSE balance[w]]
          /\ ledger' = [w \in Wallets |->
                IF w \in posted[p]
                THEN Append(ledger[w], [key |-> req[p].key,
                                        amount |-> Delta(req[p], w),
                                        after |-> NewBalance(p, w)])
                ELSE ledger[w]]
          /\ transactions' = transactions \cup {t}
          /\ req' = req
          /\ p # NoHandler
          /\ pc' = [pc EXCEPT ![p] = "idle"]
          /\ read' = [read EXCEPT ![p] = Nothing]
          /\ posted' = [posted EXCEPT ![p] = {}]
          /\ lockedBy' = [w \in Wallets |->
                            IF lockedBy[w] = p THEN NoHandler ELSE lockedBy[w]]
        BY HandlersAssumption DEF Commit, Finish
    <1>1. t \in TransactionType /\ t.key = req[p].key
        BY CommitFacts
    <1> HIDE DEF t
    <1>2. TypeOK'
        <2>1. Nothing \in [Wallets -> 0..MaxBigint]
            BY MaxBigintAssumption DEF Nothing
        <2>2. balance' \in [Wallets -> 0..MaxBigint]
            BY <1>0, CommitFacts DEF TypeOK
        <2>3. ledger' \in [Wallets -> Seq(Entry)]
            BY <1>0, EntryTyped DEF TypeOK
        <2>4. reply' \in [Handlers -> [status : Statuses, tx : SUBSET TransactionType]]
            <3>1. PICK status \in {"ok", "error"}, tx \in {{}, {t}} :
                     reply' = [reply EXCEPT ![p] = [status |-> status, tx |-> tx]]
                BY DEF Commit, Finish, t
            <3> QED BY <1>1, <3>1 DEF TypeOK, Statuses
        <2> QED BY <1>0, <1>1, <2>1, <2>2, <2>3, <2>4 DEF TypeOK
    <1>3. \A q \in Handlers : q # p =>
            /\ pc'[q] = pc[q] /\ read'[q] = read[q] /\ posted'[q] = posted[q]
            /\ \A w \in Wallets : lockedBy'[w] = q <=> lockedBy[w] = q
        BY <1>0, HandlersAssumption DEF TypeOK
    <1>4. /\ pc'[p] = "idle" /\ posted'[p] = {}
          /\ \A w \in Wallets : lockedBy'[w] # p
        BY <1>0 DEF TypeOK
    <1>5. ReadIsCurrent'
        <2>1. ASSUME NEW q \in Handlers, NEW w \in Wallets, lockedBy'[w] = q
              PROVE  read'[q][w] = balance'[w]
            <3>1. q # p /\ lockedBy[w] = q
                BY <1>3, <1>4, <2>1
            <3>2. balance'[w] = balance[w]
                BY <1>0, <3>1, CommitFacts
            <3> QED BY <1>3, <3>1, <3>2 DEF ReadIsCurrent
        <2> QED BY <2>1 DEF ReadIsCurrent
    <1>6. LocksFollowCode'
        BY <1>0, <1>3, <1>4 DEF LocksFollowCode, Missing, Rows
    <1>7. LocksAscend'
        BY <1>0, <1>3, <1>4 DEF LocksAscend, Rows
    <1>8. ChecksHold' /\ PostedLegsFit'
        BY <1>0, <1>3, <1>4 DEF ChecksHold, PostedLegsFit, NewBalance
    <1>9. KeyAppliedOnce'
        <2>1. \A u \in transactions : u.key # t.key
            BY <1>1, CommitFacts
        <2>2. \A q \in Handlers : pc'[q] = "post" => q # p /\ pc[q] = "post" /\ req[q].key # t.key
            BY <1>1, <1>3, <1>4, CommitFacts DEF HoldsKey
        <2>3. \A u, v \in transactions' : u.key = v.key => u = v
            BY <1>0, <2>1 DEF KeyAppliedOnce
        <2>4. \A q \in Handlers : pc'[q] = "post" => Fetch(req[q].key)' = {}
            BY <1>0, <2>2 DEF KeyAppliedOnce, Fetch
        <2>5. \A q, r \in Handlers :
                 (HoldsKey(q, req[q].key) /\ HoldsKey(r, req[q].key))' => q = r
            BY <1>0, <2>2 DEF KeyAppliedOnce, HoldsKey
        <2> QED BY <1>0, <2>3, <2>4, <2>5 DEF KeyAppliedOnce
    <1>10. ConflictIsCommitted'
        BY <1>0, <1>3, <1>4 DEF ConflictIsCommitted, Fetch
    <1> QED BY <1>2, <1>5, <1>6, <1>7, <1>8, <1>9, <1>10

\* Every step keeps the invariant.
LEMMA NextKeepsInductive == Inductive /\ [Next]_vars => Inductive'
    <1> SUFFICES ASSUME Inductive, [Next]_vars PROVE Inductive'
        OBVIOUS
    <1>1. CASE UNCHANGED vars
        BY <1>1 DEF vars, Inductive, TypeOK, ReadIsCurrent, LocksFollowCode,
                    LocksAscend, ChecksHold, PostedLegsFit, KeyAppliedOnce, ConflictIsCommitted,
                    Missing, Rows, NewBalance, HoldsKey, Fetch
    <1>2. ASSUME NEW p \in Handlers, NEW r \in Requests, Receive(p, r)
          PROVE  Inductive'
        BY <1>2, ReceiveKeepsInductive
    <1>3. ASSUME NEW p \in Handlers, RefuseSameWallet(p)
          PROVE  Inductive'
        BY <1>3, FinishKeepsInductive DEF RefuseSameWallet, Statuses
    <1>4. ASSUME NEW p \in Handlers, CheckIdempotencyKey(p)
          PROVE  Inductive'
        <2>1. CASE Fetch(req[p].key) # {}
            <3>1. Fetch(req[p].key) \in SUBSET TransactionType
                BY DEF Fetch, Inductive, TypeOK
            <3> QED BY <1>4, <2>1, <3>1, FinishKeepsInductive DEF CheckIdempotencyKey, Statuses
        <2>2. CASE Fetch(req[p].key) = {}
            BY <1>4, <2>2, AdvanceKeepsInductive DEF CheckIdempotencyKey
        <2> QED BY <2>1, <2>2
    <1>5. ASSUME NEW p \in Handlers, LockRow(p)
          PROVE  Inductive'
        BY <1>5, LockRowKeepsInductive
    <1>6. ASSUME NEW p \in Handlers, Validate(p)
          PROVE  Inductive'
        <2>1. /\ pc[p] = "lock" /\ Missing(p) = {} /\ UNCHANGED tables
              /\ req[p].from # req[p].to
            BY <1>6 DEF Validate, Inductive, ChecksHold
        <2>2. CASE Refusal(req[p], read[p]) = "none"
            BY <1>6, <2>1, <2>2, AdvanceKeepsInductive DEF Validate
        <2>3. CASE Refusal(req[p], read[p]) # "none"
            <3>1. Finish(p, Refusal(req[p], read[p]), {})
                BY <1>6, <2>3 DEF Validate
            <3>2. Refusal(req[p], read[p]) \in Statuses
                BY <2>3 DEF Refusal, Statuses
            <3> QED BY <2>1, <3>1, <3>2, FinishKeepsInductive
        <2> QED BY <2>2, <2>3
    <1>7. ASSUME NEW p \in Handlers, InsertTransaction(p)
          PROVE  Inductive'
        BY <1>7, InsertKeepsInductive
    <1>8. ASSUME NEW p \in Handlers, Refetch(p)
          PROVE  Inductive'
        <2>1. Fetch(req[p].key) \in SUBSET TransactionType
            BY DEF Fetch, Inductive, TypeOK
        <2> QED BY <1>8, <2>1, FinishKeepsInductive DEF Refetch, Statuses
    <1>9. ASSUME NEW p \in Handlers, PostLeg(p)
          PROVE  Inductive'
        BY <1>9, PostLegKeepsInductive
    <1>10. ASSUME NEW p \in Handlers, Commit(p)
           PROVE  Inductive'
        BY <1>10, CommitKeepsInductive
    <1>11. ASSUME NEW p \in Handlers, Rollback(p)
           PROVE  Inductive'
        BY <1>11, FinishKeepsInductive DEF Rollback, Statuses
    <1> QED BY <1>1, <1>2, <1>3, <1>4, <1>5, <1>6, <1>7, <1>8, <1>9, <1>10, <1>11
            DEF Next, Step

\* The inductive invariant holds in every reachable state.
THEOREM InductiveInvariant == Spec => []Inductive
    <1>1. Init => Inductive
        BY InitInductive
    <1>2. Inductive /\ [Next]_vars => Inductive'
        BY NextKeepsInductive
    <1> QED BY <1>1, <1>2, PTL DEF Spec

\* Type correctness; in particular no balance ever leaves 0..MaxBigint.
THEOREM TypeCorrectness == Spec => []TypeOK
    <1>1. Inductive => TypeOK
        BY DEF Inductive
    <1> QED BY <1>1, InductiveInvariant, PTL

\* However requests with one idempotency key interleave, fail and are retried,
\* the key is inserted at most once.
THEOREM KeysAreAppliedOnce == Spec => []KeyAppliedOnce
    <1>1. Inductive => KeyAppliedOnce
        BY DEF Inductive
    <1> QED BY <1>1, InductiveInvariant, PTL

-----------------------------------------------------------------------------
(* What the invariant gives *)

\* A success answers rows that are committed, of the key of the request.
AnswersAreFetched ==
    \A p \in Handlers :
        reply[p].status = "ok" => reply[p].tx # {} /\ reply[p].tx \subseteq Fetch(req[p].key)

LEMMA SuccessAnswersFetched == Spec => []AnswersAreFetched
    <1>1. Init => AnswersAreFetched
        BY DEF Init, AnswersAreFetched
    <1>2. ASSUME Inductive, AnswersAreFetched, [Next]_vars
          PROVE  AnswersAreFetched'
        <2>0. /\ pc \in [Handlers -> {"idle", "check", "lock", "insert", "refetch", "post"}]
              /\ reply \in [Handlers -> [status : Statuses, tx : SUBSET TransactionType]]
              /\ req \in [Handlers -> Requests]
            BY <1>2 DEF Inductive, TypeOK
        <2>1. CASE UNCHANGED vars
            BY <1>2, <2>1 DEF vars, AnswersAreFetched, Fetch
        <2>2. ASSUME NEW p \in Handlers, NEW status, NEW tx, Finish(p, status, tx),
                     transactions \subseteq transactions',
                     status = "ok" => tx # {} /\ \A t \in tx : t \in transactions' /\ t.key = req[p].key
              PROVE  AnswersAreFetched'
            <3>1. /\ reply' = [reply EXCEPT ![p] = [status |-> status, tx |-> tx]]
                  /\ req' = req
                BY <2>2 DEF Finish
            <3> QED BY <1>2, <2>0, <2>2, <3>1 DEF AnswersAreFetched, Fetch
        <2>3. ASSUME NEW p \in Handlers, UNCHANGED <<tables, req, reply>>
              PROVE  AnswersAreFetched'
            BY <1>2, <2>3 DEF AnswersAreFetched, Fetch, tables
        <2>4. ASSUME NEW p \in Handlers, NEW r \in Requests, Receive(p, r)
              PROVE  AnswersAreFetched'
            <3>1. /\ req' = [req EXCEPT ![p] = r]
                  /\ reply' = [reply EXCEPT ![p] = [status |-> "none", tx |-> {}]]
                  /\ transactions' = transactions
                BY <2>4 DEF Receive, tables
            <3> QED BY <1>2, <2>0, <3>1 DEF AnswersAreFetched, Fetch
        <2>5. ASSUME NEW p \in Handlers, RefuseSameWallet(p) \/ Rollback(p)
              PROVE  AnswersAreFetched'
            BY <2>2, <2>5 DEF RefuseSameWallet, Rollback, tables
        <2>6. ASSUME NEW p \in Handlers, CheckIdempotencyKey(p)
              PROVE  AnswersAreFetched'
            BY <2>2, <2>3, <2>6 DEF CheckIdempotencyKey, tables, Fetch
        <2>7. ASSUME NEW p \in Handlers, Validate(p)
              PROVE  AnswersAreFetched'
            <3>1. Refusal(req[p], read[p]) # "ok"
                BY DEF Refusal
            <3> QED BY <2>2, <2>3, <2>7, <3>1 DEF Validate, tables
        <2>8. ASSUME NEW p \in Handlers, LockRow(p) \/ InsertTransaction(p)
              PROVE  AnswersAreFetched'
            BY <2>3, <2>8 DEF LockRow, InsertTransaction
        <2>9. ASSUME NEW p \in Handlers, PostLeg(p)
              PROVE  AnswersAreFetched'
            BY <2>2, <2>3, <2>9 DEF PostLeg, tables
        <2>10. ASSUME NEW p \in Handlers, Commit(p)
               PROVE  AnswersAreFetched'
            <3>1. transactions' = transactions \cup {Transaction(req[p])}
                BY <2>10 DEF Commit
            <3>2. Transaction(req[p]).key = req[p].key
                BY DEF Transaction
            <3>3. \/ Finish(p, "ok", {Transaction(req[p])})
                  \/ Finish(p, "error", {})
                BY <2>10 DEF Commit
            <3> HIDE DEF Transaction
            <3> QED BY <2>2, <3>1, <3>2, <3>3
        <2>11. ASSUME NEW p \in Handlers, Refetch(p)
               PROVE  AnswersAreFetched'
            <3>1. Fetch(req[p].key) # {}
                BY <1>2, <2>11 DEF Refetch, Inductive, ConflictIsCommitted
            <3> QED BY <2>2, <2>11, <3>1 DEF Refetch, tables, Fetch
        <2> QED BY <1>2, <2>1, <2>4, <2>5, <2>6, <2>7, <2>8, <2>9, <2>10, <2>11 DEF Next, Step
    <1> QED BY <1>1, <1>2, InductiveInvariant, PTL DEF Spec

\* Nothing but a commit changes the tables.
LEMMA OnlyCommitsWrite ==
    ASSUME [Next]_vars
    PROVE  UNCHANGED tables \/ \E p \in Handlers : Commit(p)
    BY DEF Next, Step, vars, tables, Receive, RefuseSameWallet, CheckIdempotencyKey,
           LockRow, Validate, InsertTransaction, Refetch, PostLeg, Rollback

\* Every transaction is of a request.
TransactionsAreRequested == \A t \in transactions : \E r \in Requests : t = Transaction(r)

LEMMA RequestsMakeTransactions == Spec => []TransactionsAreRequested
    <1>1. Init => TransactionsAreRequested
        BY DEF Init, TransactionsAreRequested
    <1>2. ASSUME Inductive, TransactionsAreRequested, [Next]_vars
          PROVE  TransactionsAreRequested'
        <2>1. CASE UNCHANGED tables
            BY <1>2, <2>1 DEF tables, TransactionsAreRequested, Transaction
        <2>2. ASSUME NEW p \in Handlers, Commit(p)
              PROVE  TransactionsAreRequested'
            <3>1. PICK r \in Requests : r = req[p]
                BY <1>2 DEF Inductive, TypeOK
            <3>2. transactions' = transactions \cup {Transaction(r)}
                BY <2>2, <3>1 DEF Commit
            <3> QED BY <1>2, <3>2 DEF TransactionsAreRequested, Transaction
        <2> QED BY <1>2, <2>1, <2>2, OnlyCommitsWrite
    <1> QED BY <1>1, <1>2, InductiveInvariant, PTL DEF Spec

\* However requests interleave, fail and are retried, a success answers a committed
\* transaction of the request's key, and the request's own unless its key was used
\* for another.
THEOREM SuccessAnswersCommitted == Spec => []SuccessIsCommitted
    <1>1. ASSUME AnswersAreFetched, TransactionsAreRequested
          PROVE  SuccessIsCommitted
        <2> SUFFICES ASSUME NEW p \in Handlers, reply[p].status = "ok", KeyIsOwn(req[p])
                     PROVE  reply[p].tx = {Transaction(req[p])}
            BY <1>1 DEF AnswersAreFetched, SuccessIsCommitted
        <2>1. ASSUME NEW t \in reply[p].tx
              PROVE  t = Transaction(req[p])
            <3>1. t \in transactions /\ t.key = req[p].key
                BY <1>1 DEF AnswersAreFetched, Fetch
            <3>2. PICK r \in Requests : t = Transaction(r)
                BY <1>1, <3>1 DEF TransactionsAreRequested
            <3>3. r.key = req[p].key
                BY <3>1, <3>2 DEF Transaction
            <3>4. r = req[p]
                BY <3>3 DEF KeyIsOwn
            <3> QED BY <3>2, <3>4
        <2>2. reply[p].tx # {}
            BY <1>1 DEF AnswersAreFetched
        <2> QED BY <2>1, <2>2
    <1> QED BY <1>1, SuccessAnswersFetched, RequestsMakeTransactions, PTL

\* A commit posts the whole request at once, from the balances then committed.
LEMMA CommitPosts ==
    ASSUME Inductive, NEW p \in Handlers, Commit(p)
    PROVE  Promise!Post(req[p])
    <1> DEFINE r == req[p]
    <1>1. /\ pc[p] = "post" /\ r \in Requests
          /\ r.from # r.to
          /\ Refusal(r, read[p]) = "none"
        BY DEF Commit, Inductive, TypeOK, ChecksHold
    <1>2. /\ Named(r) = Promise!Parties(r)
          /\ Guarded(r) = Promise!Authority(r)
        BY <1>1, RequestsAssumption DEF Named, Promise!Parties, NoWallet, Guarded, Promise!Authority
    <1>3. /\ Named(r) \subseteq Wallets
          /\ Owner[Guarded(r)] = r.user
          /\ \A v, w \in Named(r) : Currency[v] = Currency[w]
        BY <1>1, PassedChecks
    <1>4. posted[p] = Named(r)
        BY CommitFacts
    <1>5. \A w \in Named(r) :
             /\ Delta(r, w) = Promise!Effect(r, w)
             /\ NewBalance(p, w) = balance[w] + Promise!Effect(r, w)
             /\ NewBalance(p, w) \in 0..MaxBigint
        BY <1>2, <1>4, CommitFacts DEF Delta, Promise!Effect
    <1>6. \A w \in Wallets : w \notin Named(r) =>
             /\ Promise!Effect(r, w) = 0
             /\ balance[w] + Promise!Effect(r, w) = balance[w]
        BY <1>2, MaxBigintAssumption DEF Promise!Effect, Inductive, TypeOK
    <1>7. Promise!Admissible(r)
        BY <1>1, <1>2, <1>3, <1>5 DEF Promise!Admissible
    <1>8. \A t \in transactions : t.key # r.key
        BY CommitFacts
    <1>9. /\ balance' = [w \in Wallets |->
                IF w \in posted[p] THEN NewBalance(p, w) ELSE balance[w]]
          /\ ledger' = [w \in Wallets |->
                IF w \in posted[p]
                THEN Append(ledger[w], [key |-> r.key, amount |-> Delta(r, w),
                                        after |-> NewBalance(p, w)])
                ELSE ledger[w]]
          /\ transactions' = transactions \cup {Transaction(r)}
        BY DEF Commit
    <1> HIDE DEF r
    <1>10. balance' = [w \in Wallets |-> balance[w] + Promise!Effect(r, w)]
        BY <1>4, <1>5, <1>6, <1>9
    <1>11. ledger' = [w \in Wallets |->
                        IF w \in Promise!Parties(r)
                        THEN Append(ledger[w],
                               [key |-> r.key,
                                amount |-> Promise!Effect(r, w),
                                after |-> balance[w] + Promise!Effect(r, w)])
                        ELSE ledger[w]]
        BY <1>2, <1>4, <1>5, <1>9
    <1>12. Transaction(r) =
              [key |-> r.key, type |-> r.op, amount |-> r.amount,
               currency |-> Currency[Promise!Authority(r)],
               metadata |-> IF r.op = "transfer" THEN {r.from, r.to} ELSE {}]
        BY <1>2 DEF Transaction
    <1> QED BY <1>7, <1>8, <1>9, <1>10, <1>11, <1>12 DEF Promise!Post, r

\* The concurrent handlers implement the abstract ledger: every committed
\* request is one atomic posting, everything else is invisible in the tables.
THEOREM ImplementsPromise == Spec => Implements
    <1>1. Init => Promise!Init
        BY DEF Init, Promise!Init
    <1>2. Inductive /\ [Next]_vars => [Promise!Next]_(Promise!vars)
        <2> SUFFICES ASSUME Inductive, [Next]_vars
                     PROVE  [Promise!Next]_(Promise!vars)
            OBVIOUS
        <2>1. CASE UNCHANGED tables
            BY <2>1 DEF tables, Promise!vars
        <2>2. ASSUME NEW p \in Handlers, Commit(p)
              PROVE  Promise!Next
            <3>1. req[p] \in Requests
                BY DEF Inductive, TypeOK
            <3> QED BY <2>2, <3>1, CommitPosts DEF Promise!Next
        <2> QED BY <2>1, <2>2, OnlyCommitsWrite
    <1> QED BY <1>1, <1>2, InductiveInvariant, PTL DEF Spec, Implements, Promise!Spec

\* Every balance is explained by replaying its ledger.
THEOREM LedgerExplains == Spec => []LedgerExplainsBalance
    <1>1. Init => LedgerExplainsBalance
        BY DEF Init, LedgerExplainsBalance, BalanceAfter
    <1>2. ASSUME Inductive, LedgerExplainsBalance, [Next]_vars
          PROVE  LedgerExplainsBalance'
        <2>1. CASE UNCHANGED tables
            BY <1>2, <2>1 DEF tables, LedgerExplainsBalance, BalanceAfter
        <2>2. ASSUME NEW p \in Handlers, Commit(p), NEW w \in Wallets
              PROVE  /\ \A n \in 1..Len(ledger'[w]) :
                           ledger'[w][n].after = BalanceAfter(w, n - 1)' + ledger'[w][n].amount
                     /\ balance'[w] = BalanceAfter(w, Len(ledger[w]))'
            <3>0. /\ ledger[w] \in Seq(Entry)
                  /\ balance[w] = BalanceAfter(w, Len(ledger[w]))
                  /\ \A n \in 1..Len(ledger[w]) :
                        ledger[w][n].after = BalanceAfter(w, n - 1) + ledger[w][n].amount
                BY <1>2 DEF Inductive, TypeOK, LedgerExplainsBalance
            <3>1. CASE w \notin posted[p]
                <4>1. balance'[w] = balance[w] /\ ledger'[w] = ledger[w]
                    BY <2>2, <3>1 DEF Commit
                <4> QED BY <3>0, <4>1 DEF BalanceAfter
            <3>2. CASE w \in posted[p]
                <4> DEFINE e == [key |-> req[p].key, amount |-> Delta(req[p], w),
                                 after |-> NewBalance(p, w)]
                <4>1. balance'[w] = NewBalance(p, w) /\ ledger'[w] = Append(ledger[w], e)
                    BY <2>2, <3>2 DEF Commit
                <4>2. NewBalance(p, w) = balance[w] + Delta(req[p], w)
                    BY <1>2, <2>2, <3>2, CommitFacts
                <4>3. e.amount = Delta(req[p], w) /\ e.after = NewBalance(p, w)
                    OBVIOUS
                <4> HIDE DEF e
                <4>4. /\ Len(ledger'[w]) = Len(ledger[w]) + 1
                      /\ Len(ledger[w]) \in Nat
                      /\ \A n \in 1..Len(ledger[w]) : ledger'[w][n] = ledger[w][n]
                      /\ ledger'[w][Len(ledger[w]) + 1] = e
                    <5>1. e \in Entry
                        BY <1>2, <2>2, <3>2, EntryTyped DEF e
                    <5> QED BY <3>0, <4>1, <5>1
                <4>5. \A n \in 0..Len(ledger[w]) : BalanceAfter(w, n)' = BalanceAfter(w, n)
                    BY <4>4 DEF BalanceAfter
                <4>6. ASSUME NEW n \in 1..Len(ledger'[w])
                      PROVE  ledger'[w][n].after = BalanceAfter(w, n - 1)' + ledger'[w][n].amount
                    <5>1. CASE n \in 1..Len(ledger[w])
                        BY <3>0, <4>4, <4>5, <5>1
                    <5>2. CASE n = Len(ledger[w]) + 1
                        BY <3>0, <4>2, <4>3, <4>4, <4>5, <5>2
                    <5> QED BY <4>4, <5>1, <5>2
                <4>7. balance'[w] = BalanceAfter(w, Len(ledger[w]))'
                    <5>1. Len(ledger[w])' = Len(ledger[w]) + 1
                        BY <4>4
                    <5>2. BalanceAfter(w, Len(ledger[w]))' = e.after
                        BY <4>4 DEF BalanceAfter
                    <5> QED BY <4>1, <4>3, <5>2
                <4> QED BY <4>6, <4>7
            <3> QED BY <3>1, <3>2
        <2>3. ASSUME NEW p \in Handlers, Commit(p)
              PROVE  LedgerExplainsBalance'
            BY <2>2, <2>3 DEF LedgerExplainsBalance
        <2> QED BY <1>2, <2>1, <2>3, OnlyCommitsWrite
    <1> QED BY <1>1, <1>2, InductiveInvariant, PTL DEF Spec

\* The tables only grow, by whole transactions.
THEOREM TablesAppendOnly == Spec => AppendOnly
    <1> DEFINE Grows ==
           /\ transactions \subseteq transactions'
           /\ \A w \in Wallets :
                 \/ ledger'[w] = ledger[w]
                 \/ \E t \in transactions' \ transactions, n \in {balance'[w] - balance[w]} :
                       ledger'[w] = Append(ledger[w],
                          [key |-> t.key, amount |-> n, after |-> balance'[w]])
    <1>1. Inductive /\ [Next]_vars => Grows
        <2> SUFFICES ASSUME Inductive, [Next]_vars PROVE Grows
            OBVIOUS
        <2>1. CASE UNCHANGED tables
            BY <2>1 DEF tables
        <2>2. ASSUME NEW p \in Handlers, Commit(p)
              PROVE  Grows
            <3> DEFINE t == Transaction(req[p])
            <3>1. transactions' = transactions \cup {t}
                BY <2>2 DEF Commit
            <3>2. t.key = req[p].key /\ t \notin transactions
                BY <2>2, CommitFacts
            <3>3. ASSUME NEW w \in Wallets, w \in posted[p]
                  PROVE  ledger'[w] = Append(ledger[w],
                            [key |-> t.key, amount |-> balance'[w] - balance[w],
                             after |-> balance'[w]])
                <4>1. balance'[w] = NewBalance(p, w)
                    BY <2>2, <3>3 DEF Commit
                <4>2. NewBalance(p, w) - balance[w] = Delta(req[p], w)
                    <5>1. balance[w] \in Int /\ Delta(req[p], w) \in Int
                        BY NewBalanceIsInt, MaxBigintAssumption DEF Inductive, TypeOK
                    <5> QED BY <2>2, <3>3, <5>1, CommitFacts
                <4> QED BY <2>2, <3>2, <3>3, <4>1, <4>2 DEF Commit
            <3>4. ASSUME NEW w \in Wallets, w \notin posted[p]
                  PROVE  ledger'[w] = ledger[w]
                BY <2>2, <3>4 DEF Commit
            <3> HIDE DEF t
            <3> QED BY <3>1, <3>2, <3>3, <3>4
        <2> QED BY <2>1, <2>2, OnlyCommitsWrite
    <1> HIDE DEF Grows
    <1>2. Spec => [][Grows]_vars
        BY <1>1, InductiveInvariant, PTL DEF Spec
    <1> QED BY <1>2 DEF AppendOnly, Grows

\* A handler at work has given no answer yet.
NoEarlyReply == \A p \in Handlers : pc[p] # "idle" => reply[p].status = "none"

LEMMA NoEarlyReplyInvariant == Spec => []NoEarlyReply
    <1>1. Init => NoEarlyReply
        BY DEF Init, NoEarlyReply
    <1>2. ASSUME Inductive, NoEarlyReply, [Next]_vars
          PROVE  NoEarlyReply'
        <2>0. /\ pc \in [Handlers -> {"idle", "check", "lock", "insert", "refetch", "post"}]
              /\ reply \in [Handlers -> [status : Statuses, tx : SUBSET TransactionType]]
            BY <1>2 DEF Inductive, TypeOK
        <2>1. CASE UNCHANGED vars
            BY <1>2, <2>1 DEF vars, NoEarlyReply
        <2>2. ASSUME NEW p \in Handlers, NEW r \in Requests, Receive(p, r)
              PROVE  NoEarlyReply'
            BY <1>2, <2>0, <2>2 DEF Receive, NoEarlyReply
        <2>3. ASSUME NEW p \in Handlers, pc'[p] = "idle" \/ reply'[p] = reply[p],
                     pc[p] # "idle",
                     \A q \in Handlers : q # p => pc'[q] = pc[q] /\ reply'[q] = reply[q]
              PROVE  NoEarlyReply'
            BY <1>2, <2>3 DEF NoEarlyReply
        <2>4. ASSUME NEW p \in Handlers, Step(p) \/ Rollback(p)
              PROVE  NoEarlyReply'
            <3>1. ASSUME NEW status, NEW tx, Finish(p, status, tx), pc[p] # "idle"
                  PROVE  NoEarlyReply'
                BY <2>0, <2>3, <3>1 DEF Finish
            <3>2. ASSUME reply' = reply, pc[p] # "idle", NEW next, pc' = [pc EXCEPT ![p] = next]
                  PROVE  NoEarlyReply'
                BY <2>0, <2>3, <3>2
            <3>3. CASE RefuseSameWallet(p) \/ Rollback(p) \/ Refetch(p) \/ Commit(p)
                BY <3>1, <3>3 DEF RefuseSameWallet, Rollback, Refetch, Commit
            <3>4. CASE CheckIdempotencyKey(p) \/ Validate(p)
                BY <3>1, <3>2, <3>4 DEF CheckIdempotencyKey, Validate
            <3>5. CASE InsertTransaction(p)
                BY <3>2, <3>5 DEF InsertTransaction
            <3>6. CASE LockRow(p)
                BY <2>3, <3>6 DEF LockRow
            <3>7. CASE PostLeg(p)
                BY <2>3, <3>1, <3>7 DEF PostLeg
            <3> QED BY <2>4, <3>3, <3>4, <3>5, <3>6, <3>7 DEF Step
        <2> QED BY <1>2, <2>1, <2>2, <2>4 DEF Next
    <1> QED BY <1>1, <1>2, InductiveInvariant, PTL DEF Spec

\* A refusal for lack of funds is true of the committed balance when it is given.
THEOREM RefusalsAreCurrent == Spec => RefusalIsCurrent
    <1> DEFINE Current ==
           \A p \in Handlers :
              (pc[p] # "idle" /\ reply'[p].status = "insufficient_funds") =>
                  balance[req[p].from] < req[p].amount
    <1>1. ASSUME Inductive, NoEarlyReply, [Next]_vars
          PROVE  Current
        <2>0. reply \in [Handlers -> [status : Statuses, tx : SUBSET TransactionType]]
            BY <1>1 DEF Inductive, TypeOK
        <2>1. SUFFICES ASSUME NEW p \in Handlers, pc[p] # "idle",
                              reply'[p].status = "insufficient_funds"
                       PROVE  balance[req[p].from] < req[p].amount
            BY DEF Current
        <2>2. reply'[p] # reply[p]
            BY <1>1, <2>1 DEF NoEarlyReply
        <2>3. ASSUME NEW q \in Handlers, NEW status, NEW tx, Finish(q, status, tx)
              PROVE  q = p /\ status = "insufficient_funds"
            BY <2>0, <2>1, <2>2, <2>3 DEF Finish
        <2>4. PICK q \in Handlers : Validate(q)
            <3>1. reply' # reply
                BY <2>2
            <3>2. ASSUME NEW q \in Handlers, NEW r \in Requests, Receive(q, r)
                  PROVE  FALSE
                BY <2>0, <2>1, <2>2, <3>2 DEF Receive
            <3>3. ASSUME NEW q \in Handlers,
                         RefuseSameWallet(q) \/ CheckIdempotencyKey(q) \/ Refetch(q)
                         \/ PostLeg(q) \/ Commit(q) \/ Rollback(q)
                  PROVE  FALSE
                BY <2>3, <3>1, <3>3 DEF RefuseSameWallet, CheckIdempotencyKey, Refetch,
                                        PostLeg, Commit, Rollback
            <3>4. ASSUME NEW q \in Handlers, LockRow(q) \/ InsertTransaction(q)
                  PROVE  FALSE
                BY <3>1, <3>4 DEF LockRow, InsertTransaction
            <3> QED BY <1>1, <3>1, <3>2, <3>3, <3>4 DEF Next, Step, vars
        <2>5. /\ Finish(q, Refusal(req[q], read[q]), {})
              /\ Missing(q) = {}
            BY <2>2, <2>4 DEF Validate
        <2>6. q = p /\ Refusal(req[p], read[p]) = "insufficient_funds"
            BY <2>3, <2>5
        <2>7. /\ Named(req[p]) = Rows(req[p])
              /\ req[p].from # NoWallet
              /\ read[p][req[p].from] < req[p].amount
            BY <2>6 DEF Refusal
        <2>8. req[p].from \in Rows(req[p])
            BY <2>7 DEF Named
        <2>9. req[p].from \in Wallets /\ lockedBy[req[p].from] = p
            BY <2>5, <2>6, <2>8 DEF Missing, Rows
        <2>10. read[p][req[p].from] = balance[req[p].from]
            BY <1>1, <2>9 DEF Inductive, ReadIsCurrent
        <2> QED BY <2>7, <2>10
    <1> HIDE DEF Current
    <1>2. Spec => [][Current]_vars
        BY <1>1, InductiveInvariant, NoEarlyReplyInvariant, PTL DEF Spec
    <1> QED BY <1>2 DEF RefusalIsCurrent, Current

-----------------------------------------------------------------------------
(* No deadlock *)

\* A set of numbers that has an upper bound has a largest member.
LEMMA LargestMember ==
    ASSUME NEW bound \in Nat, NEW S, S \subseteq 0..bound, S # {}
    PROVE  \E m \in S : \A n \in S : n <= m
    <1> DEFINE T == {bound - n : n \in S}
    <1>1. T \subseteq Nat /\ T # {}
        <2>1. \A n \in S : bound - n \in Nat
            OBVIOUS
        <2> QED BY <2>1
    <1>2. PICK x \in T : \A y \in T : ~(<<y, x>> \in OpToRel(<, Nat))
        BY <1>1, NatLessThanWellFounded, WFMin
    <1>3. \A y \in T : ~(y < x)
        BY <1>1, <1>2 DEF OpToRel
    <1>4. PICK m \in S : x = bound - m
        BY <1>2
    <1>5. \A n \in S : n <= m
        BY <1>3, <1>4
    <1> QED BY <1>5

\* A handler that waits for a row of a handler that itself waits for a row waits
\* for a smaller one.
LEMMA WaitsAscend ==
    ASSUME Inductive, NEW p \in Handlers, NEW q \in Handlers,
           pc[p] = "lock", Missing(p) # {}, lockedBy[NextRow(p)] = q,
           pc[q] = "lock", Missing(q) # {}
    PROVE  NextRow(p) < NextRow(q)
    <1>1. ASSUME NEW h \in Handlers, Missing(h) # {}
          PROVE  NextRow(h) \in Missing(h)
        BY <1>1, NextRowIsLeast DEF Inductive
    <1>2. NextRow(p) \in Wallets
        BY <1>1 DEF Missing, Rows
    <1>3. NextRow(p) \in Rows(req[q])
        BY <1>2 DEF Inductive, LocksFollowCode
    <1>4. NextRow(q) \in Rows(req[q]) /\ lockedBy[NextRow(q)] # q
        BY <1>1 DEF Missing
    <1> QED BY <1>3, <1>4 DEF Inductive, LocksAscend

\* No set of handlers wait only on each other.
THEOREM DeadlockFreedom == Spec => []NoDeadlock
    <1>1. Inductive => NoDeadlock
        <2> SUFFICES ASSUME Inductive,
                            NEW waiting \in (SUBSET Handlers) \ {{}},
                            \A p \in waiting : \E q \in waiting : WaitsFor(p, q)
                     PROVE  FALSE
            BY DEF NoDeadlock
        <2>1. ASSUME NEW p \in waiting
              PROVE  pc[p] = "lock" /\ Missing(p) # {} /\ lockedBy[NextRow(p)] \in waiting
            <3>1. \A q \in waiting : pc[q] # "post"
                BY DEF WaitsFor
            <3> QED BY <2>1, <3>1 DEF WaitsFor, HoldsKey
        <2> DEFINE S == {NextRow(p) : p \in waiting}
        <2>2. MaxUuid \in Nat /\ \A w \in Wallets : w \in 0..MaxUuid
            BY WalletsAssumption
        <2>3. S \subseteq 0..MaxUuid
            <3>1. ASSUME NEW p \in waiting
                  PROVE  NextRow(p) \in Wallets
                BY <2>1, <3>1, NextRowIsLeast DEF Missing, Rows
            <3>2. ASSUME NEW p \in waiting
                  PROVE  NextRow(p) \in 0..MaxUuid
                <4> DEFINE w == NextRow(p)
                <4>1. w \in Wallets
                    BY <3>1
                <4> HIDE DEF w
                <4>2. w \in 0..MaxUuid
                    BY <2>2, <4>1
                <4> QED BY <4>2 DEF w
            <3> QED BY <3>2, Zenon
        <2>4. PICK m \in S : \A n \in S : n <= m
            <3>1. S # {}
                <4>1. PICK p \in waiting : TRUE
                    OBVIOUS
                <4>2. NextRow(p) \in S
                    BY <4>1
                <4> QED BY <4>2
            <3> HIDE DEF S
            <3> QED BY <2>2, <2>3, <3>1, LargestMember
        <2>5. PICK p \in waiting : m = NextRow(p)
            BY <2>4
        <2>6. PICK q \in waiting : q = lockedBy[NextRow(p)]
            BY <2>1
        <2>7. NextRow(p) < NextRow(q)
            BY <2>1, <2>6, WaitsAscend
        <2>8. NextRow(q) <= NextRow(p)
            BY <2>4, <2>5
        <2>9. NextRow(p) \in 0..MaxUuid /\ NextRow(q) \in 0..MaxUuid
            <3>1. NextRow(p) \in S /\ NextRow(q) \in S
                OBVIOUS
            <3> HIDE DEF S
            <3> QED BY <2>3, <3>1
        <2>10. \A a, b \in 0..MaxUuid : ~(a < b /\ b <= a)
            BY <2>2
        <2> QED BY <2>7, <2>8, <2>9, <2>10, Zenon
    <1> QED BY <1>1, InductiveInvariant, PTL

-----------------------------------------------------------------------------
(* Debit and credit *)

\* EntriesOf, for any ledger.
Entries(L, k) ==
    UNION {{[wallet |-> w, amount |-> L[w][n].amount, at |-> n] :
               n \in {m \in DOMAIN L[w] : L[w][m].key = k}} : w \in Wallets}

\* The entries of a request, one in each of its wallets, at these positions.
Legs(r, at) == {[wallet |-> w, amount |-> Delta(r, w), at |-> at[w]] : w \in Named(r)}

\* What the checks have established of a committed request.
Admitted(r) ==
    /\ r.from # r.to
    /\ Named(r) \subseteq Wallets
    /\ \A v, w \in Named(r) : Currency[v] = Currency[w]

\* Every entry has its transaction, every transaction its request and the legs
\* of that request, each once.
LedgerIsPosted ==
    /\ \A w \in Wallets : \A n \in DOMAIN ledger[w] : Fetch(ledger[w][n].key) # {}
    /\ \A t \in transactions :
          \E r \in Requests :
              /\ t = Transaction(r)
              /\ Admitted(r)
              /\ \E at \in [Named(r) -> Nat] : EntriesOf(t.key) = Legs(r, at)

\* The ledgers L with the entries E appended in the wallets S, and these entries.
Extended(L, S, E) == [w \in Wallets |-> IF w \in S THEN Append(L[w], E[w]) ELSE L[w]]
NewEntries(L, S, E) ==
    {[wallet |-> w, amount |-> E[w].amount, at |-> Len(L[w]) + 1] : w \in S}

\* E are entries of key j for the wallets S of the ledgers L.
Postable(L, S, E, j) ==
    /\ L \in [Wallets -> Seq(Entry)]
    /\ S \in SUBSET Wallets
    /\ E \in [S -> Entry]
    /\ \A w \in S : E[w].key = j

\* What an element of Entries is.
LEMMA EntryMembers ==
    ASSUME NEW L, NEW k, NEW e
    PROVE  e \in Entries(L, k) <=>
              \E w \in Wallets : \E n \in DOMAIN L[w] :
                  L[w][n].key = k /\ e = [wallet |-> w, amount |-> L[w][n].amount, at |-> n]
    BY DEF Entries

\* Appending an entry of key j to some ledgers adds it to the entries of j and
\* leaves those of other keys alone.
LEMMA AppendedEntries ==
    ASSUME NEW L, NEW S, NEW E, NEW j, NEW k, Postable(L, S, E, j)
    PROVE  /\ k = j => Entries(Extended(L, S, E), k) = Entries(L, k) \cup NewEntries(L, S, E)
           /\ k # j => Entries(Extended(L, S, E), k) = Entries(L, k)
    <1> DEFINE M == Extended(L, S, E)
               New == NewEntries(L, S, E)
    <1> USE DEF Postable
    <1>1. \A w \in Wallets : L[w] \in Seq(Entry) /\ Len(L[w]) \in Nat /\ DOMAIN L[w] = 1..Len(L[w])
        OBVIOUS
    <1>2. \A w \in Wallets \ S : M[w] = L[w]
        BY DEF Extended
    <1>3. ASSUME NEW w \in S
          PROVE  /\ DOMAIN M[w] = DOMAIN L[w] \cup {Len(L[w]) + 1}
                 /\ \A n \in DOMAIN L[w] : M[w][n] = L[w][n]
                 /\ M[w][Len(L[w]) + 1] = E[w]
        <2>1. M[w] = Append(L[w], E[w]) /\ E[w] \in Entry /\ w \in Wallets
            BY DEF Extended
        <2>2. /\ Len(M[w]) = Len(L[w]) + 1 /\ DOMAIN M[w] = 1..Len(M[w])
              /\ \A n \in 1..Len(L[w]) : M[w][n] = L[w][n]
              /\ M[w][Len(L[w]) + 1] = E[w]
            BY <1>1, <2>1
        <2> QED BY <1>1, <2>1, <2>2
    <1>4. ASSUME NEW e \in Entries(M, k)
          PROVE  e \in Entries(L, k) \/ (k = j /\ e \in New)
        <2>0. PICK w \in Wallets : \E n \in DOMAIN M[w] :
                  M[w][n].key = k /\ e = [wallet |-> w, amount |-> M[w][n].amount, at |-> n]
            BY <1>4, EntryMembers
        <2>1. PICK n \in DOMAIN M[w] :
                  M[w][n].key = k /\ e = [wallet |-> w, amount |-> M[w][n].amount, at |-> n]
            BY <2>0
        <2>2. CASE w \notin S \/ n \in DOMAIN L[w]
            <3>1. n \in DOMAIN L[w] /\ M[w][n] = L[w][n]
                BY <1>2, <1>3, <2>1, <2>2
            <3> QED BY <2>1, <3>1, EntryMembers
        <2>3. CASE w \in S /\ n \notin DOMAIN L[w]
            <3>1. n = Len(L[w]) + 1 /\ M[w][n] = E[w]
                BY <1>3, <2>1, <2>3
            <3> QED BY <2>1, <2>3, <3>1 DEF NewEntries
        <2> QED BY <2>2, <2>3
    <1>5. ASSUME NEW e \in Entries(L, k)
          PROVE  e \in Entries(M, k)
        <2>0. PICK w \in Wallets : \E n \in DOMAIN L[w] :
                  L[w][n].key = k /\ e = [wallet |-> w, amount |-> L[w][n].amount, at |-> n]
            BY <1>5, EntryMembers
        <2>1. PICK n \in DOMAIN L[w] :
                  L[w][n].key = k /\ e = [wallet |-> w, amount |-> L[w][n].amount, at |-> n]
            BY <2>0
        <2>2. n \in DOMAIN M[w] /\ M[w][n] = L[w][n]
            BY <1>2, <1>3, <2>1
        <2> QED BY <2>1, <2>2, EntryMembers
    <1>6. ASSUME k = j, NEW e \in New
          PROVE  e \in Entries(M, k)
        <2>1. PICK w \in S : e = [wallet |-> w, amount |-> E[w].amount, at |-> Len(L[w]) + 1]
            BY <1>6 DEF NewEntries
        <2>2. Len(L[w]) + 1 \in DOMAIN M[w] /\ M[w][Len(L[w]) + 1] = E[w] /\ w \in Wallets
            BY <1>3
        <2>3. M[w][Len(L[w]) + 1].key = k
            BY <1>6, <2>2
        <2> QED BY <2>1, <2>2, <2>3, EntryMembers
    <1> HIDE DEF New, M
    <1>7. /\ k = j => Entries(M, k) = Entries(L, k) \cup New
          /\ k # j => Entries(M, k) = Entries(L, k)
        BY <1>4, <1>5, <1>6
    <1> QED BY <1>7 DEF New, M

\* The legs of a request are what DoubleEntry asks of its type.
LEMMA LegsBalance ==
    ASSUME NEW r \in Requests, Admitted(r), NEW at \in [Named(r) -> Nat], NEW es,
           es = Legs(r, at)
    PROVE  LET t == Transaction(r)
               moved == IF t.type = "withdrawal" THEN -t.amount ELSE t.amount
           IN  /\ \A e, f \in es : e.wallet = f.wallet => e = f
               /\ \A e \in es : Currency[e.wallet] = t.currency
               /\ \E e \in es : e.amount = moved
               /\ t.type = "transfer" =>
                     /\ Cardinality(es) = 2
                     /\ {e.amount : e \in es} = {t.amount, -t.amount}
                     /\ {e.wallet : e \in es} = t.metadata
    <1> DEFINE leg(w) == [wallet |-> w, amount |-> Delta(r, w), at |-> at[w]]
               t == Transaction(r)
               moved == IF t.type = "withdrawal" THEN -t.amount ELSE t.amount
    <1>1. /\ r \in RequestType /\ r.op \in Ops /\ r.amount \in Nat
          /\ r.op = "deposit" => r.from = NoWallet /\ r.to # NoWallet
          /\ r.op = "withdrawal" => r.to = NoWallet /\ r.from # NoWallet
          /\ r.op = "transfer" => r.from # NoWallet /\ r.to # NoWallet
        BY RequestFacts DEF RequestType
    <1>2. t.type = r.op /\ t.amount = r.amount /\ t.currency = Currency[Guarded(r)]
        BY DEF Transaction
    <1>3. \A w \in Named(r) : leg(w).wallet = w /\ leg(w).amount = Delta(r, w)
        OBVIOUS
    <1>4. es = {leg(w) : w \in Named(r)}
        BY DEF Legs
    <1>5. \A e \in es : Currency[e.wallet] = t.currency
        <2>1. Guarded(r) \in Named(r)
            BY <1>1 DEF Guarded, Named, Ops
        <2> QED BY <1>2, <1>3, <1>4, <2>1 DEF Admitted
    <1> HIDE DEF leg
    <1>6. \A e, f \in es : e.wallet = f.wallet => e = f
        BY <1>3, <1>4
    <1>7. \E e \in es : e.amount = moved
        <2>1. CASE r.op \in {"deposit", "transfer"}
            <3>1. r.to \in Named(r) /\ Delta(r, r.to) = r.amount
                BY <1>1, <2>1 DEF Named, Delta, Admitted
            <3> QED BY <1>2, <1>3, <1>4, <2>1, <3>1
        <2>2. CASE r.op = "withdrawal"
            <3>1. r.from \in Named(r) /\ Delta(r, r.from) = -r.amount
                BY <1>1, <2>2 DEF Named, Delta
            <3> QED BY <1>2, <1>3, <1>4, <2>2, <3>1
        <2> QED BY <1>1, <2>1, <2>2 DEF Ops
    <1>8. ASSUME r.op = "transfer"
          PROVE  /\ Cardinality(es) = 2
                 /\ {e.amount : e \in es} = {t.amount, -t.amount}
                 /\ {e.wallet : e \in es} = t.metadata
        <2>1. /\ Named(r) = {r.from, r.to} /\ r.from # r.to
              /\ Delta(r, r.from) = -r.amount /\ Delta(r, r.to) = r.amount
            BY <1>1, <1>8 DEF Named, Delta, Admitted
        <2>2. /\ leg(r.from).wallet = r.from /\ leg(r.from).amount = -r.amount
              /\ leg(r.to).wallet = r.to /\ leg(r.to).amount = r.amount
            BY <1>3, <2>1
        <2>3. es = {leg(r.from), leg(r.to)}
            BY <1>4, <2>1
        <2>4. /\ {e.amount : e \in es} = {r.amount, -r.amount}
              /\ {e.wallet : e \in es} = {r.from, r.to}
            BY <2>2, <2>3
        <2>5. Cardinality(es) = 2
            <3>1. leg(r.to) \notin {leg(r.from)}
                BY <2>1, <2>2
            <3>2. es = {leg(r.from)} \cup {leg(r.to)}
                BY <2>3
            <3>3. IsFiniteSet({leg(r.from)}) /\ Cardinality({leg(r.from)}) = 1
                BY FS_Singleton
            <3> QED BY <3>1, <3>2, <3>3, FS_AddElement
        <2>6. t.metadata = {r.from, r.to}
            BY <1>8 DEF Transaction
        <2> QED BY <1>2, <2>4, <2>5, <2>6
    <1> QED BY <1>2, <1>5, <1>6, <1>7, <1>8

\* A commit adds the legs of its request under a key that had no entry.
LEMMA CommitPostsLegs ==
    ASSUME Inductive, LedgerIsPosted, NEW p \in Handlers, Commit(p)
    PROVE  LedgerIsPosted'
    <1>1. PICK r \in Requests : r = req[p]
        BY DEF Inductive, TypeOK
    <1>2. PICK S \in SUBSET Wallets : S = posted[p]
        BY DEF Inductive, TypeOK
    <1>3. Refusal(r, read[p]) = "none" /\ r.from # r.to
        BY <1>1 DEF Commit, Inductive, ChecksHold
    <1>4. Admitted(r)
        BY <1>3, PassedChecks DEF Admitted
    <1>5. S = Named(r)
        BY <1>1, <1>2, CommitFacts
    <1> DEFINE E == [w \in S |-> [key |-> r.key, amount |-> Delta(r, w), after |-> NewBalance(p, w)]]
               at == [w \in Named(r) |-> Len(ledger[w]) + 1]
    <1>6. E \in [S -> Entry] /\ \A w \in S : E[w].key = r.key /\ E[w].amount = Delta(r, w)
        BY <1>1, <1>2, EntryTyped
    <1>7. ledger \in [Wallets -> Seq(Entry)]
        BY DEF Inductive, TypeOK
    <1>8. ledger' = [w \in Wallets |-> IF w \in S THEN Append(ledger[w], E[w]) ELSE ledger[w]]
        BY <1>1, <1>2 DEF Commit
    <1>9. transactions' = transactions \cup {Transaction(r)} /\ Transaction(r).key = r.key
        BY <1>1 DEF Commit, Transaction
    <1>10. \A t \in transactions : t.key # r.key
        BY <1>1, CommitFacts
    <1>11. at \in [Named(r) -> Nat]
        BY <1>4, <1>7 DEF Admitted
    <1>12. Entries(ledger, r.key) = {}
        <2> SUFFICES ASSUME NEW e \in Entries(ledger, r.key)
                     PROVE  FALSE
            OBVIOUS
        <2>1. PICK w \in Wallets : \E n \in DOMAIN ledger[w] : ledger[w][n].key = r.key
            BY EntryMembers
        <2> QED BY <1>10, <2>1 DEF LedgerIsPosted, Fetch
    <1> HIDE DEF E
    <1>13. ASSUME NEW k
           PROVE  /\ k = r.key => Entries(ledger', k) = Entries(ledger, k) \cup NewEntries(ledger, S, E)
                  /\ k # r.key => Entries(ledger', k) = Entries(ledger, k)
        <2>1. PICK L : L = ledger
            OBVIOUS
        <2>2. PICK F : F = E
            OBVIOUS
        <2>3. PICK j : j = r.key
            OBVIOUS
        <2>4. Postable(L, S, F, j)
            BY <1>6, <1>7, <2>1, <2>2, <2>3 DEF Postable
        <2>5. /\ k = j => Entries(Extended(L, S, F), k) = Entries(L, k) \cup NewEntries(L, S, F)
              /\ k # j => Entries(Extended(L, S, F), k) = Entries(L, k)
            BY <2>4, AppendedEntries
        <2>6. ledger' = Extended(L, S, F)
            BY <1>8, <2>1, <2>2 DEF Extended
        <2> QED BY <2>1, <2>2, <2>3, <2>5, <2>6
    <1>14. Entries(ledger', r.key) = Legs(r, at)
        <2>1. NewEntries(ledger, S, E) = Legs(r, at)
            BY <1>5, <1>6 DEF NewEntries, Legs
        <2> QED BY <1>12, <1>13, <2>1
    <1>15. \A k : k # r.key => Entries(ledger', k) = Entries(ledger, k)
        BY <1>13
    <1>16. \A k : EntriesOf(k)' = Entries(ledger', k) /\ EntriesOf(k) = Entries(ledger, k)
        BY DEF EntriesOf, Entries
    <1> HIDE DEF at
    <1>17. ASSUME NEW t \in transactions'
           PROVE  \E q \in Requests :
                      /\ t = Transaction(q)
                      /\ Admitted(q)
                      /\ \E a \in [Named(q) -> Nat] : Entries(ledger', t.key) = Legs(q, a)
        <2>1. CASE t \in transactions
            <3>1. PICK q \in Requests :
                      /\ t = Transaction(q)
                      /\ Admitted(q)
                      /\ \E a \in [Named(q) -> Nat] : EntriesOf(t.key) = Legs(q, a)
                BY <2>1 DEF LedgerIsPosted
            <3>2. Entries(ledger', t.key) = EntriesOf(t.key)
                BY <1>10, <1>15, <1>16, <2>1
            <3> QED BY <3>1, <3>2
        <2>2. CASE t = Transaction(r)
            BY <1>4, <1>9, <1>11, <1>14, <2>2
        <2> QED BY <1>9, <2>1, <2>2
    <1>18. ASSUME NEW w \in Wallets, NEW n \in DOMAIN ledger'[w]
           PROVE  \E t \in transactions' : t.key = ledger'[w][n].key
        <2>1. [wallet |-> w, amount |-> ledger'[w][n].amount, at |-> n]
                 \in Entries(ledger', ledger'[w][n].key)
            BY EntryMembers
        <2>2. CASE ledger'[w][n].key = r.key
            BY <1>9, <2>2
        <2>3. CASE ledger'[w][n].key # r.key
            <3>1. PICK e : e \in Entries(ledger, ledger'[w][n].key)
                BY <1>15, <2>1, <2>3
            <3>2. PICK v \in Wallets : \E m \in DOMAIN ledger[v] :
                      ledger[v][m].key = ledger'[w][n].key
                BY <3>1, EntryMembers
            <3>3. Fetch(ledger'[w][n].key) # {}
                BY <3>2 DEF LedgerIsPosted
            <3> QED BY <1>9, <3>3 DEF Fetch
        <2> QED BY <2>2, <2>3
    <1>19. \A w \in Wallets : \A n \in DOMAIN ledger'[w] : Fetch(ledger[w][n].key)' # {}
        BY <1>18 DEF Fetch
    <1>20. \A t \in transactions' :
              \E q \in Requests :
                  /\ t = Transaction(q)
                  /\ Admitted(q)
                  /\ \E a \in [Named(q) -> Nat] : EntriesOf(t.key)' = Legs(q, a)
        BY <1>16, <1>17
    <1> QED BY <1>19, <1>20 DEF LedgerIsPosted

\* Every entry has its transaction, and every committed transaction the entries its
\* type needs, none of them twice.
THEOREM EveryPostingIsDouble == Spec => []DoubleEntry
    <1>1. Init => LedgerIsPosted
        BY DEF Init, LedgerIsPosted
    <1>2. ASSUME Inductive, LedgerIsPosted, [Next]_vars
          PROVE  LedgerIsPosted'
        <2>1. CASE UNCHANGED tables
            <3>1. ledger' = ledger /\ transactions' = transactions
                BY <2>1 DEF tables
            <3>2. \A k : EntriesOf(k)' = EntriesOf(k)
                BY <3>1 DEF EntriesOf
            <3>3. \A t \in transactions' :
                      \E r \in Requests :
                          /\ t = Transaction(r)
                          /\ Admitted(r)
                          /\ \E at \in [Named(r) -> Nat] : EntriesOf(t.key)' = Legs(r, at)
                BY <1>2, <3>1, <3>2 DEF LedgerIsPosted
            <3>4. \A w \in Wallets : \A n \in DOMAIN ledger'[w] : Fetch(ledger[w][n].key)' # {}
                BY <1>2, <3>1 DEF LedgerIsPosted, Fetch
            <3> QED BY <3>3, <3>4 DEF LedgerIsPosted
        <2>2. CASE \E p \in Handlers : Commit(p)
            <3>1. PICK p \in Handlers : Commit(p)
                BY <2>2
            <3> QED BY <1>2, <3>1, CommitPostsLegs
        <2> QED BY <1>2, <2>1, <2>2, OnlyCommitsWrite
    <1>3. LedgerIsPosted => DoubleEntry
        <2> SUFFICES ASSUME LedgerIsPosted
                     PROVE  DoubleEntry
            OBVIOUS
        <2>1. ASSUME NEW t \in transactions
              PROVE  LET entries == EntriesOf(t.key)
                         moved == IF t.type = "withdrawal" THEN -t.amount ELSE t.amount
                     IN  /\ \A e, f \in entries : e.wallet = f.wallet => e = f
                         /\ \A e \in entries : Currency[e.wallet] = t.currency
                         /\ \E e \in entries : e.amount = moved
                         /\ t.type = "transfer" =>
                               /\ Cardinality(entries) = 2
                               /\ {e.amount : e \in entries} = {t.amount, -t.amount}
                               /\ {e.wallet : e \in entries} = t.metadata
            <3>1. PICK r \in Requests :
                      /\ t = Transaction(r)
                      /\ Admitted(r)
                      /\ \E at \in [Named(r) -> Nat] : EntriesOf(t.key) = Legs(r, at)
                BY DEF LedgerIsPosted
            <3>2. PICK at \in [Named(r) -> Nat] : EntriesOf(t.key) = Legs(r, at)
                BY <3>1
            <3> QED BY <3>1, <3>2, LegsBalance
        <2> QED BY <2>1 DEF LedgerIsPosted, DoubleEntry
    <1> QED BY <1>1, <1>2, <1>3, InductiveInvariant, PTL DEF Spec

=============================================================================
