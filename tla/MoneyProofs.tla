---------------------------- MODULE MoneyProofs ----------------------------
(***************************************************************************)
(* The two invariants of FiatLedger that add up a whole table: each        *)
(* wallet's balance is the sum of its ledger, and no currency gains or     *)
(* loses money.  They hold for every set of handlers, wallets and requests *)
(* that the assumptions of FiatLedger allow.                               *)
(***************************************************************************)
EXTENDS FiatLedgerProofs, SumTheorems

-----------------------------------------------------------------------------
(* Reconciliation *)

\* The sum of a wallet's entries is its balance after the last one.
LEMMA EntriesAddUp ==
    ASSUME TypeOK, LedgerExplainsBalance, NEW w \in Wallets
    PROVE  balance[w] = SumForWallet(w)
    <1> DEFINE L == ledger[w]
               N == Len(L)
               amount == [n \in DOMAIN L |-> L[n].amount]
               total == [n \in 0..N |-> BalanceAfter(w, n)]
    <1>1. L \in Seq(Entry) /\ N \in Nat /\ DOMAIN L = 1..N
        BY DEF TypeOK
    <1>2. \A n \in 1..N : L[n] \in Entry
        BY <1>1
    <1>3. \A n \in 1..N : L[n].amount \in Int /\ L[n].after \in Int
        BY <1>2, MaxBigintAssumption DEF Entry
    <1>4. \A n \in 1..N : amount[n] \in Int
        BY <1>1, <1>3
    <1>5. \A n \in 0..N : total[n] \in Int
        BY <1>1, <1>3 DEF BalanceAfter
    <1>6. total[0] = 0
        BY <1>1 DEF BalanceAfter
    <1>7. \A n \in 1..N : total[n] = total[n - 1] + amount[n]
        <2> SUFFICES ASSUME NEW n \in 1..N
                     PROVE  total[n] = total[n - 1] + amount[n]
            OBVIOUS
        <2>1. L[n].after = BalanceAfter(w, n - 1) + L[n].amount
            BY DEF LedgerExplainsBalance
        <2>2. total[n] = L[n].after /\ total[n - 1] = BalanceAfter(w, n - 1)
            BY <1>1 DEF BalanceAfter
        <2>3. amount[n] = L[n].amount
            BY <1>1
        <2> QED BY <2>1, <2>2, <2>3
    <1>8. total[N] = balance[w]
        BY <1>1 DEF LedgerExplainsBalance
    <1>9. DOMAIN amount = 1..N
        BY <1>1
    <1>10. SumForWallet(w) = SumFunctionOnSet(amount, DOMAIN amount)
        BY DEF SumForWallet, SumFunction
    <1> HIDE DEF amount, total, N
    <1>11. SumFunctionOnSet(amount, 1..N) = total[N]
        BY <1>1, <1>4, <1>5, <1>6, <1>7, SumTelescopes
    <1> QED BY <1>8, <1>9, <1>10, <1>11

\* The reconciliation job never finds a wallet whose cached balance differs from
\* the sum of its ledger entries.
THEOREM WalletsReconcile == Spec => []Reconciled
    <1>1. TypeOK /\ LedgerExplainsBalance => Reconciled
        BY EntriesAddUp DEF Reconciled
    <1> QED BY <1>1, TypeCorrectness, LedgerExplains, PTL

-----------------------------------------------------------------------------
(* Conservation of money *)

\* The wallets of a currency.
Purse(c) == {w \in Wallets : Currency[w] = c}

\* What a request adds to the money held in a currency, type by type.
Brought(r, type, c) ==
    IF r.op = type /\ Currency[Guarded(r)] = c THEN r.amount ELSE 0

\* N are the balances B after the request r was posted.
Posts(r, B, N) ==
    /\ B \in [Wallets -> Int]
    /\ N \in [Wallets -> Int]
    /\ \A w \in Named(r) : N[w] = B[w] + Delta(r, w)
    /\ \A w \in Wallets \ Named(r) : N[w] = B[w]

\* There are finitely many wallets: their ids are UUIDs.
LEMMA PursesAreFinite ==
    ASSUME NEW c
    PROVE  IsFiniteSet(Purse(c)) /\ Purse(c) \subseteq Wallets
    <1>1. IsFiniteSet(1..MaxUuid)
        BY WalletsAssumption, FS_Interval
    <1>2. Purse(c) \in SUBSET (1..MaxUuid)
        BY WalletsAssumption DEF Purse
    <1> QED BY <1>1, <1>2, FS_Subset DEF Purse

\* Posting a deposit adds its amount to its currency, a withdrawal takes it, a
\* transfer leaves the total as it is; other currencies are not touched.
LEMMA PostingMovesMoney ==
    ASSUME NEW r \in Requests, Admitted(r), NEW B, NEW N, Posts(r, B, N), NEW c
    PROVE  SumFunctionOnSet(N, Purse(c)) =
              SumFunctionOnSet(B, Purse(c)) + Brought(r, "deposit", c) - Brought(r, "withdrawal", c)
    <1> DEFINE cur == Currency[Guarded(r)]
    <1>1. /\ r \in RequestType /\ r.op \in Ops /\ r.amount \in Nat
          /\ r.op = "deposit" => r.from = NoWallet /\ r.to # NoWallet
          /\ r.op = "withdrawal" => r.to = NoWallet /\ r.from # NoWallet
          /\ r.op = "transfer" => r.from # NoWallet /\ r.to # NoWallet
        BY RequestFacts DEF RequestType
    <1>2. Guarded(r) \in Named(r) /\ Named(r) \subseteq Wallets /\ r.from # r.to
        BY <1>1 DEF Guarded, Named, Ops, Admitted
    <1>3. \A w \in Named(r) : Currency[w] = cur
        BY <1>2 DEF Admitted
    <1>4. PICK S : S = Purse(c)
        OBVIOUS
    <1>5. IsFiniteSet(S) /\ S \subseteq Wallets
        BY <1>4, PursesAreFinite
    <1>6. \A w \in Wallets : B[w] \in Int /\ N[w] \in Int
        BY DEF Posts
    <1>7. SumFunctionOnSet(B, S) \in Int
        BY <1>5, <1>6, SumIsInt
    <1>8. \A w \in Named(r) : N[w] - B[w] = Delta(r, w) /\ Delta(r, w) \in Int
        BY <1>1, <1>2, <1>6 DEF Posts, Delta
    <1>9. CASE cur # c
        <2>1. \A w \in S : B[w] \in Int /\ N[w] = B[w]
            BY <1>3, <1>4, <1>5, <1>6, <1>9 DEF Posts, Purse
        <2>2. SumFunctionOnSet(N, S) = SumFunctionOnSet(B, S)
            BY <1>5, <2>1, SumAgrees
        <2>3. Brought(r, "deposit", c) = 0 /\ Brought(r, "withdrawal", c) = 0
            BY <1>9 DEF Brought
        <2> QED BY <1>4, <1>7, <2>2, <2>3
    <1>10. CASE cur = c
        <2>0. Named(r) \subseteq S
            BY <1>2, <1>3, <1>4, <1>10 DEF Purse
        <2>1. ASSUME NEW y \in S, Named(r) = {y}
              PROVE  SumFunctionOnSet(N, S) = SumFunctionOnSet(B, S) + Delta(r, y)
            <3>1. \A x \in S \ {y} : N[x] = B[x]
                BY <1>5, <2>1 DEF Posts
            <3>2. SumFunctionOnSet(N, S) = SumFunctionOnSet(B, S) + N[y] - B[y]
                BY <1>5, <1>6, <3>1, SumChanged
            <3>3. N[y] = B[y] + Delta(r, y) /\ N[y] \in Int /\ B[y] \in Int /\ Delta(r, y) \in Int
                BY <1>5, <1>6, <1>8, <2>1 DEF Posts
            <3> QED BY <1>7, <3>2, <3>3
        <2>2. CASE r.op = "deposit"
            <3>1. Named(r) = {r.to} /\ r.to \in S /\ Delta(r, r.to) = r.amount
                BY <1>1, <1>2, <2>0, <2>2 DEF Named, Delta
            <3>2. Brought(r, "deposit", c) = r.amount /\ Brought(r, "withdrawal", c) = 0
                BY <1>10, <2>2 DEF Brought
            <3>3. SumFunctionOnSet(N, S) = SumFunctionOnSet(B, S) + r.amount
                BY <2>1, <3>1
            <3> QED BY <1>1, <1>4, <1>7, <3>2, <3>3
        <2>3. CASE r.op = "withdrawal"
            <3>1. Named(r) = {r.from} /\ r.from \in S /\ Delta(r, r.from) = -r.amount
                BY <1>1, <1>2, <2>0, <2>3 DEF Named, Delta
            <3>2. Brought(r, "deposit", c) = 0 /\ Brought(r, "withdrawal", c) = r.amount
                BY <1>10, <2>3 DEF Brought
            <3>3. SumFunctionOnSet(N, S) = SumFunctionOnSet(B, S) + (-r.amount)
                BY <2>1, <3>1
            <3> QED BY <1>1, <1>4, <1>7, <3>2, <3>3
        <2>4. CASE r.op = "transfer"
            <3>1. /\ Named(r) = {r.from, r.to} /\ r.from \in S /\ r.to \in S
                  /\ Delta(r, r.from) = -r.amount /\ Delta(r, r.to) = r.amount
                BY <1>1, <1>2, <2>0, <2>4 DEF Named, Delta
            <3>2. Brought(r, "deposit", c) = 0 /\ Brought(r, "withdrawal", c) = 0
                BY <2>4 DEF Brought
            <3>3. PICK M : M = [B EXCEPT ![r.from] = N[r.from]]
                OBVIOUS
            <3>4. /\ M \in [Wallets -> Int]
                  /\ M[r.from] = N[r.from] /\ M[r.to] = B[r.to]
                  /\ \A x \in S \ {r.from} : M[x] = B[x]
                  /\ \A x \in S \ {r.to} : N[x] = M[x]
                BY <1>2, <1>5, <3>1, <3>3 DEF Posts
            <3>5. \A x \in S : M[x] \in Int /\ B[x] \in Int /\ N[x] \in Int
                BY <1>5, <1>6, <3>4
            <3>6. SumFunctionOnSet(M, S) = SumFunctionOnSet(B, S) + M[r.from] - B[r.from]
                BY <1>5, <3>1, <3>4, <3>5, SumChanged
            <3>7. SumFunctionOnSet(N, S) = SumFunctionOnSet(M, S) + N[r.to] - M[r.to]
                BY <1>5, <3>1, <3>4, <3>5, SumChanged
            <3>8. /\ N[r.from] = B[r.from] + (-r.amount)
                  /\ N[r.to] = B[r.to] + r.amount
                BY <3>1 DEF Posts
            <3>9. B[r.from] \in Int /\ B[r.to] \in Int
                BY <3>1, <3>5
            <3>10. SumFunctionOnSet(N, S) = SumFunctionOnSet(B, S)
                BY <1>1, <1>7, <3>4, <3>6, <3>7, <3>8, <3>9
            <3> QED BY <1>4, <1>7, <3>2, <3>10
        <2> QED BY <1>1, <2>2, <2>3, <2>4 DEF Ops
    <1> QED BY <1>9, <1>10

\* What the transactions T of one type and currency moved.
MovedIn(T, type, c) ==
    SumFunctionOnSet([t \in T |-> t.amount], {t \in T : t.type = type /\ t.currency = c})

\* A new transaction adds its amount to what its type moved in its currency.
LEMMA TransactionAddsUp ==
    ASSUME NEW T, IsFiniteSet(T), NEW t, t \notin T,
           \A u \in T : u.amount \in Int, t.amount \in Int,
           NEW type, NEW c
    PROVE  /\ MovedIn(T, type, c) \in Int
           /\ MovedIn(T \cup {t}, type, c) =
                 MovedIn(T, type, c) + IF t.type = type /\ t.currency = c THEN t.amount ELSE 0
    <1> DEFINE kind(U) == {u \in U : u.type = type /\ u.currency = c}
    <1>1. PICK old : old = [u \in T |-> u.amount]
        OBVIOUS
    <1>2. PICK new : new = [u \in T \cup {t} |-> u.amount]
        OBVIOUS
    <1>3. PICK S \in SUBSET T : S = kind(T)
        OBVIOUS
    <1>4. IsFiniteSet(S)
        BY FS_Subset
    <1>5. \A u \in S : old[u] \in Int /\ new[u] = old[u]
        BY <1>1, <1>2
    <1>6. SumFunctionOnSet(new, S) = SumFunctionOnSet(old, S)
        BY <1>4, <1>5, SumAgrees
    <1>7. SumFunctionOnSet(old, S) \in Int
        BY <1>4, <1>5, SumIsInt
    <1>8. /\ MovedIn(T, type, c) = SumFunctionOnSet(old, S)
          /\ MovedIn(T \cup {t}, type, c) = SumFunctionOnSet(new, kind(T \cup {t}))
        BY <1>1, <1>2, <1>3 DEF MovedIn
    <1>9. CASE t.type = type /\ t.currency = c
        <2>1. kind(T \cup {t}) = S \cup {t} /\ t \notin S
            BY <1>3, <1>9
        <2>2. \A u \in S \cup {t} : new[u] \in Int
            BY <1>2
        <2>3. new[t] = t.amount /\ t.amount \in Int
            BY <1>2
        <2>4. SumFunctionOnSet(new, S \cup {t}) = SumFunctionOnSet(new, S) + new[t]
            BY <1>4, <2>1, <2>2, SumAdded
        <2> HIDE DEF kind
        <2> QED BY <1>6, <1>7, <1>8, <1>9, <2>1, <2>3, <2>4
    <1>10. CASE ~(t.type = type /\ t.currency = c)
        <2>1. kind(T \cup {t}) = S
            BY <1>3, <1>10
        <2> HIDE DEF kind
        <2> QED BY <1>6, <1>7, <1>8, <1>10, <2>1
    <1> QED BY <1>9, <1>10

\* The books balance, and are finite: a commit adds one row.
Conserved == MoneyConserved /\ IsFiniteSet(transactions)

\* A commit moves in the wallets what it books in the transactions.
LEMMA CommitConserves ==
    ASSUME Inductive, Conserved,
           NEW p \in Handlers, Commit(p)
    PROVE  Conserved'
    <1>1. PICK r \in Requests : r = req[p]
        BY DEF Inductive, TypeOK
    <1>2. r.from # r.to /\ Refusal(r, read[p]) = "none"
        BY <1>1 DEF Commit, Inductive, ChecksHold
    <1>3. Admitted(r)
        BY <1>2, PassedChecks DEF Admitted
    <1>4. PICK T : T = transactions
        OBVIOUS
    <1>5. PICK t : t = Transaction(r)
        OBVIOUS
    <1>6. transactions' = T \cup {t}
        BY <1>1, <1>4, <1>5 DEF Commit
    <1>7. T \subseteq TransactionType /\ t \in TransactionType
        BY <1>1, <1>4, <1>5, CommitFacts DEF Inductive, TypeOK
    <1>8. t \notin T /\ IsFiniteSet(T)
        BY <1>1, <1>4, <1>5, CommitFacts DEF Conserved
    <1>9. t.amount \in Int /\ \A u \in T : u.amount \in Int
        BY <1>7 DEF TransactionType
    <1>10. PICK B : B = balance
        OBVIOUS
    <1>11. PICK N : N = balance'
        OBVIOUS
    <1>12. Posts(r, B, N)
        <2>1. posted[p] = Named(r)
            BY <1>1, CommitFacts
        <2>2. N = [w \in Wallets |-> IF w \in Named(r) THEN NewBalance(p, w) ELSE B[w]]
            BY <1>10, <1>11, <2>1 DEF Commit
        <2>3. \A w \in Named(r) :
                 /\ w \in Wallets
                 /\ NewBalance(p, w) \in 0..MaxBigint
                 /\ NewBalance(p, w) = B[w] + Delta(r, w)
            BY <1>1, <1>10, <2>1, CommitFacts
        <2>4. B \in [Wallets -> 0..MaxBigint]
            BY <1>10 DEF Inductive, TypeOK
        <2>5. 0..MaxBigint \subseteq Int
            BY MaxBigintAssumption
        <2> QED BY <2>2, <2>3, <2>4, <2>5 DEF Posts
    <1>13. t.type = r.op /\ t.amount = r.amount /\ t.currency = Currency[Guarded(r)]
        BY <1>5 DEF Transaction
    <1>14. ASSUME NEW c \in Currencies
           PROVE  SumFunctionOnSet(N, Purse(c)) =
                     MovedIn(T \cup {t}, "deposit", c) - MovedIn(T \cup {t}, "withdrawal", c)
        <2>1. SumFunctionOnSet(N, Purse(c)) =
                 SumFunctionOnSet(B, Purse(c)) + Brought(r, "deposit", c) - Brought(r, "withdrawal", c)
            BY <1>3, <1>12, PostingMovesMoney
        <2>2. SumFunctionOnSet(B, Purse(c)) = MovedIn(T, "deposit", c) - MovedIn(T, "withdrawal", c)
            BY <1>4, <1>10 DEF Conserved, MoneyConserved, Moved, MovedIn, Purse
        <2>3. \A type :
                 /\ MovedIn(T, type, c) \in Int
                 /\ MovedIn(T \cup {t}, type, c) = MovedIn(T, type, c) + Brought(r, type, c)
                 /\ Brought(r, type, c) \in Int
            <3> TAKE type
            <3>1. /\ MovedIn(T, type, c) \in Int
                  /\ MovedIn(T \cup {t}, type, c) =
                       MovedIn(T, type, c) + IF t.type = type /\ t.currency = c THEN t.amount ELSE 0
                BY <1>8, <1>9, TransactionAddsUp
            <3>2. Brought(r, type, c) = IF t.type = type /\ t.currency = c THEN t.amount ELSE 0
                BY <1>13 DEF Brought
            <3>3. t.amount \in Int
                BY <1>9
            <3> QED BY <3>1, <3>2, <3>3
        <2>4. /\ MovedIn(T \cup {t}, "deposit", c) = MovedIn(T, "deposit", c) + Brought(r, "deposit", c)
              /\ MovedIn(T, "deposit", c) \in Int /\ Brought(r, "deposit", c) \in Int
            BY <2>3
        <2>5. /\ MovedIn(T \cup {t}, "withdrawal", c) = MovedIn(T, "withdrawal", c) + Brought(r, "withdrawal", c)
              /\ MovedIn(T, "withdrawal", c) \in Int /\ Brought(r, "withdrawal", c) \in Int
            BY <2>3
        <2> QED BY <2>1, <2>2, <2>4, <2>5
    <1>15. MoneyConserved'
        BY <1>6, <1>11, <1>14 DEF MoneyConserved, Moved, MovedIn, Purse
    <1>16. IsFiniteSet(T \cup {t})
        BY <1>4, FS_AddElement DEF Conserved
    <1> QED BY <1>6, <1>15, <1>16 DEF Conserved

\* In each currency the wallets hold what was deposited less what was withdrawn:
\* no interleaving, retry, refusal or rollback creates or loses money.
THEOREM MoneyIsConserved == Spec => []MoneyConserved
    <1>1. Init => Conserved
        <2> SUFFICES ASSUME Init
                     PROVE  Conserved
            OBVIOUS
        <2>1. transactions = {} /\ IsFiniteSet(transactions)
            BY FS_EmptySet DEF Init
        <2>2. PICK none : none = {}
            OBVIOUS
        <2>3. ASSUME NEW f
              PROVE  SumFunctionOnSet(f, none) = 0
            BY <2>2, FS_EmptySet, SumStep
        <2>4. ASSUME NEW type, NEW c
              PROVE  Moved(type, c) = 0
            <3>1. {t \in transactions : t.type = type /\ t.currency = c} = none
                BY <2>1, <2>2
            <3> QED BY <2>3, <3>1 DEF Moved
        <2>5. ASSUME NEW c \in Currencies
              PROVE  SumFunctionOnSet(balance, {w \in Wallets : Currency[w] = c}) = 0
            <3>1. PICK S : S = Purse(c)
                OBVIOUS
            <3>2. IsFiniteSet(S) /\ \A w \in S : balance[w] = 0
                BY <3>1, PursesAreFinite DEF Init
            <3>3. SumFunctionOnSet(balance, S) = 0
                BY <3>2, SumOfZeros
            <3> QED BY <3>1, <3>3 DEF Purse
        <2> QED BY <2>1, <2>4, <2>5 DEF Conserved, MoneyConserved
    <1>2. ASSUME Inductive, Conserved, [Next]_vars
          PROVE  Conserved'
        <2>1. CASE UNCHANGED tables
            BY <1>2, <2>1 DEF tables, Conserved, MoneyConserved, Moved
        <2>2. CASE \E p \in Handlers : Commit(p)
            BY <1>2, <2>2, CommitConserves
        <2> QED BY <1>2, <2>1, <2>2, OnlyCommitsWrite
    <1>3. Conserved => MoneyConserved
        BY DEF Conserved
    <1> QED BY <1>1, <1>2, <1>3, InductiveInvariant, PTL DEF Spec

=============================================================================
