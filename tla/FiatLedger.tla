----------------------------- MODULE FiatLedger -----------------------------
(***************************************************************************)
(* The money movements of the fiat component (src/app/fiat): deposit,      *)
(* withdraw and transfer, run by concurrent request handlers against one   *)
(* PostgreSQL database at its default isolation level, READ COMMITTED.     *)
(*                                                                         *)
(* balance, ledger and transactions are the committed rows of the three    *)
(* tables: what a handler writes inside its database transaction stays in  *)
(* its own variables (posted) until it commits.  Every action is one await *)
(* of the service code, or a run of awaits whose effects no other handler  *)
(* can see apart.                                                          *)
(*                                                                         *)
(* A wallet id is a positive integer: the code uses nothing of a UUID but  *)
(* its equality and its order.  A request is a record whose "from" is the  *)
(* debited wallet and "to" the credited one; a deposit has no "from" and a *)
(* withdrawal no "to".                                                     *)
(***************************************************************************)
EXTENDS Integers, Sequences, FiniteSets, Functions

CONSTANTS
    Handlers,      \* request handlers running at the same time
    NoHandler,     \* "nobody holds this row lock"
    MaxUuid,       \* the largest wallet id: a UUID has 128 bits
    Wallets,       \* the ids of the rows of table wallets
    Users,
    Owner,         \* wallets.user_id, a function on Wallets
    Currency,      \* wallets.currency, a function on Wallets
    Keys,          \* idempotency keys
    Requests,      \* the requests clients send, and resend, in any order
    MaxBigint      \* the largest value of a BIGINT column

NoWallet == 0

Ops == {"deposit", "withdrawal", "transfer"}

Currencies == {Currency[w] : w \in Wallets}

RequestType ==
    [op : Ops, from : Nat, to : Nat, user : Users, amount : Nat \ {0},
     key : Keys]

ASSUME HandlersAssumption == NoHandler \notin Handlers

ASSUME WalletsAssumption ==
    /\ MaxUuid \in Nat
    /\ Wallets \subseteq 1..MaxUuid
    /\ Owner \in [Wallets -> Users]
    /\ DOMAIN Currency = Wallets

ASSUME MaxBigintAssumption == MaxBigint \in Nat

\* What the routes let through: amount_minor is positive, a deposit and a
\* withdrawal name one wallet, a transfer names two (perhaps the same one,
\* perhaps wallets that do not exist).
ASSUME RequestsAssumption ==
    /\ Requests # {}
    /\ Requests \subseteq RequestType
    /\ \A r \in Requests :
          /\ r.op = "deposit" <=> r.from = NoWallet
          /\ r.op = "withdrawal" <=> r.to = NoWallet

VARIABLES
    balance,       \* wallets.balance_minor, committed
    ledger,        \* per wallet, its committed ledger_entries in commit order
    transactions,  \* the committed rows of table transactions
    lockedBy,      \* per wallet row, the handler whose transaction locked it
    pc,            \* where each handler is in the service method
    req,           \* the request each handler serves
    read,          \* the balances get_and_lock returned to each handler
    posted,        \* the wallets whose update and entry a handler has written
    reply          \* the answer to the last request of each handler

vars == <<balance, ledger, transactions, lockedBy, pc, req, read, posted, reply>>
tables == <<balance, ledger, transactions>>

-----------------------------------------------------------------------------
(* Requests *)

\* The wallet ids a request names, and the rows its SELECT ... FOR UPDATE finds.
Named(r) == {r.from, r.to} \ {NoWallet}
Rows(r) == Named(r) \cap Wallets

\* The wallet whose owner must be the caller: only the sender's ownership is
\* checked, the receiver of a transfer can belong to any user.
Guarded(r) == IF r.op = "deposit" THEN r.to ELSE r.from

\* What the request adds to the balance of one of its wallets.
Delta(r, w) == IF w = r.from THEN -r.amount ELSE r.amount

\* The row the request inserts in table transactions.
Transaction(r) ==
    [key |-> r.key, type |-> r.op, amount |-> r.amount,
     currency |-> Currency[Guarded(r)],
     metadata |-> IF r.op = "transfer" THEN {r.from, r.to} ELSE {}]

\* The checks made on the locked rows, in the order of the code: "none" when
\* they all pass, otherwise the exception raised.
Refusal(r, seen) ==
    IF Named(r) # Rows(r) \/ Owner[Guarded(r)] # r.user
    THEN "not_found"
    ELSE IF \E v, w \in Rows(r) : Currency[v] # Currency[w]
    THEN "currency_mismatch"
    ELSE IF r.from # NoWallet /\ seen[r.from] < r.amount
    THEN "insufficient_funds"
    ELSE "none"

\* get_by_idempotency_key: the committed row with that key, or nothing.
Fetch(k) == {t \in transactions : t.key = k}

-----------------------------------------------------------------------------
(* Handlers *)

\* The rows of its request a handler has not locked yet, and the one that the
\* ORDER BY id of the locking query takes next.
Missing(p) == {w \in Rows(req[p]) : lockedBy[w] # p}
NextRowAsSent(p) ==  \* mutant: no ORDER BY, the rows in the order of the request
    IF req[p].from \in Missing(p) THEN req[p].from ELSE req[p].to
NextRow(p) == CHOOSE w \in Missing(p) : \A v \in Missing(p) : w <= v

\* A row lock is granted when no other transaction holds it.
RowUnlocked(w) == TRUE  \* mutant: a SELECT without FOR UPDATE
RowIsFree(w) == lockedBy[w] = NoHandler

\* p has inserted its transactions row and has not committed: until it ends,
\* another insert of the same key waits on the unique index.
HoldsKey(p, k) == pc[p] = "post" /\ req[p].key = k
KeyUnchecked(k) == TRUE  \* mutant: no unique index to wait for
KeyIsFree(k) == \A p \in Handlers : ~HoldsKey(p, k)

\* The balance column takes what BIGINT and chk_balance_non_negative allow.
StorableUnbounded(b) == 0 <= b  \* mutant: no overflow check
Storable(b) == 0 <= b /\ b <= MaxBigint

\* The wallets still to be written; the debit of a transfer comes first.
UnpostedDebit(p) ==  \* mutant: the credit of a transfer is forgotten
    (IF req[p].op = "transfer" THEN {req[p].from} ELSE Rows(req[p])) \ posted[p]
Unposted(p) == Rows(req[p]) \ posted[p]
NextLeg(p) == IF req[p].from \in Unposted(p) THEN req[p].from ELSE req[p].to

NewBalance(p, w) == read[p][w] + Delta(req[p], w)

Nothing == [w \in Wallets |-> 0]

\* The end of a request: locks released, local state gone, answer given.
Finish(p, status, tx) ==
    /\ pc' = [pc EXCEPT ![p] = "idle"]
    /\ reply' = [reply EXCEPT ![p] = [status |-> status, tx |-> tx]]
    /\ lockedBy' = [w \in Wallets |->
                      IF lockedBy[w] = p THEN NoHandler ELSE lockedBy[w]]
    /\ read' = [read EXCEPT ![p] = Nothing]
    /\ posted' = [posted EXCEPT ![p] = {}]
    /\ UNCHANGED req

-----------------------------------------------------------------------------
(* Actions *)

Init ==
    /\ balance = [w \in Wallets |-> 0]
    /\ ledger = [w \in Wallets |-> <<>>]
    /\ transactions = {}
    /\ lockedBy = [w \in Wallets |-> NoHandler]
    /\ pc = [p \in Handlers |-> "idle"]
    /\ req = [p \in Handlers |-> CHOOSE r \in Requests : TRUE]
    /\ read = [p \in Handlers |-> Nothing]
    /\ posted = [p \in Handlers |-> {}]
    /\ reply = [p \in Handlers |-> [status |-> "none", tx |-> {}]]

\* A request arrives.  Nothing distinguishes a new request from the retry of
\* one that was answered, refused, lost, or is still being served elsewhere.
Receive(p, r) ==
    /\ pc[p] = "idle"
    /\ pc' = [pc EXCEPT ![p] = "check"]
    /\ req' = [req EXCEPT ![p] = r]
    /\ reply' = [reply EXCEPT ![p] = [status |-> "none", tx |-> {}]]
    /\ UNCHANGED <<tables, lockedBy, read, posted>>

\* transfer refuses a wallet paying itself before it reads anything.
RefuseSameWallet(p) ==
    /\ pc[p] = "check"
    /\ req[p].from = req[p].to
    /\ Finish(p, "same_wallet", {})
    /\ UNCHANGED tables

\* The read of the key outside any transaction: no lock is held.
CheckIdempotencyKey(p) ==
    /\ pc[p] = "check"
    /\ req[p].from # req[p].to
    /\ IF Fetch(req[p].key) # {}
       THEN Finish(p, "ok", Fetch(req[p].key))
       ELSE /\ pc' = [pc EXCEPT ![p] = "lock"]
            /\ UNCHANGED <<lockedBy, req, read, posted, reply>>
    /\ UNCHANGED tables

\* SELECT ... FOR UPDATE takes one row lock, waiting for it if need be, and
\* returns the row as last committed.
LockRow(p) ==
    /\ pc[p] = "lock"
    /\ Missing(p) # {}
    /\ LET w == NextRow(p)
       IN  /\ RowIsFree(w)
           /\ lockedBy' = [lockedBy EXCEPT ![w] = p]
           /\ read' = [read EXCEPT ![p][w] = balance[w]]
    /\ UNCHANGED <<tables, pc, req, posted, reply>>

\* All rows found are locked: the checks pass, or raise and roll back.
Validate(p) ==
    /\ pc[p] = "lock"
    /\ Missing(p) = {}
    /\ LET refusal == Refusal(req[p], read[p])
       IN  IF refusal = "none"
           THEN /\ pc' = [pc EXCEPT ![p] = "insert"]
                /\ UNCHANGED <<lockedBy, req, read, posted, reply>>
           ELSE Finish(p, refusal, {})
    /\ UNCHANGED tables

\* INSERT ... ON CONFLICT DO NOTHING: waits while another transaction holds
\* the key, then inserts, or finds the committed row and returns None.
InsertTransaction(p) ==
    /\ pc[p] = "insert"
    /\ KeyIsFree(req[p].key)
    /\ pc' = [pc EXCEPT ![p] = IF Fetch(req[p].key) = {} THEN "post" ELSE "refetch"]
    /\ UNCHANGED <<tables, lockedBy, req, read, posted, reply>>

\* The key was taken in between: its row is read again and returned, and the
\* transaction commits having written nothing.
RefetchNothing(p) ==  \* mutant: the None of the lost insert is returned
    /\ pc[p] = "refetch"
    /\ Finish(p, "ok", {})
    /\ UNCHANGED tables
Refetch(p) ==
    /\ pc[p] = "refetch"
    /\ Finish(p, "ok", Fetch(req[p].key))
    /\ UNCHANGED tables

\* update_balance, with a value computed from the locked read, and the ledger
\* entry that goes with it.  A balance the column refuses raises.
PostLeg(p) ==
    /\ pc[p] = "post"
    /\ Unposted(p) # {}
    /\ IF Storable(NewBalance(p, NextLeg(p)))
       THEN /\ posted' = [posted EXCEPT ![p] = @ \cup {NextLeg(p)}]
            /\ UNCHANGED <<lockedBy, pc, req, read, reply>>
       ELSE Finish(p, "error", {})
    /\ UNCHANGED tables

\* The audit row is written and the transaction commits: all the writes become
\* visible at once and the locks go.  The acknowledgement may be lost.
Commit(p) ==
    /\ pc[p] = "post"
    /\ Unposted(p) = {}
    /\ balance' = [w \in Wallets |->
                     IF w \in posted[p] THEN NewBalance(p, w) ELSE balance[w]]
    /\ ledger' = [w \in Wallets |->
                     IF w \in posted[p]
                     THEN Append(ledger[w], [key |-> req[p].key,
                                             amount |-> Delta(req[p], w),
                                             after |-> NewBalance(p, w)])
                     ELSE ledger[w]]
    /\ transactions' = transactions \cup {Transaction(req[p])}
    /\ \/ Finish(p, "ok", {Transaction(req[p])})
       \/ Finish(p, "error", {})

\* Before the commit a statement can fail at any time (command_timeout, a lost
\* connection, the process killed): the database rolls the transaction back.
Rollback(p) ==
    /\ pc[p] # "idle"
    /\ Finish(p, "error", {})
    /\ UNCHANGED tables

Step(p) ==
    \/ RefuseSameWallet(p)
    \/ CheckIdempotencyKey(p)
    \/ LockRow(p)
    \/ Validate(p)
    \/ InsertTransaction(p)
    \/ Refetch(p)
    \/ PostLeg(p)
    \/ Commit(p)

Next ==
    \E p \in Handlers :
        \/ \E r \in Requests : Receive(p, r)
        \/ Step(p)
        \/ Rollback(p)

Spec == Init /\ [][Next]_vars

\* A handler that can go on does, and PostgreSQL queues the waiters of a row or
\* of an index key, so a handler that waits is granted its turn: hence the
\* strong fairness.  No failure and no new request has to happen.
FairSpec == Spec /\ \A p \in Handlers : SF_vars(Step(p))

-----------------------------------------------------------------------------
(* Properties *)

Entry == [key : Keys, amount : Int, after : 0..MaxBigint]

TransactionType ==
    [key : Keys, type : Ops, amount : Nat \ {0}, currency : Currencies,
     metadata : SUBSET Nat]

Statuses == {"none", "ok", "error", "same_wallet", "not_found",
             "currency_mismatch", "insufficient_funds"}

\* Type invariant; the balance column never leaves what BIGINT and the CHECK
\* constraint chk_balance_non_negative of table wallets allow.
TypeOK ==
    /\ balance \in [Wallets -> 0..MaxBigint]
    /\ ledger \in [Wallets -> Seq(Entry)]
    /\ transactions \subseteq TransactionType
    /\ lockedBy \in [Wallets -> Handlers \cup {NoHandler}]
    /\ pc \in [Handlers -> {"idle", "check", "lock", "insert", "refetch", "post"}]
    /\ req \in [Handlers -> Requests]
    /\ read \in [Handlers -> [Wallets -> 0..MaxBigint]]
    /\ posted \in [Handlers -> SUBSET Wallets]
    /\ reply \in [Handlers -> [status : Statuses, tx : SUBSET TransactionType]]

\* The balance in force after the first n ledger entries of a wallet.
BalanceAfter(w, n) == IF n = 0 THEN 0 ELSE ledger[w][n].after

\* Every balance is explained by replaying the wallet's ledger: each entry's
\* balance_after is the previous one plus its amount, and the last is the cached
\* balance (README, "Consistency" and "Auditability").
LedgerExplainsBalance ==
    \A w \in Wallets :
        /\ \A n \in 1..Len(ledger[w]) :
              ledger[w][n].after = BalanceAfter(w, n - 1) + ledger[w][n].amount
        /\ balance[w] = BalanceAfter(w, Len(ledger[w]))

\* The amounts of a wallet's entries, added up as the reconciliation query
\* sum_for_wallet does.
SumForWallet(w) == SumFunction([n \in DOMAIN ledger[w] |-> ledger[w][n].amount])

\* What the reconciliation job is to find: the cached balance of each wallet is
\* the sum of its ledger entries (PLAN, 1B-4).
Reconciled == \A w \in Wallets : balance[w] = SumForWallet(w)

\* What the committed transactions of one type and currency moved.
Moved(type, c) ==
    SumFunctionOnSet([t \in transactions |-> t.amount],
                     {t \in transactions : t.type = type /\ t.currency = c})

\* In each currency the wallets hold together what was deposited less what was
\* withdrawn: transfers, retries and failures neither create nor lose money.
MoneyConserved ==
    \A c \in Currencies :
        SumFunctionOnSet(balance, {w \in Wallets : Currency[w] = c})
            = Moved("deposit", c) - Moved("withdrawal", c)

\* Two concurrent requests with one idempotency key never both insert it, and
\* no handler is about to insert a key that is already committed.
KeyAppliedOnce ==
    /\ \A t, u \in transactions : t.key = u.key => t = u
    /\ \A p, q \in Handlers :
          HoldsKey(p, req[p].key) /\ HoldsKey(q, req[p].key) => p = q
    /\ \A p \in Handlers : pc[p] = "post" => Fetch(req[p].key) = {}

\* The committed ledger entries of one key, each with its wallet.
EntriesOf(k) ==
    UNION {{[wallet |-> w, amount |-> ledger[w][n].amount, at |-> n] :
               n \in {m \in DOMAIN ledger[w] : ledger[w][m].key = k}} : w \in Wallets}

\* However often a request is retried, fails or races another: every entry belongs
\* to a committed transaction, and a transaction posts to a wallet of its currency
\* once at most; a deposit credits its amount and a withdrawal debits it; a transfer
\* has exactly two entries, in its two wallets, whose amounts sum to zero
\* (README.md:223, TODO.md:74, PLAN.md:188).  What a deposit or a withdrawal posts
\* besides is left open: SKILL.md:51-53 asks for an entry against it.
DoubleEntry ==
    /\ \A w \in Wallets : \A n \in DOMAIN ledger[w] :
          Fetch(ledger[w][n].key) # {}
    /\ \A t \in transactions :
          LET entries == EntriesOf(t.key)
              moved == IF t.type = "withdrawal" THEN -t.amount ELSE t.amount
          IN  /\ \A e, f \in entries : e.wallet = f.wallet => e = f
              /\ \A e \in entries : Currency[e.wallet] = t.currency
              /\ \E e \in entries : e.amount = moved
              /\ t.type = "transfer" =>
                    /\ Cardinality(entries) = 2
                    /\ {e.amount : e \in entries} = {t.amount, -t.amount}
                    /\ {e.wallet : e \in entries} = t.metadata

\* p waits for a row lock, or for the key of an uncommitted insert, of q.
WaitsFor(p, q) ==
    /\ p # q
    /\ \/ /\ pc[p] = "lock"
          /\ Missing(p) # {}
          /\ lockedBy[NextRow(p)] = q
       \/ /\ pc[p] = "insert"
          /\ HoldsKey(q, req[p].key)

\* No set of handlers wait only on each other, through row locks, idempotency
\* keys or both: deadlock is "structurally impossible" (README, "Design
\* decisions"; PLAN, "opposite-direction transfers never deadlock").
NoDeadlock ==
    \A waiting \in (SUBSET Handlers) \ {{}} :
        \E p \in waiting : \A q \in waiting : ~WaitsFor(p, q)

\* Whether no other request is sent under the key of this one.
KeyIsOwn(r) == \A s \in Requests : s.key = r.key => s = r

\* A success answers the committed row of the request's own key: never None
\* after the lost race of ON CONFLICT, never a row that was rolled back.  Unless
\* its key was used for another request, it is what this very request moved.
SuccessIsCommitted ==
    \A p \in Handlers :
        reply[p].status = "ok" =>
            /\ reply[p].tx # {}
            /\ reply[p].tx \subseteq Fetch(req[p].key)
            /\ KeyIsOwn(req[p]) => reply[p].tx = {Transaction(req[p])}

\* The tables only grow, a key at a time: a committed transaction or entry is
\* never changed or deleted, and a ledger grows only with its transaction.
AppendOnly ==
    [][/\ transactions \subseteq transactions'
       /\ \A w \in Wallets :
             \/ ledger'[w] = ledger[w]
             \/ \E t \in transactions' \ transactions, n \in {balance'[w] - balance[w]} :
                   ledger'[w] = Append(ledger[w],
                      [key |-> t.key, amount |-> n, after |-> balance'[w]])]_vars

\* A refusal for lack of funds is true when it is given, whatever the handler
\* read before: the committed balance is below the amount.
RefusalIsCurrent ==
    [][\A p \in Handlers :
          (pc[p] # "idle" /\ reply'[p].status = "insufficient_funds") =>
              balance[req[p].from] < req[p].amount]_vars

\* Every request is answered, however the others interleave with it.
Answered == \A p \in Handlers : pc[p] # "idle" ~> pc[p] = "idle"

-----------------------------------------------------------------------------
(* The inductive invariant: why a balance written as an absolute value,     *)
(* computed from an earlier read, loses no update.                          *)

\* What a handler read of a row is what is committed, while it locks the row.
ReadIsCurrent ==
    \A p \in Handlers : \A w \in Wallets :
        lockedBy[w] = p => read[p][w] = balance[w]

\* A handler locks rows of its request only, none before its transaction
\* begins, and all of them from the checks to the commit.
LocksFollowCode ==
    \A p \in Handlers :
        /\ \A w \in Wallets : lockedBy[w] = p => w \in Rows(req[p]) /\ pc[p] \notin {"idle", "check"}
        /\ pc[p] \in {"insert", "refetch", "post"} => Missing(p) = {}

\* Whatever a handler still has to lock comes after all it has locked.
LocksAscend ==
    \A p \in Handlers :
        pc[p] = "lock" =>
            \A v, w \in Rows(req[p]) : lockedBy[v] = p /\ lockedBy[w] # p => v < w

\* The checks passed before the insert still hold of what was read.
ChecksHold ==
    \A p \in Handlers :
        /\ pc[p] \notin {"idle", "check"} => req[p].from # req[p].to
        /\ pc[p] \in {"insert", "refetch", "post"} => Refusal(req[p], read[p]) = "none"

\* The legs written are legs of the request whose new balance can be stored.
PostedLegsFit ==
    \A p \in Handlers :
        /\ posted[p] \subseteq Rows(req[p])
        /\ posted[p] # {} => pc[p] = "post"
        /\ \A w \in posted[p] : Storable(NewBalance(p, w))

\* A row that made an insert conflict is still there when it is read again.
ConflictIsCommitted ==
    \A p \in Handlers : pc[p] = "refetch" => Fetch(req[p].key) # {}

Inductive ==
    /\ TypeOK
    /\ ReadIsCurrent
    /\ LocksFollowCode
    /\ LocksAscend
    /\ ChecksHold
    /\ PostedLegsFit
    /\ KeyAppliedOnce
    /\ ConflictIsCommitted

-----------------------------------------------------------------------------
\* What the tables promise, with no handler, lock or key in sight.
Promise == INSTANCE DoubleEntryLedger WITH
    balance <- balance, ledger <- ledger, transactions <- transactions

\* Every step of a handler is a posting of the tables' promise or changes none of
\* them: locks, retries and rollbacks are invisible to who reads the tables.
Implements == Promise!Spec

=============================================================================
