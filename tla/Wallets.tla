------------------------------- MODULE Wallets -------------------------------
(***************************************************************************)
(* Wallets and their transaction history: create_wallet, which looks for   *)
(* the wallet before its transaction and inserts it inside, and            *)
(* list_transactions, whose pages are read one request at a time while     *)
(* money moves (src/app/fiat/service.py, router.py and repository.py).     *)
(*                                                                         *)
(* A movement is a deposit, a withdrawal or a transfer of FiatLedger, seen *)
(* from the history: created_at is now(), the time its transaction began,  *)
(* and the row appears when the transaction commits, perhaps after one     *)
(* that began later.                                                       *)
(***************************************************************************)
EXTENDS Integers, FiniteSets

CONSTANTS
    Clients,    \* one request each at a time
    Users,
    Spellings,  \* currencies as clients write them, in lower or upper case
    Upper,      \* str.upper()
    Ids,        \* wallet ids
    NoId,
    Moves,      \* ids of movements
    MaxTime,    \* bound of the model: the last moment a movement begins
    Requests    \* the requests each client makes

RequestType ==
    [op : {"create"}, user : Users, currency : Spellings]
    \cup [op : {"history"}, user : Users, wallet : Ids, limit : Nat \ {0}]

ASSUME UpperAssumption ==
    Upper \in [Spellings -> Spellings] /\ \A c \in Spellings : Upper[Upper[c]] = Upper[c]
ASSUME IdsAssumption == NoId \notin Ids \cup Users
ASSUME MovesAssumption == IsFiniteSet(Moves) /\ MaxTime \in Nat
ASSUME RequestsAssumption == Requests \in [Clients -> SUBSET RequestType]

VARIABLES
    wallets,  \* the committed wallets rows
    draft,    \* the wallet that a client's open transaction inserted
    moves,    \* the movements, begun or committed
    now,      \* the database's clock
    pc,       \* where each request is
    req,      \* the request
    page,     \* history: the offset asked for, the items and the total found
    before,   \* history: the movements committed when the first page was read
    seen      \* history: the movements of all pages so far

vars == <<wallets, draft, moves, now, pc, req, page, before, seen>>

-----------------------------------------------------------------------------
(* The tables *)

NoWallet == [user |-> NoId, currency |-> NoId]
NoMove == [state |-> "none", wallets |-> {}, at |-> 0]
NoPage == [offset |-> 0, items |-> {}, total |-> 0]
Nothing == [op |-> "none"]

\* The row that a request to create a wallet is about.
Wanted(r) == [user |-> r.user, currency |-> Upper[r.currency]]

Exists(row) == \E w \in Ids : wallets[w] = row
Unused == {w \in Ids : wallets[w] = NoWallet /\ \A c \in Clients : draft[c] # w}

\* Another transaction has inserted the row and is not over.
Unblocked(c) == FALSE  \* mutant: there is no unique index to wait at
Blocked(c) ==
    \E d \in Clients \ {c} : draft[d] # NoId /\ Wanted(req[d]) = Wanted(req[c])

\* The movements with an entry in the ledger of the wallet.
History(w) == {m \in Moves : moves[m].state = "committed" /\ w \in moves[m].wallets}

\* The first n rows of H ORDER BY created_at DESC; rows created at the same
\* time come in any order.
AnyRows(S, n, H) ==  \* mutant: without an ORDER BY
    S \subseteq H /\ Cardinality(S) = IF n < Cardinality(H) THEN n ELSE Cardinality(H)
First(S, n, H) ==
    /\ S \subseteq H
    /\ Cardinality(S) = IF n < Cardinality(H) THEN n ELSE Cardinality(H)
    /\ \A m \in S, k \in H \ S : moves[m].at >= moves[k].at

-----------------------------------------------------------------------------

Init ==
    /\ wallets = [w \in Ids |-> NoWallet]
    /\ draft = [c \in Clients |-> NoId]
    /\ moves = [m \in Moves |-> NoMove]
    /\ now = 0
    /\ pc = [c \in Clients |-> "idle"]
    /\ req = [c \in Clients |-> Nothing]
    /\ page = [c \in Clients |-> NoPage]
    /\ before = [c \in Clients |-> {}]
    /\ seen = [c \in Clients |-> {}]

Goto(c, label) == pc' = [pc EXCEPT ![c] = label]

Forget(c) ==
    /\ Goto(c, "idle")
    /\ req' = [req EXCEPT ![c] = Nothing]
    /\ draft' = [draft EXCEPT ![c] = NoId]
    /\ page' = [page EXCEPT ![c] = NoPage]
    /\ before' = [before EXCEPT ![c] = {}]
    /\ seen' = [seen EXCEPT ![c] = {}]

Ask(c, r) ==
    /\ pc[c] = "idle"
    /\ req' = [req EXCEPT ![c] = r]
    /\ Goto(c, IF r.op = "create" THEN "find" ELSE "owner")
    /\ UNCHANGED <<wallets, draft, moves, now, page, before, seen>>

-----------------------------------------------------------------------------
(* WalletService.create_wallet *)

\* Outside the transaction; answered 409 if there is one.
Find(c) ==
    /\ pc[c] = "find"
    /\ Goto(c, IF Exists(Wanted(req[c])) THEN "answered" ELSE "insert")
    /\ UNCHANGED <<wallets, draft, moves, now, req, page, before, seen>>

\* uq_wallets_user_currency: waits for an open transaction with the same row.
Insert(c) ==
    /\ pc[c] = "insert"
    /\ ~Blocked(c)
    /\ ~Exists(Wanted(req[c]))
    /\ \E w \in Unused : draft' = [draft EXCEPT ![c] = w]
    /\ Goto(c, "commit")
    /\ UNCHANGED <<wallets, moves, now, req, page, before, seen>>

\* UniqueViolationError, which nothing catches: answered 500.
CollideAtOnce(c) ==  \* mutant: refused for a row that may yet be rolled back
    /\ pc[c] = "insert"
    /\ Exists(Wanted(req[c])) \/ Blocked(c)
    /\ Goto(c, "answered")
    /\ UNCHANGED <<wallets, draft, moves, now, req, page, before, seen>>

Collide(c) ==
    /\ pc[c] = "insert"
    /\ ~Blocked(c)
    /\ Exists(Wanted(req[c]))
    /\ Goto(c, "answered")
    /\ UNCHANGED <<wallets, draft, moves, now, req, page, before, seen>>

\* With its audit row; answered 201.
Commit(c) ==
    /\ pc[c] = "commit"
    /\ wallets' = [wallets EXCEPT ![draft[c]] = Wanted(req[c])]
    /\ draft' = [draft EXCEPT ![c] = NoId]
    /\ Goto(c, "answered")
    /\ UNCHANGED <<moves, now, req, page, before, seen>>

-----------------------------------------------------------------------------
(* The route list_transactions *)

\* get_wallet: 404 for a wallet that is not there or not the user's.
CheckOwner(c) ==
    /\ pc[c] = "owner"
    /\ IF wallets[req[c].wallet].user = req[c].user
       THEN /\ Goto(c, "items")
            /\ UNCHANGED <<draft, req, page, before, seen>>
       ELSE Forget(c)
    /\ UNCHANGED <<wallets, moves, now>>

ReadItems(c) ==
    /\ pc[c] = "items"
    /\ LET H == History(req[c].wallet) IN
          /\ \E skipped, items \in SUBSET H :
                /\ First(skipped, page[c].offset, H)
                /\ First(items, req[c].limit, H \ skipped)
                /\ page' = [page EXCEPT ![c].items = items]
                /\ seen' = [seen EXCEPT ![c] = @ \cup items]
          /\ before' = [before EXCEPT ![c] = IF page[c].offset = 0 THEN H ELSE @]
    /\ Goto(c, "total")
    /\ UNCHANGED <<wallets, draft, moves, now, req>>

CountCached(c) == page[c].total  \* mutant: the total of the page before is given again
Count(c) == Cardinality(History(req[c].wallet))

ReadTotal(c) ==
    /\ pc[c] = "total"
    /\ page' = [page EXCEPT ![c].total = Count(c)]
    /\ Goto(c, "answered")
    /\ UNCHANGED <<wallets, draft, moves, now, req, before, seen>>

-----------------------------------------------------------------------------
(* The client, the ledger, and what goes wrong *)

\* The client asks for the page that follows as long as there are more.
MoreToRead(c) == req[c].op = "history" /\ page[c].offset + req[c].limit < page[c].total

NextPage(c) ==
    /\ pc[c] = "answered"
    /\ MoreToRead(c)
    /\ page' = [page EXCEPT ![c].offset = @ + req[c].limit]
    /\ Goto(c, "owner")
    /\ UNCHANGED <<wallets, draft, moves, now, req, before, seen>>

Done(c) ==
    /\ pc[c] = "answered"
    /\ ~MoreToRead(c)
    /\ Forget(c)
    /\ UNCHANGED <<wallets, moves, now>>

\* The connection or the process is lost, or a statement fails for another reason.
Lose(c) ==
    /\ pc[c] \notin {"idle", "answered"}
    /\ Forget(c)
    /\ UNCHANGED <<wallets, moves, now>>

\* A deposit or a withdrawal moves money of one wallet, a transfer of two.
BeginMove(m, ws) ==
    /\ moves[m].state = "none"
    /\ \A w \in ws : wallets[w] # NoWallet
    /\ moves' = [moves EXCEPT ![m] = [state |-> "open", wallets |-> ws, at |-> now]]
    /\ UNCHANGED <<wallets, draft, now, pc, req, page, before, seen>>

EndMove(m) ==
    /\ moves[m].state = "open"
    /\ \/ moves' = [moves EXCEPT ![m].state = "committed"]
       \/ moves' = [moves EXCEPT ![m] = NoMove]
    /\ UNCHANGED <<wallets, draft, now, pc, req, page, before, seen>>

Tick ==
    /\ now < MaxTime
    /\ now' = now + 1
    /\ UNCHANGED <<wallets, draft, moves, pc, req, page, before, seen>>

Create(c) == Find(c) \/ Insert(c) \/ Collide(c) \/ Commit(c)
ListTransactions(c) == CheckOwner(c) \/ ReadItems(c) \/ ReadTotal(c)
Client(c) == NextPage(c) \/ Done(c) \/ Lose(c) \/ \E r \in Requests[c] : Ask(c, r)
Ledger(m) == EndMove(m) \/ \E v, w \in Ids : BeginMove(m, {v, w})

Next ==
    \/ \E c \in Clients : Create(c) \/ ListTransactions(c) \/ Client(c)
    \/ \E m \in Moves : Ledger(m)
    \/ Tick

Spec == Init /\ [][Next]_vars

-----------------------------------------------------------------------------
(* Properties *)

Labels == {"idle", "find", "insert", "commit", "owner", "items", "total", "answered"}

TypeOK ==
    /\ wallets \in [Ids -> {NoWallet} \cup [user : Users, currency : Spellings]]
    /\ draft \in [Clients -> Ids \cup {NoId}]
    /\ moves \in [Moves -> [state : {"none", "open", "committed"},
                            wallets : SUBSET Ids, at : Nat]]
    /\ now \in Nat
    /\ pc \in [Clients -> Labels]
    /\ \A c \in Clients : req[c] \in Requests[c] \cup {Nothing}
    /\ req \in [Clients -> RequestType \cup {Nothing}]
    /\ page \in [Clients -> [offset : Nat, items : SUBSET Moves, total : Nat]]
    /\ before \in [Clients -> SUBSET Moves]
    /\ seen \in [Clients -> SUBSET Moves]

\* Whatever create_wallet answers (service.py:102-122), 409 from the lookup, 500
\* from the unique index or 201, the user has the wallet asked for, and only one:
\* nobody is refused for the sake of a wallet that is then rolled back.
CreateLeavesWallet ==
    /\ \A v, w \in Ids : wallets[v] = wallets[w] /\ wallets[v] # NoWallet => v = w
    /\ \A c \in Clients :
          pc[c] = "answered" /\ req[c].op = "create" => Exists(Wanted(req[c]))

Alone(m, w) == \A k \in History(w) \ {m} : moves[k].at # moves[m].at

\* A client that reads all pages (router.py:196-221) has seen every movement that
\* was committed when it began, however many are committed meanwhile and in
\* whatever order of created_at; only rows created at the same time may slip.
PagesCoverHistory ==
    \A c \in Clients :
        pc[c] = "answered" /\ req[c].op = "history" /\ ~MoreToRead(c) =>
            \A m \in before[c] : Alone(m, req[c].wallet) => m \in seen[c]

\* The total counts at least the rows up to the last item of its page, although
\* the two are read by different statements (router.py:212-214).
TotalCoversPage ==
    \A c \in Clients :
        pc[c] = "answered" /\ page[c].items # {} =>
            page[c].total >= page[c].offset + Cardinality(page[c].items)

-----------------------------------------------------------------------------
(* The inductive invariant *)

RequestFollowsCode(c) ==
    /\ pc[c] = "idle" <=> req[c] = Nothing
    /\ pc[c] \in {"find", "insert", "commit"} => req[c].op = "create"
    /\ pc[c] \in {"owner", "items", "total"} => req[c].op = "history"
    /\ req[c].op # "history" => page[c] = NoPage /\ before[c] = {}

\* A draft is nobody else's, in the table or not, neither its id nor its row.
DraftIsOwn(c) ==
    /\ draft[c] # NoId <=> pc[c] = "commit"
    /\ draft[c] # NoId =>
          /\ wallets[draft[c]] = NoWallet
          /\ ~Exists(Wanted(req[c]))
          /\ ~Blocked(c)
          /\ \A d \in Clients \ {c} : draft[d] # draft[c]

\* The rows of H that come before m for certain.
Newer(m, H) == {k \in H : moves[k].at > moves[m].at}

\* How many rows the client has been through.
Read(c) == page[c].offset + IF pc[c] \in {"total", "answered"} THEN req[c].limit ELSE 0

\* A movement that has not been seen is further down than the client has read.
ReadInOrder(c) ==
    req[c].op = "history" =>
        LET H == History(req[c].wallet) IN
        /\ before[c] \subseteq H
        /\ Read(c) = 0 => before[c] = {}
        /\ \A m \in before[c] :
              Alone(m, req[c].wallet) /\ m \notin seen[c] => Cardinality(Newer(m, H)) >= Read(c)
        /\ pc[c] \in {"total", "answered"} /\ page[c].items # {} =>
              page[c].offset + Cardinality(page[c].items) <= Cardinality(H)

\* What all requests together preserve: the inductive invariant behind the
\* properties above (create_wallet and list_transactions taken together).
Inductive ==
    /\ TypeOK
    /\ \A c \in Clients : RequestFollowsCode(c) /\ DraftIsOwn(c) /\ ReadInOrder(c)
    /\ CreateLeavesWallet
    /\ PagesCoverHistory
    /\ TotalCoversPage

=============================================================================
