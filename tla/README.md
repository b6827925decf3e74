# SuperWallet: specification and proofs

This directory holds a TLA+ model of SuperWallet, the FastAPI and PostgreSQL
wallet backend in `src/`: what its request handlers and its notification worker
do to the database when they interleave, fail, retry and restart, the properties
that make that correct, the TLC runs that check them on small instances and the
TLAPS proofs that establish the most important ones for every instance.

    tlc -workers 2 -config MCFiatLedger.cfg MCFiatLedger    # one run
    tlapm FiatLedgerProofs.tla                              # one module of proofs

## 1. The system

All state that lasts is in one PostgreSQL database. Two kinds of process use it:
the API (one coroutine per request, each with a connection of its own from a pool
of at most 20) and any number of notification workers. They never call each
other; they meet in the tables, under the default isolation level READ COMMITTED,
through row locks and unique indexes.

| Component | Source (`src/app/`) | State | Operations | Hard behaviour | What makes it correct |
|---|---|---|---|---|---|
| Fiat money movements | `fiat/` | `wallets.balance_minor`, `transactions`, `ledger_entries` | deposit, withdraw, transfer | absolute balances computed from an earlier read; two row locks per transfer; retries of one idempotency key; commit whose answer is lost; BIGINT overflow of the second leg | ledger explains balance, one movement per key, debit and credit together, no deadlock, truthful refusals |
| Fiat wallets, history | `fiat/` | `wallets` | create, list, get, list_transactions | lookup outside the transaction of the insert; pages read while movements commit, ordered by the start of a transaction | whatever is answered the wallet is there, once; the pages together miss nothing |
| Registration, verification | `users/services/auth.py`, `session_auth.py` | `users`, outbox | register, verify, resend | lookups that do not see deactivated users, then unique indexes that do; two keys entered one after the other; emails that arrive late | unique names and addresses, verified means reached |
| Transactional outbox | `core/outbox.py` | `outbox_events` | enqueue, fetch_pending, mark_done, mark_failed, reset_to_pending | competing workers, SKIP LOCKED | exclusive claims, final outcomes |
| Notification worker | `notifications/` | none of its own | poll, send, mark | a batch of emails in one transaction: what is sent cannot be rolled back, the marks can; SMTP replies lost | done means sent, failed means exhausted, duplicates only with an excuse, every event settled |
| Login and sessions | `users/services/auth.py`, `users/repository.py` | `users`, `sessions` | login, refresh, logout | unlocked reads before updates; exceptions that roll back what was written for their sake | lockout, one token per login, reuse revokes all |
| Password reset, sessions | `users/services/session_auth.py` | `verification_tokens`, `sessions`, `users` | forgot, reset, list, revoke | an UPDATE over many rows sees the rows of its start; links read without a lock | a link works once, only the last works, a reset logs out all devices |
| Profile | `users/services/profile.py` | `users`, outbox | get, update, change password, deactivate | two keys changed at once, swapped names, a row read again after the commit | no update lost, nobody brought back to life |
| Authentication | `core/dependencies.py` | none | get_current_user | what it returns is not what the routes declare | authenticated requests reach their service |
| Pool, audit log, cryptography, schemas, templates, configuration, migrations | `core/`, `users/security.py`, ... | | | | see section 8 |
| Cards, crypto, tests | `cards/`, `crypto/`, `tests/` | | empty stubs | | |

The hazards these components are exposed to, each at its line and with the
properties that cover it, are listed in `PROJECT.json`.

## 2. Modules

| Module | What it is |
|---|---|
| `DoubleEntryLedger` | what the fiat tables promise a client: each key moves money at most once, all at once |
| `FiatLedger` | deposit, withdraw and transfer by concurrent handlers; implements `DoubleEntryLedger` |
| `MCFiatLedger` (+ 1 cfg) | its instance |
| `FiatLedgerProofs` | its theorems |
| `SumTheorems`, `MoneyProofs` | what a sum over a finite set is; the theorems about totals: reconciliation and the conservation of money |
| `EventDelivery` | what the outbox promises a producer: at-least-once delivery or an explicit failure |
| `Outbox` | the outbox table and the workers; implements `EventDelivery` |
| `MCOutbox` (+ 2 cfg), `OutboxProofs` | its instances and theorems |
| `Accounts` | login, refresh, logout, revoke, forgot, reset, change password, deactivate |
| `MCAccounts` (+ 7 cfg), `AccountsProofs` | its instances and theorems |
| `OverlapProofs` | what `Accounts` promises as long as certain pairs of requests do not overlap |
| `AccountTable` | what the `users` table promises: each request takes effect at one moment, on the row as it then is, and keys stay unique |
| `Registration` | register, verify, resend, update of a profile, deactivate, the unique indexes, deadlocks; implements `AccountTable` |
| `MCRegistration` (+ 1 cfg), `RegistrationProofs` | its instance and theorems |
| `Wallets` | create_wallet, and the history read page by page while money moves |
| `MCWallets` (+ 1 cfg), `WalletsProofs` | its instance and theorems |

Operators commented `mutant:` stand before the definition they distort. They are
not used by any specification: replacing the definition by its mutant must make
the property of the same row in `PROJECT.json` fail.

### FiatLedger

A handler `p` goes through `check`, `lock`, `insert` and `post` (or `refetch`):

| Action | Code (`fiat/service.py`, lines of transfer unless said otherwise) |
|---|---|
| `Receive` | a route is called; a retry is the same request received again, at any time, by any handler |
| `RefuseSameWallet` | 285-286 |
| `CheckIdempotencyKey` | 288-290: the read before the transaction |
| `LockRow` | 292-298: one row of `SELECT ... ORDER BY id FOR UPDATE`; reads the row as committed when the lock is granted |
| `Validate` | 300-316: every check on the locked rows, in the order of the code |
| `InsertTransaction` | 321-333: `INSERT ... ON CONFLICT DO NOTHING`, which waits for an uncommitted insert of the same key |
| `Refetch` | 331-333 |
| `PostLeg` | 335-352: `UPDATE` of one balance and its ledger entry; raises when the column refuses the value |
| `Commit` | 354-369 and the end of the transaction; the client may see the answer or an error |
| `Rollback` | any statement fails, the request is cancelled, the process dies: before the commit nothing remains |

Deposit and withdraw run the same steps over one row (144-196, 209-264).
`balance`, `ledger` and `transactions` are the committed rows; writes of an open
transaction live in `posted` until `Commit`, since READ COMMITTED shows them to
nobody else. Wallet ids are positive integers: the code uses only equality and
order of UUIDs. `MaxBigint` is the width of the column.

### Outbox

A worker fetches a batch (`FetchPending`, with the locks of `FOR UPDATE SKIP
LOCKED`), handles each event in turn (`RejectUnknownType`, `Send` then `MarkDone`,
`HandlerRaises`) and commits all marks together (`Commit`), or loses them all
(`Crash`). `HandlerRaises` covers an email that never left and one the server took
before the call failed. `tries`, `sent` and `ambiguous` are history variables:
they record what happened in the world and steer nothing, but for the property
they serve.

### Accounts

The model is cut along what other transactions can see: each `SELECT` of a service
is a step of its own, and its writes with the commit the last one. Only
`reset_password` and `forgot_password` go on after an `UPDATE`, so that others can
meet the rows they hold:

| Steps | Code | Rows held afterwards |
|---|---|---|
| `WritePassword` | `update_password_hash` | the users row (`userLock`) |
| `StartSweep` | `mark_used` is through; `revoke_all_for_user` begins, which fixes the rows it will touch | the link as well |
| `LockSessions` | `revoke_all_for_user` is through | the sessions it found as well |
| `CommitReset` | the commit | none |
| `InvalidateLinks`, `LockLinks` | `invalidate_all_for_user` begins, is through | the links it found |
| `SendLink` | the new link, the email and the commit | none |

Every `UPDATE` waits while another transaction holds one of its rows (`RowIsFree`,
`LinksAreFree`, `SessionsAreFree`). A statement over many rows takes them at once:
the order in which it visits them, which the code leaves to PostgreSQL, is not
modelled. A write that a raise
undoes is written as `AfterRaise(table, written)`, which is `table`. One history
variable per promise (`wrong`, `chosen`, `condemned`, `ended`, `reused`) records
what was promised, so that the property can compare. A changed password enqueues
an event for which the worker has no handler (`RejectUnknownType` of `Outbox`), so
that the sessions it should end live on; a run would have shown only the missing
entry in a dictionary.

Two constants describe what this commit does before any service is reached:

- `RowsLoad`: `UserRecord` requires `is_active` (`users/repository.py:19`), which
  the three `SELECT`s that fill it do not return (65-96). At this commit every
  request that finds a user raises `TypeError`, which includes the authentication
  of every other request: `RowsLoad = FALSE`.
- `IdsPassed`: the routes of sessions and profiles declare `user_id: UUID =
  Depends(get_current_user)` and are given a `UserRecord`. At this commit no
  revocation by id, change of password or deactivation succeeds: `IdsPassed =
  FALSE`.

`Registration` has the same two constants. The runs set both to `TRUE`: they check
the services as their signatures declare them, which is the code that runs once
either slip is mended; with `FALSE` there is next to nothing to check, since next
to nothing is done. The theorems hold for all values.

### Registration

One handler serves one request; its transaction writes one row, which is its
`draft` until it commits.

| Action | Code |
|---|---|
| `RefuseTaken`, `EmailIsFree` | `users/services/auth.py:90-112`: the two lookups, each a statement with a snapshot of its own |
| `Insert` | `users/repository.py:35-49` |
| `EnterKey`, `Collide` | the unique indexes of `users`, in the order of their creation (`72f842f79d39`, 27-28), and `UniqueViolationError`, which `update_profile` expects and `register` does not |
| `FindRow`, `LeaveRow` | the checks before the `UPDATE`s of verify, update and deactivate |
| `WriteRow` | `users/repository.py:51-63, 136-147`: `UPDATE ... WHERE id`, on the row as it is when the lock is granted |
| `Commit`, `ReadBack` | the end of the transaction; the route of an update then reads the profile again |
| `IgnoreResend`, `FindUnverified`, `EnqueueMail` | `users/services/session_auth.py:58-82` |
| `Deliver`, `GiveUp` | the outbox and its worker, as `EventDelivery` promises them: later, more than once, or never |
| `DeadlockVictim`, `Lose` | PostgreSQL aborts one of a circle; a connection or a process is lost |

`Blocks` says who waits for whom: for a row that another transaction wrote, and
for a key that another transaction has entered or is about to give up. A lookup
refuses with 409 and an index, in `register`, with 500: which of the two the loser of a
race gets depends on the interleaving, and so it does for `create_wallet`. Whoever
wants the name of a deactivated account always gets the 500, as the lookups skip
deactivated rows and the indexes do not.

### Wallets

| Action | Code |
|---|---|
| `Find` | `fiat/service.py:102-110`: outside the transaction |
| `Insert`, `Collide`, `Commit` | 112-122 and `uq_wallets_user_currency` |
| `CheckOwner`, `ReadItems`, `ReadTotal` | `fiat/router.py:208-214`: three statements, each with its snapshot |
| `NextPage`, `Done` | the client, which asks for the next page as long as `total` says there is one |
| `BeginMove`, `EndMove`, `Tick` | the movements of `FiatLedger` seen from the history: `created_at` is the time their transaction began, and they appear when it commits |

The two modules of `fiat/` are not composed: a wallet is never removed and its
balance is none of its history's business, so they share nothing but the order of
commits, which both leave open.

## 3. Runs

| Run | Instance | What it shows |
|---|---|---|
| `fiat_ledger` | 2 handlers, 3 wallets of 2 users and 2 currencies, 10 requests, balances up to 3, fairness | all safety properties, the inductive invariant, that the tables implement `DoubleEntryLedger`, and that every request is answered |
| `outbox` | 2 workers, 3 events, batches of 2, 3 attempts, 1 crash, fairness | all safety properties of the outbox, that it implements `EventDelivery`, and that every event is settled |
| `accounts` | 2 overlapping requests (login, refresh, revocation, forgotten password, reset), 3 sessions, 2 links, fairness | what holds whatever overlaps, and that every request is answered, also behind rows of users, links and sessions that others hold |
| `accounts_apart` | 2 overlapping requests of every kind but the pairs of `Apart`, 3 sessions, 2 links | the promises of section 4 about tokens, links and passwords, which the code keeps as long as those pairs do not meet |
| `registration` | 2 overlapping requests of every kind, 2 ids, 2 usernames, 2 addresses, deadlocks, fairness | unique names, verified means reached, who can close a circle of waits, that every request is answered, and that the table implements `AccountTable` |
| `wallets` | 2 clients, 2 users, 2 wallets, 2 spellings of a currency, 3 movements begun at 3 times, pages of 1 and 2 | the wallet is there whatever create_wallet answers; the pages cover the history; totals do not fall short |
| `outbox_attempts`, other `accounts_*` | the smallest instance that shows it | one promise each that the code does not keep: section 4 |

The bounds and why they are enough. Two handlers give every pairwise race; that a
cycle of waits needs more of them is excluded by `DeadlockFreedom`, proved for any
number. The requests of `fiat_ledger` hit every refusal, an overflow of a second
leg (a transfer into a wallet that holds 3, the most its column can), an unknown wallet, and one key
sent with three different requests. Three sessions are a login, a rotation and one
more that races it. One user is enough in `Accounts`: no statement touches the rows
of two. The second link is the one a forgotten password mails while the first is being
used; `accounts` has one password, as none of its properties compares two. `MaxCrashes` bounds the history of crashes, not what a crash can do.
`LockAfter` is 6 in the code; runs in which locking matters use 1, so that it
happens within the bound. The code's five attempts are three in `outbox`: more than
one retry, and a limit that is reached. In `registration` two ids suffice for every
collision (with an active, a deactivated, an inserted and an updated row) and two
names for a swap; a third request could only wait longer in the same queue, and that circles of any size
need a profile update is proved. In `wallets` three movements fill two pages of
two or three of one, so that a row can slip from one page to the next while it is
read; times 0 to 2 let a movement commit behind one that began later. Two runs use symmetry, `wallets`
over movements and wallet ids, `accounts_apart` over handlers: no definition orders
them and no request tells them apart. Neither run checks liveness, for which symmetry
is unsound. `accounts_apart` is the only run with a constraint: `Apart` cuts a
behaviour where two requests meet that the theorems of `OverlapProofs` keep apart. The room for fresh ids (`Room` in `Accounts`) ends a behaviour when
no id is left and refuses nothing the code accepts before that. Deadlock is checked
in every run; `Quiet` is the API with nobody calling.

## 4. Where code and documents disagree

Each is a run that must end in a violation; `PROJECT.json` quotes the sentence.

| Run | What the counterexample shows |
|---|---|
| `outbox_attempts` | attempts counted in a batch that is rolled back are forgotten, so an email handler runs more than five times |
| `accounts_lockout` | the failure counter is rolled back by the error it announces: no account ever locks |
| `accounts_reuse` | so is the revocation of all sessions when a rotated token comes back |
| `accounts_rotation` | two refreshes of one token at the same time both succeed |
| `accounts_reset` | a refresh that overlaps a reset leaves a session alive |
| `accounts_rehash` | a login with an outdated hash writes the old password over a reset |

Links have the two races of sessions: two password-reset requests at the same time
leave two working links (`OneLinkPerUser`), two resets at the same time both use one
link (`LinkIsUsedOnce`). Both properties are therefore checked in
`accounts_apart` only, where those pairs do not meet. With `IdsPassed =
FALSE` the revocation of a session by id is refused to its owner.

On the ledger entries of a deposit or a withdrawal the documents disagree among
themselves. `SKILL.md:51-53` says "Every money movement creates at least two entries
that sum to zero" and "`SUM(amount_minor) = 0` for every transaction". `README.md:223`
says "one or more entries", and it, `TODO.md:74` and `PLAN.md:188` ask a sum of zero of
transfers only. The code (`fiat/service.py:174-182`, `242-250`) writes one entry, against
no account of the outside world, so a single deposit already differs from `SKILL.md`.
`DoubleEntry` takes no side: it states what all four ask for, and what a deposit or a
withdrawal posts besides the entry of its amount is left open in it. `MoneyConserved`
says where the sum over the wallets goes instead: it is the deposits less the
withdrawals.

## 5. Fairness

`FairSpec` of `FiatLedger`, `Accounts` and `Registration` is strong fairness of each handler's own
steps. In `Registration` these include the abortion of a deadlock's victim, which
PostgreSQL looks for after `deadlock_timeout`. A handler that can run does, since the event loop runs every ready
coroutine; one that waits for a row or an index entry is enabled again and again,
and PostgreSQL queues the waiters of a tuple (of `wallets` and `users`, and of
`sessions` and `verification_tokens` too), so it is granted its turn. Weak
fairness would not do: others may take the lock between. No failure, request or
expiry has to happen. `FairSpec` of `Outbox` is weak fairness of each worker's
work: it polls every two seconds, and the container restarts it when it dies
(`docker-compose.yml:12`). Locked rows are skipped, never waited for, so nothing
stronger is needed; a crash is bounded, as a worker that dies in every batch for
ever settles nothing.

## 6. Proofs

All theorems are of the form `Spec => []P` or `Spec => [][A]_vars` or a refinement,
for every value of the constants that satisfies the named assumptions (ids are
numbers, limits are positive, the markers `NoHandler`, `NoWorker`, `NoUser` are
none of the things they stand apart from).

**FiatLedger.** `Inductive` is the argument for writing absolute balances: the row
a handler has locked is, as long as it is locked, what the handler read
(`ReadIsCurrent`); from the checks to the commit it holds all rows of its request
(`LocksFollowCode`); so the value written at the commit is the committed value
plus the amount. `ChecksHold` and `PostedLegsFit` carry the checks and the column's
range to that point. `KeyAppliedOnce` needs the index: two inserters of one key
exclude each other, and a key found free is still free at the commit. From these
follow `LedgerExplains`, `TablesAppendOnly`, `RefusalsAreCurrent`,
`SuccessAnswersCommitted` and `ImplementsPromise`, in which every step is a stutter
but `Commit`, which is `Post` of the abstract ledger. `EveryPostingIsDouble` carries
the request along: every transaction is that of an admitted request, and the
entries of its key are that request's legs, one per wallet it names, which is more
than `DoubleEntry` asks; a commit adds
its legs under a key that had none. `SuccessAnswersCommitted` says whose row a success
answers: the key's, which is the request's own (`KeyIsOwn`) as long as no other request
uses the key; what a reused key answers is the earlier row, and no document says more. `DeadlockFreedom` adds
`LocksAscend`: a handler that waits for a row has only smaller ones, a handler that
waits for a key waits for one that has inserted and waits for nobody; among
handlers waiting only on each other one wants the greatest row, and its holder,
who waits as well, wants a greater one. No bound on handlers or wallets enters but
the greatest id.

**Money.** What the community's `SumFunctionOnSet` computes is a fold over a recursive
function, and induction over data is out of the prover's reach: an induction theorem
takes a predicate as a parameter. `SumTheorems` goes round it with sets. The set of
counterexamples, if not empty, has a least or minimal element, which exists because
`<` is a well-founded set of pairs (`SmallestNumber`, `MinimalSubset`), and the
element before it refutes it. This gives `SumStep`, `SumWithout` (any element may be
taken out, whichever the fold chose) and `SumTelescopes`. `WalletsReconcile` is then
`LedgerExplains` summed up: each entry moves the balance by its amount.
`MoneyIsConserved` looks at the one step that moves money: a commit adds one
transaction to the sum over transactions and changes the balances of its request's wallets, each by
its leg; the legs of a transfer cancel, since both wallets have one currency (it was
checked under their locks), and other currencies see nothing.

**Outbox.** `HandsAreLocked` (in hand implies locked implies pending),
`MarksAreTrue` (a mark of done comes after a send) and `AttemptsWereMade` (what is
counted was called) give exclusive claims, truthful outcomes and their finality;
`ImplementsPromise` maps `Enqueue` to `Publish`, a call of the mail server to
`Deliver`, `Commit` to `Settle` and the rest to stutters. `CopiesAreExplained` needs
`CopiesAreCounted`: as long as an event is not settled, every copy of its email has
an excuse, and the one copy without is the one whose send is committed, or is marked
by the worker that has the event in hand. `CallsAreCounted` bounds the calls in the same
way: a handler is called at most `MaxAttempts` times, and once more for each batch that
was rolled back, since a call is forgotten only with its batch. That is what remains
true of the sentence `outbox_attempts` refutes.

**Accounts.** `RequestsFollowCode` ties each label to its request and to rows that
exist; `CondemnedAreRevoked` and `RotationIsAtomic` survive every unconditional
`UPDATE` because each one writes a reason and none erases one. This is why
`SweptStayDead` and `SpentForGood` hold although `rotate` and `revoke` look at
nothing but the id. `LockMeansReset` says that the users row is held exactly by the
resets between their first `UPDATE` and their commit. `DeadlockFreedom` follows: who is
waited for is such a reset, or a request for a link that has marked its links and wants
no other row; a reset takes users, links and sessions in this order, so it waits only
for one that is further on, and the last of them waits for nobody.

**OverlapProofs.** `rotation`, `reset` and `rehash` of section 4, and the two races of
links, are broken promises of two requests at once. The theorems say which two:

| Promise | Holds as long as (defined in `Accounts`) | Invariant it rests on |
|---|---|---|
| `OneTokenPerLogin` | no session is refreshed twice at the same time (`RefreshesApart`) | `FoundTheToken`: what a refresh found is the one unrevoked session of its login, or the login has none |
| `OneLinkPerUser` | no user's forgotten password is asked for twice at the same time (`ForgetsApart`) | `MarksTheLinks`: a request that has listed the links to mark has every unused one |
| `LinkIsUsedOnce` | a link is not used while another request uses it or asks for its successor (`LinksApart`) | `FoundTheLink`: what a reset found unused still is, up to its commit |
| `PasswordIsTheChosen` | no password is set while its user logs in (`LoginsApart`) | `RightPasswordStays`: the password a login verified is still the one chosen |
| `ResetLogsOutAllDevices` | no token of a user is refreshed while its password is reset (`ResetsApart`) | `EndedStayEnded`: a login ended by a reset has no unrevoked session, and one being ended has none outside the sweep |

Each theorem is `Spec /\ []<condition> => []<promise>`, for any number of handlers,
and everything the condition does not name may overlap: a reset with logins and logouts,
a refresh with refreshes of other sessions. No condition can be dropped: without one of
the five in `Apart`, `accounts_apart` finds the promise of its row broken. Three step lemmas carry the
proofs: no step but a request's own commit revives a session or a link
(`NextIsSessionsStep`, `NextIsLinksStep`), and no step but a reset, a change and a rehash
writes a password (`NextIsPasswordsStep`).

**Registration.** A draft is its statement's work on the committed row, which no
one else writes (`DraftIsCurrent`); a key that was entered is in no other row and
in no other entry (`EnteredAreOwn`), because whoever holds it in the committed
version of a row that is being changed blocks the entry. So a commit puts no key
into a second row (`NamesUnique`), and is one step of `AccountTable` on the row as
it is (`ImplementsPromise`). `VerifiedReached` needs that a draft that verifies
comes from a token with the right purpose, and that it was delivered before it was
presented. `DeadlockFreedom`: who waits for a row holds
nothing, so that a circle without updates is made of registrations; one of them can
only be blocked by another's entered username, so it waits for a username itself
and has entered nothing, and nobody waits for it.

**Wallets.** `DraftIsOwn` is the unique index at work: two open drafts never have
one row. `ReadInOrder` is the argument for pages: a movement that the client should
have seen and has not is preceded, in the order of the query, by at least as many
movements as the client has read past. Commits in between only add to those that
precede it, so it slides to later pages and never to an earlier one; when the
client stops, that number is at least the total, and the movement itself makes one
more. The argument needs the movement to be alone at its time (`Alone`): among
equals `ORDER BY created_at` decides nothing, and TLC shows the property false
without it.

## 7. Only model-checked

Liveness (`Answered`, `EventuallySettled`): fairness and `ENABLED` are out of the
prover's reach. Every other property of a passing run is the statement of a theorem, or, for
the five of `accounts_apart`, of a theorem under the condition its run assumes.
`AtMostMaxAttempts`, `FailuresLock` and `ReuseRevokesAll` have no theorem: the code
breaks them, whatever overlaps.

## 8. Not modelled

- The pool: at most 20 connections. FastAPI caches `get_db` within a request, so a
  request holds one connection, shared with its authentication, and never waits for
  a second one while it holds the first.
- The audit log: inserted in the caller's transaction and never read.
- TOTP: no code path enables it.
- Cookies, headers, response bodies and email texts; request schemas, of which the
  models keep what passes them (`RequestType`). Addresses are equal or not: that a
  profile update keeps the capitals which login lowers (`schemas/profile.py:62`) is
  not visible, nor that the refresh cookie's path `/auth` is not where the routes are
  mounted (`main.py:46-60`): models present every token that was issued.
- Password hashing, encryption of tokens, JWT signatures: values that are equal or
  not, expired or not.
- The second lockout threshold (10 failures) and the end of a lock in time: no lock
  outlives the rollback that undoes it.
- Reads that only list (`list_wallets`, `get_wallet`, the profile): they change
  nothing and answer one committed version. `list_transactions` is modelled, because
  it is three reads and a cursor.
- Migrations: their constraints are part of the models, their order is not.
- `cards` and `crypto`: empty.

## 9. Plan

1. Done: `FiatLedger`, `Outbox`, `Accounts`, `Registration`, `Wallets`, the abstract
   specifications `DoubleEntryLedger`, `EventDelivery` and `AccountTable`, and the
   proofs of section 6, which cover every safety property that holds.
2. Left: a composition of `Accounts`, `Registration` and `Outbox`, so that a link
   sent is an event delivered; today each of the first two takes the outbox as the
   promise `EventDelivery` proves (an event that commits is sent at least once, if
   the mail server takes it).
