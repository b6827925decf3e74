----------------------------- MODULE Registration -----------------------------
(***************************************************************************)
(* Who is who: registration, email verification, changes of username and   *)
(* email address, and deactivation, as they meet in the users table        *)
(* (src/app/users/services/auth.py, session_auth.py and profile.py over    *)
(* src/app/users/repository.py).                                           *)
(*                                                                         *)
(* A transaction writes one row.  Until it commits the row is its draft:   *)
(* other writers of the row wait, readers see the committed one.  An       *)
(* INSERT, or an UPDATE of a key, then enters the username and the email   *)
(* address of the row in the two unique indexes, in the order in which     *)
(* these were created, and waits at each for the open transaction whose    *)
(* outcome decides whether the key is free.  When requests wait for each   *)
(* other PostgreSQL aborts one of them.                                    *)
(***************************************************************************)
EXTENDS Integers, FiniteSets

CONSTANTS
    Handlers,   \* requests served at the same time
    Users,      \* user ids, in the order of use
    NoUser,
    Names,      \* usernames
    Emails,     \* email addresses
    NoKey,
    NotGiven,   \* a field that an update leaves out
    Requests,   \* the requests clients make
    RowsLoad,   \* whether UserRecord(**dict(row)) accepts the rows selected:
                \* FALSE at this commit, as in Accounts
    IdsPassed   \* whether the profile routes pass on the id they declare:
                \* FALSE at this commit, as in Accounts

Tokens == [purpose : {"verify_email", "access"}, user : Users]

RequestType ==
    [op : {"register"}, name : Names, email : Emails]
    \cup {r \in [op : {"update"}, user : Users, name : Names \cup {NotGiven},
                 email : Emails \cup {NotGiven}] :
              r.name # NotGiven \/ r.email # NotGiven}
    \cup [op : {"verify"}, token : Tokens]
    \cup [op : {"resend"}, email : Emails]
    \cup [op : {"deactivate"}, user : Users]

ASSUME UsersAssumption == Users \subseteq Nat /\ NoUser \notin Users
ASSUME KeysAssumption ==
    /\ Names \cap Emails = {}
    /\ {NoKey, NotGiven} \cap (Names \cup Emails) = {}
ASSUME RequestsAssumption == Requests \subseteq RequestType
ASSUME SwitchesAssumption == RowsLoad \in BOOLEAN /\ IdsPassed \in BOOLEAN

VARIABLES
    users,   \* the committed users rows
    mail,    \* users with a verification email on its way in the outbox
    inbox,   \* users for whom one was delivered
    draft,   \* the row that the open transaction of each handler wrote
    pc,      \* where each handler is
    req,     \* the request it serves
    found    \* resend: the user it read

vars == <<users, mail, inbox, draft, pc, req, found>>

-----------------------------------------------------------------------------
(* Rows and keys *)

Nothing == [op |-> "none"]
NoRow == [state |-> "absent", name |-> NoKey, email |-> NoKey, verified |-> FALSE]
NoDraft == [user |-> NoUser, row |-> NoRow]

Present(u) == users[u].state # "absent"
Active(u) == users[u].state = "active"
Holds(u, k) == Present(u) /\ k \in {users[u].name, users[u].email}

\* get_by_email and get_by_username: a deactivated user is not found.
InUse(k) == \E u \in Users : Active(u) /\ Holds(u, k)

Open(h) == draft[h].user # NoUser

\* mutant: the fields that were not sent are written as well
GivenOrNull(new, old) == new
Given(new, old) == IF new = NotGiven THEN old ELSE new

\* What each statement makes of the row as it is when the statement gets it.
Written(row, r) ==
    CASE r.op = "register" ->
            [state |-> "active", name |-> r.name, email |-> r.email, verified |-> FALSE]
      [] r.op = "update" ->
            [row EXCEPT !.name = Given(r.name, @), !.email = Given(r.email, @)]
      [] r.op = "verify" -> [row EXCEPT !.verified = TRUE]
      [] r.op = "deactivate" -> [row EXCEPT !.state = "inactive"]

UserOf(r) == IF r.op = "verify" THEN r.token.user ELSE r.user

\* The key that h enters next, and those it has entered.
NextKey(h) == IF pc[h] = "username" THEN draft[h].row.name ELSE draft[h].row.email
EnteredAtOnce(h) ==  \* mutant: both keys are entered first and checked afterwards
    IF pc[h] \in {"username", "email", "commit"}
    THEN {draft[h].row.name, draft[h].row.email} ELSE {}
Entered(h) ==
    (IF pc[h] \in {"email", "commit"} THEN {draft[h].row.name} ELSE {})
    \cup (IF pc[h] = "commit" THEN {draft[h].row.email} ELSE {})

\* h waits for g: for the row that g wrote, or for a key that g has entered or
\* holds in the committed version of the row it wrote.
BlocksNothing(g, h) == FALSE  \* mutant: nobody waits
Blocks(g, h) ==
    /\ g # h
    /\ Open(g)
    /\ \/ pc[h] = "lock" /\ draft[g].user = UserOf(req[h])
       \/ /\ pc[h] \in {"username", "email"}
          /\ NextKey(h) \in Entered(g) \/ Holds(draft[g].user, NextKey(h))

Free(h) == \A g \in Handlers : ~Blocks(g, h)

\* Another row holds the key, in use or given up.
TakenInUse(h) ==  \* mutant: the index leaves deactivated users out
    \E u \in Users \ {draft[h].user} : Active(u) /\ Holds(u, NextKey(h))
Taken(h) == \E u \in Users \ {draft[h].user} : Holds(u, NextKey(h))

\* Requests that all wait for one another.
Cycle(S) ==
    /\ S # {}
    /\ \A h \in S : (\E g \in S : Blocks(g, h)) /\ (\E g \in S : Blocks(h, g))

-----------------------------------------------------------------------------
(* Requests arrive *)

\* The transaction is over, committed or rolled back, and so are its locks.
LeftOpen(h) == draft  \* mutant: the connection goes back with its transaction open
Closed(h) == [draft EXCEPT ![h] = NoDraft]

Finish(h) ==
    /\ pc' = [pc EXCEPT ![h] = "idle"]
    /\ req' = [req EXCEPT ![h] = Nothing]
    /\ draft' = Closed(h)
    /\ found' = [found EXCEPT ![h] = NoUser]

Goto(h, label) ==
    /\ pc' = [pc EXCEPT ![h] = label]
    /\ UNCHANGED req

At(h, label, op) == pc[h] = label /\ req[h].op = op

Init ==
    /\ users = [u \in Users |-> NoRow]
    /\ mail = {}
    /\ inbox = {}
    /\ draft = [h \in Handlers |-> NoDraft]
    /\ pc = [h \in Handlers |-> "idle"]
    /\ req = [h \in Handlers |-> Nothing]
    /\ found = [h \in Handlers |-> NoUser]

Unused == {u \in Users : ~Present(u) /\ \A h \in Handlers : draft[h].user # u}

\* A token is presented by who was given it: a verification token was mailed, an
\* access token was issued at a login; get_current_user finds the user.
Presentable(r) ==
    CASE r.op = "verify" ->
            IF r.token.purpose = "access" THEN Present(r.token.user)
            ELSE r.token.user \in inbox
      [] r.op \in {"update", "deactivate"} -> RowsLoad /\ Active(r.user)
      [] OTHER -> TRUE

\* Bound of the model: nobody registers when there is no id left.
Room(r) ==
    r.op = "register" =>
        Cardinality({h \in Handlers : req[h].op = "register"})
            < Cardinality({u \in Users : ~Present(u)})

Receive(h, r) ==
    /\ pc[h] = "idle"
    /\ Presentable(r)
    /\ Room(r)
    /\ pc' = [pc EXCEPT ![h] = "begin"]
    /\ req' = [req EXCEPT ![h] = r]
    /\ UNCHANGED <<users, mail, inbox, draft, found>>

-----------------------------------------------------------------------------
(* RegisterService *)

\* Answered 409, or 500 if the row found does not load; the audit row of the
\* refusal is rolled back with the rest.
RefuseTaken(h) ==
    /\ \/ At(h, "begin", "register") /\ InUse(req[h].email)
       \/ pc[h] = "name" /\ InUse(req[h].name)
    /\ Finish(h)
    /\ UNCHANGED <<users, mail, inbox>>

EmailIsFree(h) ==
    /\ At(h, "begin", "register")
    /\ ~InUse(req[h].email)
    /\ Goto(h, "name")
    /\ UNCHANGED <<users, mail, inbox, draft, found>>

\* The username is free as well: the row is inserted.
Insert(h) ==
    /\ pc[h] = "name"
    /\ ~InUse(req[h].name)
    /\ \E u \in Unused :
          /\ \A v \in Unused : u <= v
          /\ draft' = [draft EXCEPT ![h] = [user |-> u, row |-> Written(NoRow, req[h])]]
    /\ Goto(h, "username")
    /\ UNCHANGED <<users, mail, inbox, found>>

-----------------------------------------------------------------------------
(* The unique indexes, for an INSERT or an UPDATE *)

EnterKey(h) ==
    /\ pc[h] \in {"username", "email"}
    /\ Free(h)
    /\ ~Taken(h)
    /\ Goto(h, IF pc[h] = "username" THEN "email" ELSE "commit")
    /\ UNCHANGED <<users, mail, inbox, draft, found>>

\* UniqueViolationError undoes the transaction.  update_profile answers 409;
\* register, which does not expect it after its lookups, answers 500.
Collide(h) ==
    /\ pc[h] \in {"username", "email"}
    /\ Free(h)
    /\ Taken(h)
    /\ Finish(h)
    /\ UNCHANGED <<users, mail, inbox>>

-----------------------------------------------------------------------------
(* ProfileService.update_profile, deactivate_account and verify_email *)

\* decode_purpose_token checks the signature, the age and the purpose.
DecodesAny(token) == TRUE  \* mutant: any token of ours will do
Decodes(token) == token.purpose = "verify_email"

\* Whether the handler goes on to its UPDATE.  update_profile does not look the
\* user up again; a verified user is left as it is.
MayWrite(r) ==
    CASE r.op = "verify" ->
            /\ Decodes(r.token)
            /\ RowsLoad /\ Active(r.token.user) /\ ~users[r.token.user].verified
      [] r.op = "update" -> IdsPassed
      [] r.op = "deactivate" -> IdsPassed /\ RowsLoad /\ Active(r.user)

\* Answered without a write; a verification token may have expired by now.
LeaveRow(h) ==
    /\ pc[h] = "begin"
    /\ req[h].op \in {"update", "verify", "deactivate"}
    /\ ~MayWrite(req[h]) \/ req[h].op = "verify"
    /\ Finish(h)
    /\ UNCHANGED <<users, mail, inbox>>

FindRow(h) ==
    /\ pc[h] = "begin"
    /\ req[h].op \in {"update", "verify", "deactivate"}
    /\ MayWrite(req[h])
    /\ Goto(h, "lock")
    /\ UNCHANGED <<users, mail, inbox, draft, found>>

\* UPDATE users ... WHERE id = $1: the row may have changed since it was read,
\* and nothing but its id is looked at.  Only update touches a unique key.
WriteRow(h) ==
    /\ pc[h] = "lock"
    /\ Free(h)
    /\ LET u == UserOf(req[h]) IN
          draft' = [draft EXCEPT ![h] = [user |-> u, row |-> Written(users[u], req[h])]]
    /\ Goto(h, IF req[h].op = "update" THEN "username" ELSE "commit")
    /\ UNCHANGED <<users, mail, inbox, found>>

\* The transaction commits, with the email of a registration in the outbox.
Commit(h) ==
    /\ pc[h] = "commit"
    /\ users' = [users EXCEPT ![draft[h].user] = draft[h].row]
    /\ mail' = IF req[h].op = "register"
               THEN mail \cup {draft[h].user} ELSE mail
    /\ UNCHANGED inbox
    /\ IF req[h].op = "update"
       THEN /\ Goto(h, "readback")
            /\ draft' = Closed(h)
            /\ UNCHANGED found
       ELSE Finish(h)

\* The route of update_profile reads the profile it answers with: 404, for a
\* change that was made, when the account was deactivated meanwhile.
ReadBack(h) ==
    /\ pc[h] = "readback"
    /\ Finish(h)
    /\ UNCHANGED <<users, mail, inbox>>

-----------------------------------------------------------------------------
(* EmailVerificationService.resend_verification *)

Unverified(e) == {u \in Users : Active(u) /\ Holds(u, e) /\ ~users[u].verified}

\* Unknown and verified addresses are answered like the others.
IgnoreResend(h) ==
    /\ At(h, "begin", "resend")
    /\ ~RowsLoad \/ Unverified(req[h].email) = {}
    /\ Finish(h)
    /\ UNCHANGED <<users, mail, inbox>>

FindUnverified(h) ==
    /\ At(h, "begin", "resend")
    /\ RowsLoad
    /\ \E u \in Unverified(req[h].email) : found' = [found EXCEPT ![h] = u]
    /\ Goto(h, "enqueue")
    /\ UNCHANGED <<users, mail, inbox, draft>>

\* To the address that was read, whosever it is by now.
EnqueueMail(h) ==
    /\ pc[h] = "enqueue"
    /\ mail' = mail \cup {found[h]}
    /\ Finish(h)
    /\ UNCHANGED <<users, inbox>>

-----------------------------------------------------------------------------
(* The worker, and what goes wrong *)

\* The worker delivers an email some time after it was committed, or gives up.
Deliver(u) ==
    /\ u \in mail
    /\ mail' = mail \ {u}
    /\ inbox' = inbox \cup {u}
    /\ UNCHANGED <<users, draft, pc, req, found>>

GiveUp(u) ==
    /\ u \in mail
    /\ mail' = mail \ {u}
    /\ UNCHANGED <<users, inbox, draft, pc, req, found>>

\* The connection or the process is lost, and with it the open transaction.
Lose(h) ==
    /\ pc[h] # "idle"
    /\ Finish(h)
    /\ UNCHANGED <<users, mail, inbox>>

\* PostgreSQL aborts one of the transactions that wait for each other.
DeadlockVictim(h) ==
    /\ \E S \in SUBSET Handlers : h \in S /\ Cycle(S)
    /\ Finish(h)
    /\ UNCHANGED <<users, mail, inbox>>

\* Nobody calls: the API may stay idle for ever.
Quiet ==
    /\ \A h \in Handlers : pc[h] = "idle"
    /\ UNCHANGED vars

Register(h) == RefuseTaken(h) \/ EmailIsFree(h) \/ Insert(h)
Index(h) == EnterKey(h) \/ Collide(h) \/ DeadlockVictim(h)
Change(h) == LeaveRow(h) \/ FindRow(h) \/ WriteRow(h) \/ Commit(h) \/ ReadBack(h)
Resend(h) == IgnoreResend(h) \/ FindUnverified(h) \/ EnqueueMail(h)

Step(h) == Register(h) \/ Index(h) \/ Change(h) \/ Resend(h)

Next ==
    \/ \E h \in Handlers : Step(h) \/ Lose(h) \/ \E r \in Requests : Receive(h, r)
    \/ \E u \in Users : Deliver(u) \/ GiveUp(u)
    \/ Quiet

Spec == Init /\ [][Next]_vars

\* The server runs every request it accepted; PostgreSQL wakes who waits for a
\* row or a key, and finds deadlocks after deadlock_timeout.
FairSpec == Spec /\ \A h \in Handlers : SF_vars(Step(h))

-----------------------------------------------------------------------------
(* Properties *)

Labels == {"idle", "begin", "name", "lock", "username", "email", "commit", "readback",
           "enqueue"}
RowType == [state : {"absent", "active", "inactive"}, name : Names \cup {NoKey},
            email : Emails \cup {NoKey}, verified : BOOLEAN]

TypeOK ==
    /\ users \in [Users -> RowType]
    /\ mail \subseteq Users /\ inbox \subseteq Users
    /\ draft \in [Handlers -> [user : Users \cup {NoUser}, row : RowType]]
    /\ pc \in [Handlers -> Labels]
    /\ req \in [Handlers -> Requests \cup {Nothing}]
    /\ found \in [Handlers -> Users \cup {NoUser}]

\* No two rows have one username or one email address, those of deactivated users
\* included (auth.py:84-112 looks, the indexes of users decide: concurrent
\* registrations and changes all pass the lookups).
NamesAreUnique ==
    \A u, v \in Users, k \in Names \cup {NoKey} \cup Emails :
        Holds(u, k) /\ Holds(v, k) => u = v

\* An account is verified only after a verification email for it was delivered
\* (session_auth.py:29-47): no other token of the user, and no update of the row
\* that overlaps, verifies it.
VerifiedWasReached ==
    \A u \in Users : users[u].verified => u \in inbox

\* Requests wait for one another in a circle only if one of them updates a
\* profile (profile.py:81-87): registrations, verifications and deactivations
\* alone never deadlock, as all enter their keys in one order.
DeadlocksNeedUpdates ==
    \A S \in SUBSET Handlers : Cycle(S) => \E h \in S : req[h].op = "update"

\* Every accepted request is answered, also when it waits for a row, for a key or
\* in a circle.
Answered == \A h \in Handlers : pc[h] = "begin" ~> pc[h] = "idle"

-----------------------------------------------------------------------------
(* The inductive invariant *)

\* Each label belongs to its requests; a request names rows that exist.
RequestFollowsCode(h) ==
    /\ pc[h] = "idle" <=> req[h] = Nothing
    /\ pc[h] = "name" => req[h].op = "register"
    /\ pc[h] = "lock" => req[h].op \in {"update", "verify", "deactivate"}
    /\ pc[h] \in {"username", "email"} => req[h].op \in {"register", "update"}
    /\ pc[h] = "commit" => req[h].op \in {"register", "update", "verify", "deactivate"}
    /\ pc[h] = "readback" => req[h].op = "update"
    /\ pc[h] = "enqueue" => req[h].op = "resend" /\ found[h] \in Users
    /\ req[h].op \in {"update", "deactivate"} => Present(req[h].user)
    /\ req[h].op = "verify" /\ pc[h] # "begin"
          => Decodes(req[h].token) /\ Present(req[h].token.user)
    /\ req[h].op = "verify" /\ Decodes(req[h].token) => req[h].token.user \in inbox

\* A draft is its statement's work on the committed row, which nobody else writes.
DraftIsCurrent(h) ==
    /\ Open(h) <=> pc[h] \in {"username", "email", "commit"}
    /\ Open(h) =>
          /\ draft[h].row = Written(users[draft[h].user], req[h])
          /\ IF req[h].op = "register" THEN ~Present(draft[h].user)
             ELSE draft[h].user = UserOf(req[h])
          /\ \A g \in Handlers \ {h} : draft[g].user # draft[h].user

\* A key that was entered is nobody else's.
EnteredAreOwn(h) ==
    \A k \in Entered(h) :
        /\ \A u \in Users \ {draft[h].user} : ~Holds(u, k)
        /\ \A g \in Handlers \ {h} : k \notin Entered(g)

HandlersAreTrue ==
    \A h \in Handlers : RequestFollowsCode(h) /\ DraftIsCurrent(h) /\ EnteredAreOwn(h)

\* Rows in the table are complete.
RowsAreWhole ==
    \A u \in Users : Present(u) => users[u].name \in Names /\ users[u].email \in Emails

\* What all requests together preserve: the inductive invariant behind the
\* properties above (auth.py, session_auth.py and profile.py taken together).
Inductive ==
    /\ TypeOK
    /\ HandlersAreTrue
    /\ RowsAreWhole
    /\ NamesAreUnique
    /\ VerifiedWasReached

-----------------------------------------------------------------------------
\* What the table promises, with no draft, key or lookup in sight: a request is
\* still to be carried out until it commits.
Promise == INSTANCE AccountTable WITH
    table <- users,
    pending <- [h \in Handlers |-> IF pc[h] = "readback" THEN Nothing ELSE req[h]]

\* Every change is made at once, to the row as it is, with no field lost to a
\* change that overlaps and no account brought back (profile.py:81-87,
\* session_auth.py:36-44).
Implements == Promise!Spec

=============================================================================
