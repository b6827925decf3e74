------------------------------- MODULE Accounts -------------------------------
(***************************************************************************)
(* Accounts and their sessions: login, refresh, logout, revoking a         *)
(* session, resetting and changing the password, deactivation              *)
(* (src/app/users/services/*.py over src/app/users/repository.py).         *)
(*                                                                         *)
(* Handlers are API requests, each with its own connection.  Under READ    *)
(* COMMITTED every statement sees what was committed when it began, so a   *)
(* row read by one statement may have changed before the next: each SELECT *)
(* is a step and the writes with the commit another.  Only the statements  *)
(* over many rows need more: what "UPDATE ... WHERE user_id = $1" will     *)
(* touch is fixed when it begins, and rows committed meanwhile escape it.  *)
(* A raise inside conn.transaction() undoes all the transaction wrote.     *)
(*                                                                         *)
(* A session id stands for the row and for its refresh token, which only   *)
(* its hash ties to the row; a link stands for a verification_tokens row   *)
(* of type password_reset and the token mailed to the user.                *)
(***************************************************************************)
EXTENDS Integers, FiniteSets

CONSTANTS
    Handlers,    \* requests served at the same time
    NoHandler,
    Users,
    NoUser,
    Sessions,    \* ids the sessions table may use, in the order of use
    Links,       \* ids of password reset tokens, in the order of use
    Passwords,
    Requests,    \* the requests clients make
    LockAfter,   \* failures that lock an account (_LOCKOUT_THRESHOLDS: 6)
    RowsLoad,    \* whether UserRecord(**dict(row)) accepts the rows that
                 \* get_by_id and get_by_email select: FALSE at this commit,
                 \* where is_active is required and not selected
    IdsPassed    \* whether the routes of sessions and profiles pass on the id
                 \* they declare (user_id: UUID): FALSE at this commit, where
                 \* get_current_user gives them a UserRecord

None == 0
Ids == Sessions \cup {None}

RequestType ==
    [op : {"login"}, user : Users, password : Passwords]
    \cup [op : {"refresh"}, session : Sessions]
    \cup [op : {"logout", "revoke"}, user : Users, session : Sessions]
    \cup [op : {"forgot", "deactivate"}, user : Users]
    \cup [op : {"reset"}, link : Links, password : Passwords]
    \cup [op : {"change"}, user : Users, current : Passwords, password : Passwords]

ASSUME HandlersAssumption == NoHandler \notin Handlers
ASSUME UsersAssumption == NoUser \notin Users
ASSUME IdsAssumption ==
    /\ Sessions \subseteq Nat \ {0}
    /\ Links \subseteq Nat \ {0}
ASSUME RequestsAssumption == Requests \subseteq RequestType
ASSUME LimitsAssumption ==
    /\ LockAfter \in Nat \ {0}
    /\ RowsLoad \in BOOLEAN
    /\ IdsPassed \in BOOLEAN

VARIABLES
    users,     \* the committed users rows
    sessions,  \* the committed sessions rows
    links,     \* the committed password reset tokens
    userLock,  \* the handler whose open transaction wrote the users row
    pc,        \* where each handler is
    req,       \* the request it serves
    seen,      \* login: the users row it read
    targets,   \* rows its open "UPDATE ... WHERE user_id" has to touch
    wrong,     \* history: wrong passwords given since the last success
    chosen,    \* history: the password last set by registration, reset, change
    condemned, \* history: sessions ended by committed resets
    ended,     \* history: logins older than a committed reset of their user
    reused     \* history: sessions to end since a rotated token came back

requests == <<pc, req, seen, targets>>
history == <<wrong, chosen, condemned, ended, reused>>
vars == <<users, sessions, links, userLock, requests, history>>

-----------------------------------------------------------------------------
(* Definitions *)

Nothing == [op |-> "none"]
NoRow == [failed |-> 0, oldHash |-> FALSE]

UserType == [password : Passwords, oldHash : BOOLEAN, failed : Nat,
             locked : BOOLEAN, active : BOOLEAN]

\* revoked_at and revoked_reason in one: a status outside Unrevoked is the reason.
Unrevoked == {"live", "expired"}
Reasons == {"rotated", "logout", "user_revoked", "password_reset", "security_action"}

NoSession == [status |-> "absent", user |-> NoUser, from |-> None, login |-> None]
NoLink == [status |-> "absent", user |-> NoUser]

Issued == {s \in Sessions : sessions[s].status # "absent"}
LiveOf(u) == {s \in Sessions : sessions[s].user = u /\ sessions[s].status = "live"}
UnrevokedOfNobody(u) == {}  \* mutant: the sweep filters on the wrong column
UnrevokedOf(u) == {s \in Sessions : sessions[s].user = u /\ sessions[s].status \in Unrevoked}
ExpiredOf(u) ==  \* mutant: only expired links are invalidated
    {l \in Links : links[l].user = u /\ links[l].status = "expired"}
UnusedOf(u) == {l \in Links : links[l].user = u /\ links[l].status \in {"valid", "expired"}}

Unsent == {l \in Links : links[l].status = "absent"}

\* Rows are numbered in the order they are inserted.
IsNext(x, unused) == x \in unused /\ \A y \in unused : x <= y

\* get_by_id and get_by_email: inactive users are not found, and a row that is
\* found may still fail to load.
Found(u) == users[u].active
Loads(u) == Found(u) /\ RowsLoad

\* ProfileService looks up what its route passed on: a UserRecord in the place of
\* a UUID is an error of the query.
ProfileLoads(u) == IdsPassed /\ Loads(u)

\* _register_failed_attempt, from the row that was read.
Failed(row, before) ==
    [row EXCEPT !.failed = before.failed + 1, !.locked = before.failed + 1 >= LockAfter]

\* A raise leaves conn.transaction(): the table is as before, not as written.
AfterRaise(table, written) == table

\* revoke_all_for_user, over the rows its snapshot found; one that was revoked
\* while the statement waited for it no longer qualifies.
SweptUnexpired(found, reason) ==  \* mutant: expired sessions are left out
    [s \in Sessions |-> IF s \in found /\ sessions[s].status = "live"
                        THEN [sessions[s] EXCEPT !.status = reason]
                        ELSE sessions[s]]
Swept(found, reason) ==
    [s \in Sessions |-> IF s \in found /\ sessions[s].status \in Unrevoked
                        THEN [sessions[s] EXCEPT !.status = reason]
                        ELSE sessions[s]]

\* An UPDATE waits for the open transaction that wrote its row last.  Only a reset
\* and a request for a link have more to do after an UPDATE, so that only they hold
\* rows between two steps: the users row (userLock), and once their UPDATE of links
\* or sessions is through, the rows it found; a statement takes all of its rows at once.
RowIsFree(u) == userLock[u] = NoHandler

HeldLinks(h) ==
    {l \in Links : \/ pc[h] \in {"sweep", "reset"} /\ l = req[h].link
                   \/ pc[h] = "send" /\ l \in targets[h]}
HeldSessions(h) == {s \in Sessions : pc[h] = "reset" /\ s \in targets[h]}

LinksAreFree(rows) == \A h \in Handlers : HeldLinks(h) \cap rows = {}
SessionsAreFree(rows) == \A h \in Handlers : HeldSessions(h) \cap rows = {}

\* The transaction that wrote the row is over.
StillLocked(u) == userLock  \* mutant: the transaction is left open
Unlocked(u) == [userLock EXCEPT ![u] = NoHandler]

Finish(h) ==
    /\ pc' = [pc EXCEPT ![h] = "idle"]
    /\ req' = [req EXCEPT ![h] = Nothing]
    /\ seen' = [seen EXCEPT ![h] = NoRow]
    /\ targets' = [targets EXCEPT ![h] = {}]

Goto(h, label) ==
    /\ pc' = [pc EXCEPT ![h] = label]
    /\ UNCHANGED req

At(h, label, op) == pc[h] = label /\ req[h].op = op

tables == <<users, sessions, links>>

-----------------------------------------------------------------------------
(* Requests arrive *)

Init ==
    /\ \E start \in [Users -> Passwords \X BOOLEAN] :
          /\ users = [u \in Users |-> [password |-> start[u][1], oldHash |-> start[u][2],
                                       failed |-> 0, locked |-> FALSE, active |-> TRUE]]
          /\ chosen = [u \in Users |-> start[u][1]]
    /\ sessions = [s \in Sessions |-> NoSession]
    /\ links = [l \in Links |-> NoLink]
    /\ userLock = [u \in Users |-> NoHandler]
    /\ pc = [h \in Handlers |-> "idle"]
    /\ req = [h \in Handlers |-> Nothing]
    /\ seen = [h \in Handlers |-> NoRow]
    /\ targets = [h \in Handlers |-> {}]
    /\ wrong = [u \in Users |-> 0]
    /\ condemned = {}
    /\ ended = {}
    /\ reused = {}

\* get_current_user: an access token needs a login, and a user that loads.
Authenticated(u) == Loads(u) /\ \E s \in Issued : sessions[s].user = u

\* Tokens are never guessed: a client presents one it was given.
Presentable(r) ==
    CASE r.op \in {"login", "forgot"} -> TRUE
      [] r.op = "refresh" -> r.session \in Issued
      [] r.op \in {"logout", "revoke"} -> Authenticated(r.user) /\ r.session \in Issued
      [] r.op \in {"change", "deactivate"} -> Authenticated(r.user)
      [] r.op = "reset" -> links[r.link].status # "absent"

\* Bound of the model: a request that may need a fresh id is made only while
\* there is one for it.
Serving(ops) == {h \in Handlers : req[h].op \in ops}
Room(r) ==
    CASE r.op \in {"login", "refresh"} ->
            Cardinality(Serving({"login", "refresh"})) < Cardinality(Sessions \ Issued)
      [] r.op = "forgot" ->
            Cardinality(Serving({"forgot"}))
               < Cardinality(Unsent)
      [] OTHER -> TRUE

Receive(h, r) ==
    /\ pc[h] = "idle"
    /\ Presentable(r)
    /\ Room(r)
    /\ pc' = [pc EXCEPT ![h] = "begin"]
    /\ req' = [req EXCEPT ![h] = r]
    /\ UNCHANGED <<tables, userLock, seen, targets, history>>

-----------------------------------------------------------------------------
(* LoginService *)

DenyLogin(h) ==
    /\ At(h, "begin", "login")
    /\ LET u == req[h].user IN
          /\ ~Loads(u) \/ users[u].locked
          /\ Finish(h)
    /\ UNCHANGED <<tables, userLock, history>>

CheckPassword(h) ==
    /\ At(h, "begin", "login")
    /\ LET u == req[h].user IN
          /\ Loads(u)
          /\ ~users[u].locked
          /\ seen' = [seen EXCEPT ![h] = [failed |-> users[u].failed,
                                          oldHash |-> users[u].oldHash]]
          /\ Goto(h, IF users[u].password = req[h].password THEN "issue" ELSE "miss")
    /\ UNCHANGED <<tables, userLock, targets, history>>

\* The failure is counted, and then LoginError is raised inside the transaction.
CountFailure(h) ==
    /\ pc[h] = "miss"
    /\ LET u == req[h].user IN
          /\ RowIsFree(u)
          /\ users' = AfterRaise(users, [users EXCEPT ![u] = Failed(@, seen[h])])
          /\ wrong' = [wrong EXCEPT ![u] = IF @ < LockAfter THEN @ + 1 ELSE @]
    /\ Finish(h)
    /\ UNCHANGED <<sessions, links, userLock, chosen, condemned, ended, reused>>

\* What login writes to the row of a user whose password was right: a hash of
\* the password given, when the hash read was outdated, and no more failures.
LoggedInDecremented(row, before, password) ==  \* mutant: the counter is not set to 0
    [row EXCEPT !.failed = before.failed - 1]
LoggedIn(row, before, password) ==
    [row EXCEPT !.password = IF before.oldHash THEN password ELSE @,
                !.oldHash = IF before.oldHash THEN FALSE ELSE @,
                !.failed = 0,
                !.locked = FALSE]

IssueSession(h) ==
    /\ pc[h] = "issue"
    /\ LET u == req[h].user IN
          /\ RowIsFree(u)
          /\ users' = [users EXCEPT ![u] = LoggedIn(@, seen[h], req[h].password)]
          /\ \E s \in Sessions :
                /\ IsNext(s, Sessions \ Issued)
                /\ sessions' = [sessions EXCEPT ![s] =
                      [status |-> "live", user |-> u, from |-> None, login |-> s]]
          /\ wrong' = [wrong EXCEPT ![u] = 0]
    /\ Finish(h)
    /\ UNCHANGED <<links, userLock, chosen, condemned, ended, reused>>

-----------------------------------------------------------------------------
(* RefreshService *)

\* get_by_token_hash finds unrevoked sessions only, the expired ones included.
RefuseToken(h) ==
    /\ At(h, "begin", "refresh")
    /\ sessions[req[h].session].status \notin {"live", "rotated"}
    /\ Finish(h)
    /\ UNCHANGED <<tables, userLock, history>>

\* A rotated token came back: every session of the user is revoked, and then
\* InvalidRefreshTokenError is raised inside the transaction.
DetectReuse(h) ==
    /\ At(h, "begin", "refresh")
    /\ sessions[req[h].session].status = "rotated"
    /\ LET u == sessions[req[h].session].user IN
          /\ SessionsAreFree(UnrevokedOf(u))
          /\ sessions' = AfterRaise(sessions, Swept(UnrevokedOf(u), "security_action"))
          /\ reused' = reused \cup LiveOf(u)
    /\ Finish(h)
    /\ UNCHANGED <<users, links, userLock, wrong, chosen, condemned, ended>>

FindSession(h) ==
    /\ At(h, "begin", "refresh")
    /\ sessions[req[h].session].status = "live"
    /\ Goto(h, "user")
    /\ UNCHANGED <<tables, userLock, seen, targets, history>>

CheckUser(h) ==
    /\ pc[h] = "user"
    /\ LET u == sessions[req[h].session].user IN
          \/ /\ ~Loads(u) \/ users[u].locked
             /\ Finish(h)
          \/ /\ Loads(u)
             /\ ~users[u].locked
             /\ Goto(h, "rotate")
             /\ UNCHANGED <<seen, targets>>
    /\ UNCHANGED <<tables, userLock, history>>

\* rotate: the row of the old session is updated whatever has become of it.
RotatedKeeping(old, new) ==  \* mutant: the old session is not revoked
    [sessions EXCEPT ![new] = [status |-> "live", user |-> sessions[old].user,
                               from |-> old, login |-> sessions[old].login]]
RotatedWrittenBack(old, new) ==  \* mutant: the row is saved as it was read, unrevoked
    [sessions EXCEPT
        ![new] = [status |-> "live", user |-> sessions[old].user,
                  from |-> old, login |-> sessions[old].login],
        ![old].status = "live"]
Rotated(old, new) ==
    [sessions EXCEPT
        ![new] = [status |-> "live", user |-> sessions[old].user,
                  from |-> old, login |-> sessions[old].login],
        ![old].status = "rotated"]

Rotate(h) ==
    /\ pc[h] = "rotate"
    /\ SessionsAreFree({req[h].session})
    /\ \E s \in Sessions :
          /\ IsNext(s, Sessions \ Issued)
          /\ sessions' = Rotated(req[h].session, s)
    /\ Finish(h)
    /\ UNCHANGED <<users, links, userLock, history>>

-----------------------------------------------------------------------------
(* LogoutService and SessionManagementService.revoke_session *)

\* The one finds unrevoked sessions by their token, the other any by its id, but
\* no user_id equals a UserRecord.
MayRevoke(r) ==
    /\ sessions[r.session].user = r.user
    /\ r.op = "logout" => sessions[r.session].status \in Unrevoked
    /\ r.op = "revoke" => IdsPassed

FindOwnSession(h) ==
    /\ pc[h] = "begin"
    /\ req[h].op \in {"logout", "revoke"}
    /\ MayRevoke(req[h])
    /\ Goto(h, "revoke")
    /\ UNCHANGED <<tables, userLock, seen, targets, history>>

RefuseRevocation(h) ==
    /\ pc[h] = "begin"
    /\ req[h].op \in {"logout", "revoke"}
    /\ ~MayRevoke(req[h])
    /\ Finish(h)
    /\ UNCHANGED <<tables, userLock, history>>

\* revoke: whatever has become of the row, the reason is written over it.
Revoked(s, reason) == [sessions EXCEPT ![s].status = reason]

RevokeSession(h) ==
    /\ pc[h] = "revoke"
    /\ SessionsAreFree({req[h].session})
    /\ sessions' = Revoked(req[h].session,
                           IF req[h].op = "logout" THEN "logout" ELSE "user_revoked")
    /\ Finish(h)
    /\ UNCHANGED <<users, links, userLock, history>>

-----------------------------------------------------------------------------
(* PasswordResetService *)

\* An unknown email is answered like a known one, a row that does not load 500.
IgnoreForgot(h) ==
    /\ At(h, "begin", "forgot")
    /\ ~Loads(req[h].user)
    /\ Finish(h)
    /\ UNCHANGED <<tables, userLock, history>>

FindForgetful(h) ==
    /\ At(h, "begin", "forgot")
    /\ Loads(req[h].user)
    /\ Goto(h, "invalidate")
    /\ UNCHANGED <<tables, userLock, seen, targets, history>>

\* invalidate_all_for_user begins: the unused links it will mark.
InvalidateLinks(h) ==
    /\ pc[h] = "invalidate"
    /\ targets' = [targets EXCEPT ![h] = UnusedOf(req[h].user)]
    /\ Goto(h, "invalidating")
    /\ UNCHANGED <<tables, userLock, seen, history>>

\* It is through: the links it found are marked, and held to the commit.
LockLinks(h) ==
    /\ pc[h] = "invalidating"
    /\ LinksAreFree(targets[h])
    /\ Goto(h, "send")
    /\ UNCHANGED <<tables, userLock, seen, targets, history>>

\* A new link, committed with the marks and the email in the outbox.
Renewed(u, old, new) ==
    [l \in Links |-> IF l = new THEN [status |-> "valid", user |-> u]
                     ELSE IF l \in old THEN [links[l] EXCEPT !.status = "used"]
                     ELSE links[l]]

SendLink(h) ==
    /\ pc[h] = "send"
    /\ \E l \in Links :
          /\ IsNext(l, Unsent)
          /\ links' = Renewed(req[h].user, targets[h], l)
    /\ Finish(h)
    /\ UNCHANGED <<users, sessions, userLock, history>>

\* get_valid_by_hash: neither used nor expired.
LinkExists(l) == links[l].status # "absent"  \* mutant: used_at is not looked at
LinkWorks(l) == links[l].status = "valid"

RefuseLink(h) ==
    /\ At(h, "begin", "reset")
    /\ ~LinkWorks(req[h].link)
    /\ Finish(h)
    /\ UNCHANGED <<tables, userLock, history>>

FindLink(h) ==
    /\ At(h, "begin", "reset")
    /\ LinkWorks(req[h].link)
    /\ Goto(h, "password")
    /\ UNCHANGED <<tables, userLock, seen, targets, history>>

\* The password is written, and the users row held to the commit.
WritePassword(h) ==
    /\ pc[h] = "password"
    /\ LET u == links[req[h].link].user IN
          /\ RowIsFree(u)
          /\ userLock' = [userLock EXCEPT ![u] = h]
    /\ Goto(h, "mark")
    /\ UNCHANGED <<tables, seen, targets, history>>

\* mark_used is through, and revoke_all_for_user begins: the sessions it will touch.
StartSweep(h) ==
    /\ pc[h] = "mark"
    /\ LinksAreFree({req[h].link})
    /\ targets' = [targets EXCEPT ![h] = UnrevokedOf(links[req[h].link].user)]
    /\ Goto(h, "sweep")
    /\ UNCHANGED <<tables, userLock, seen, history>>

\* It is through: the sessions it found are revoked, and held to the commit.
LockSessions(h) ==
    /\ pc[h] = "sweep"
    /\ SessionsAreFree(targets[h])
    /\ Goto(h, "reset")
    /\ UNCHANGED <<tables, userLock, seen, targets, history>>

\* update_password_hash: a fresh hash, and no other column.
Unhashed(row, password) == row  \* mutant: the UPDATE matches no row
Rehashed(row, password) == [row EXCEPT !.password = password, !.oldHash = FALSE]

CommitReset(h) ==
    /\ pc[h] = "reset"
    /\ LET u == links[req[h].link].user IN
          /\ users' = [users EXCEPT ![u] = Rehashed(@, req[h].password)]
          /\ links' = [links EXCEPT ![req[h].link].status = "used"]
          /\ sessions' = Swept(targets[h], "password_reset")
          /\ userLock' = Unlocked(u)
          /\ chosen' = [chosen EXCEPT ![u] = req[h].password]
          /\ condemned' = condemned \cup targets[h]
          /\ ended' = ended \cup {sessions[s].login : s \in {t \in Issued : sessions[t].user = u}}
    /\ Finish(h)
    /\ UNCHANGED <<wrong, reused>>

-----------------------------------------------------------------------------
(* ProfileService.change_password and deactivate_account *)

\* IncorrectCurrentPasswordError, SamePasswordError, or no such user.
MayChange(r) == users[r.user].password = r.current /\ r.password # r.current

RefuseChange(h) ==
    /\ At(h, "begin", "change")
    /\ ~ProfileLoads(req[h].user) \/ ~MayChange(req[h])
    /\ Finish(h)
    /\ UNCHANGED <<tables, userLock, history>>

CheckCurrent(h) ==
    /\ At(h, "begin", "change")
    /\ ProfileLoads(req[h].user)
    /\ MayChange(req[h])
    /\ Goto(h, "change")
    /\ UNCHANGED <<tables, userLock, seen, targets, history>>

\* The old sessions are left to the handler of the event user.password_changed;
\* the worker has none and marks the event failed (RejectUnknownType in Outbox).
CommitChange(h) ==
    /\ pc[h] = "change"
    /\ LET u == req[h].user IN
          /\ RowIsFree(u)
          /\ users' = [users EXCEPT ![u] = Rehashed(@, req[h].password)]
          /\ chosen' = [chosen EXCEPT ![u] = req[h].password]
    /\ Finish(h)
    /\ UNCHANGED <<sessions, links, userLock, wrong, condemned, ended, reused>>

RefuseDeactivation(h) ==
    /\ At(h, "begin", "deactivate")
    /\ ~ProfileLoads(req[h].user)
    /\ Finish(h)
    /\ UNCHANGED <<tables, userLock, history>>

CheckActive(h) ==
    /\ At(h, "begin", "deactivate")
    /\ ProfileLoads(req[h].user)
    /\ Goto(h, "deactivate")
    /\ UNCHANGED <<tables, userLock, seen, targets, history>>

\* The row is marked; the sessions stay, since the event user.account_deactivated
\* has no handler either.
CommitDeactivation(h) ==
    /\ pc[h] = "deactivate"
    /\ LET u == req[h].user IN
          /\ RowIsFree(u)
          /\ users' = [users EXCEPT ![u].active = FALSE]
    /\ Finish(h)
    /\ UNCHANGED <<sessions, links, userLock, history>>

-----------------------------------------------------------------------------
(* The clock *)

ExpireSession(s) ==
    /\ sessions[s].status = "live"
    /\ sessions' = [sessions EXCEPT ![s].status = "expired"]
    /\ UNCHANGED <<users, links, userLock, requests, history>>

ExpireLink(l) ==
    /\ links[l].status = "valid"
    /\ links' = [links EXCEPT ![l].status = "expired"]
    /\ UNCHANGED <<users, sessions, userLock, requests, history>>

\* Nobody calls: the API may stay idle for ever.
Quiet ==
    /\ \A h \in Handlers : pc[h] = "idle"
    /\ UNCHANGED vars

Login(h) == DenyLogin(h) \/ CheckPassword(h) \/ CountFailure(h) \/ IssueSession(h)
Refresh(h) ==
    RefuseToken(h) \/ DetectReuse(h) \/ FindSession(h) \/ CheckUser(h) \/ Rotate(h)
Revoke(h) == FindOwnSession(h) \/ RefuseRevocation(h) \/ RevokeSession(h)
Forgot(h) ==
    IgnoreForgot(h) \/ FindForgetful(h) \/ InvalidateLinks(h) \/ LockLinks(h) \/ SendLink(h)
Reset(h) ==
    \/ RefuseLink(h) \/ FindLink(h)
    \/ WritePassword(h) \/ StartSweep(h) \/ LockSessions(h) \/ CommitReset(h)
Change(h) == RefuseChange(h) \/ CheckCurrent(h) \/ CommitChange(h)
Deactivate(h) == RefuseDeactivation(h) \/ CheckActive(h) \/ CommitDeactivation(h)

Step(h) == Login(h) \/ Refresh(h) \/ Revoke(h) \/ Forgot(h) \/ Reset(h)
           \/ Change(h) \/ Deactivate(h)

Next ==
    \/ \E h \in Handlers : Step(h)
    \/ \E h \in Handlers, r \in Requests : Receive(h, r)
    \/ \E s \in Sessions : ExpireSession(s)
    \/ \E l \in Links : ExpireLink(l)
    \/ Quiet

Spec == Init /\ [][Next]_vars

\* The server runs every request it accepted; PostgreSQL grants a row to each
\* transaction that keeps asking for it.
FairSpec == Spec /\ \A h \in Handlers : SF_vars(Step(h))

-----------------------------------------------------------------------------
(* Properties *)

\* Every table row and every request in flight is one the code can produce.
TypeOK ==
    /\ users \in [Users -> UserType]
    /\ sessions \in [Sessions -> [status : Unrevoked \cup Reasons \cup {"absent"},
                                  user : Users \cup {NoUser}, from : Ids, login : Ids]]
    /\ links \in [Links -> [status : {"absent", "valid", "expired", "used"},
                            user : Users \cup {NoUser}]]
    /\ userLock \in [Users -> Handlers \cup {NoHandler}]
    /\ pc \in [Handlers -> {"idle", "begin", "issue", "miss", "user", "rotate", "revoke",
                            "invalidate", "invalidating", "send",
                            "password", "mark", "sweep", "reset", "change", "deactivate"}]
    /\ req \in [Handlers -> Requests \cup {Nothing}]
    /\ seen \in [Handlers -> [failed : Nat, oldHash : BOOLEAN]]
    /\ targets \in [Handlers -> SUBSET (Sessions \cup Links)]
    /\ wrong \in [Users -> 0 .. LockAfter]
    /\ chosen \in [Users -> Passwords]
    /\ condemned \subseteq Sessions /\ ended \subseteq Ids
    /\ reused \subseteq Sessions

\* A session that a committed password reset swept stays dead, whatever requests
\* read it as live before and write to its row afterwards (rotate and revoke
\* update the row by id alone, repository.py:249-254 and 307-315).
SweptStayDead == \A s \in condemned : sessions[s].status \notin Unrevoked

\* rotate is atomic (its docstring, repository.py:279-291): a token never lives
\* on next to one that was issued for it, and none is spent for nothing.
RotationIsAtomic ==
    /\ \A s, t \in Sessions :
          sessions[t].from = s => sessions[s].status \in Reasons
    /\ \A s \in Sessions :
          sessions[s].status = "rotated" => \E t \in Sessions : sessions[t].from = s

\* A token that was revoked, and a link that was used, never work again: rotate,
\* revoke and the sweeps overlap and write to one row by id, and none of them
\* brings it back (repository.py:249-316, 403-420).
SpentForGood ==
    [][/\ \A s \in Sessions : sessions[s].status \in Reasons => sessions'[s].status \in Reasons
       /\ \A l \in Links : links[l].status = "used" => links'[l].status = "used"]_vars

\* The users row is held by a request exactly while its reset is uncommitted, so
\* two resets of one account never interleave (session_auth.py:153-158).
LockMeansReset ==
    \A u \in Users, h \in Handlers :
        userLock[u] = h
            <=> (pc[h] \in {"mark", "sweep", "reset"} /\ links[req[h].link].user = u)

\* The rows whose UPDATE is the next thing a request does.
WantedUsers(h) ==
    {u \in Users : \/ pc[h] \in {"miss", "issue", "change", "deactivate"} /\ u = req[h].user
                   \/ pc[h] = "password" /\ u = links[req[h].link].user}
WantedLinks(h) ==
    {l \in Links : \/ pc[h] = "mark" /\ l = req[h].link
                   \/ pc[h] = "invalidating" /\ l \in targets[h]}
WantedSessions(h) ==
    {s \in Sessions :
        \/ At(h, "begin", "refresh") /\ sessions[req[h].session].status = "rotated"
              /\ s \in UnrevokedOf(sessions[req[h].session].user)
        \/ pc[h] \in {"rotate", "revoke"} /\ s = req[h].session
        \/ pc[h] = "sweep" /\ s \in targets[h]}

WaitsFor(g, h) ==
    /\ g # h
    /\ \/ \E u \in WantedUsers(g) : userLock[u] = h
       \/ WantedLinks(g) \cap HeldLinks(h) # {}
       \/ WantedSessions(g) \cap HeldSessions(h) # {}

\* No set of requests wait only on each other, for the rows of users, links and
\* sessions: a reset takes rows of all three tables one after the other, holds what
\* it has, and meets logins, refreshes, revocations, other resets and requests for
\* links that want them (session_auth.py:109-111, 153-158).
NoDeadlock ==
    \A waiting \in (SUBSET Handlers) \ {{}} :
        \E g \in waiting : \A h \in waiting : ~WaitsFor(g, h)

\* Every accepted request is answered, also when it waits for a row of users, of
\* links or of sessions.
Answered == \A h \in Handlers : pc[h] = "begin" ~> pc[h] = "idle"

\* At most one token of a login works: each refresh invalidates the old one
\* (router/auth.py:213-217).
OneTokenPerLogin ==
    \A s, t \in Sessions :
        (sessions[s].status = "live" /\ sessions[t].status = "live"
            /\ sessions[s].login = sessions[t].login) => s = t

\* Only the link of the last email works (repository.py:410-415).
OneLinkPerUser ==
    \A k, l \in Links :
        (links[k].status = "valid" /\ links[l].status = "valid"
            /\ links[k].user = links[l].user) => k = l

\* A link is used once: it sets a password only if none was set with it and no
\* newer link replaced it, and is used up then (repository.py:385-389).
LinkIsUsedOnce ==
    [][\A h \in Handlers :
          (pc[h] = "reset" /\ pc'[h] = "idle")
             => /\ links[req[h].link].status # "used"
                /\ links'[req[h].link].status = "used"]_vars

\* After a reset every device is logged out (router/session_auth.py:127): no
\* token of a login older than the reset works.
ResetLogsOutAllDevices ==
    \A s \in Sessions : sessions[s].status = "live" => sessions[s].login \notin ended

\* The password is the one last chosen at a reset or a change: a login rehashes
\* it and does not change it (repository.py:98-103).
PasswordIsTheChosen == \A u \in Users : users[u].password = chosen[u]

\* An account is locked after LockAfter failures (ARCHITECTURE.md:235).
FailuresLock == \A u \in Users : wrong[u] >= LockAfter => users[u].locked

\* The reuse of a rotated token revokes all sessions (ARCHITECTURE.md:231).
ReuseRevokesAll == \A s \in reused : sessions[s].status # "live"

-----------------------------------------------------------------------------
(* Requests that must not overlap.  Nothing in the code keeps them apart; while *)
(* none of them meet, the five promises above hold.                             *)

\* Two requests never refresh one session at the same time.
RefreshesApart ==
    \A g, h \in Handlers :
        (req[g].op = "refresh" /\ req[h].op = "refresh" /\ req[g].session = req[h].session) => g = h

\* One user's forgotten password is never asked for twice at the same time.
ForgetsApart ==
    \A g, h \in Handlers :
        (req[g].op = "forgot" /\ req[h].op = "forgot" /\ req[g].user = req[h].user) => g = h

\* A link is not used while another request uses it or asks for its successor.
LinksApart ==
    \A g, h \in Handlers : req[g].op = "reset" =>
        /\ (req[h].op = "reset" /\ req[h].link = req[g].link) => g = h
        /\ req[h].op = "forgot" => req[h].user # links[req[g].link].user

\* No password is set while its user logs in.
LoginsApart ==
    \A g, h \in Handlers : req[h].op = "login" =>
        /\ req[g].op = "change" => req[g].user # req[h].user
        /\ req[g].op = "reset" => links[req[g].link].user # req[h].user

\* No token of a user is refreshed while its password is reset.
ResetsApart ==
    \A g, h \in Handlers :
        (req[g].op = "reset" /\ req[h].op = "refresh")
            => links[req[g].link].user # sessions[req[h].session].user

Apart == RefreshesApart /\ ForgetsApart /\ LinksApart /\ LoginsApart /\ ResetsApart

-----------------------------------------------------------------------------
(* The inductive invariant *)

\* Ids are blank until a row is inserted, and a row keeps its owner.
UnusedIdsAreBlank ==
    /\ \A s \in Sessions : sessions[s].status = "absent" => sessions[s] = NoSession
    /\ \A l \in Links : links[l].status = "absent" => links[l] = NoLink

\* Each label belongs to its requests, and the rows these name exist.
RequestsFollowCode ==
    \A h \in Handlers :
        /\ pc[h] = "idle" <=> req[h] = Nothing
        /\ pc[h] \in {"issue", "miss"} => req[h].op = "login"
        /\ pc[h] \in {"user", "rotate"} => req[h].op = "refresh"
        /\ pc[h] = "revoke" => req[h].op \in {"logout", "revoke"}
        /\ pc[h] \in {"invalidate", "invalidating", "send"} => req[h].op = "forgot"
        /\ pc[h] \in {"password", "mark", "sweep", "reset"} => req[h].op = "reset"
        /\ pc[h] \in {"change", "deactivate"} => req[h].op = pc[h]
        /\ req[h].op \in {"refresh", "logout", "revoke"}
              => sessions[req[h].session].status # "absent"
        /\ req[h].op = "reset" => links[req[h].link].status # "absent"

\* A sweep has to touch sessions that were there when it began.
TargetsWereIssued ==
    \A h \in Handlers : pc[h] \in {"sweep", "reset"} =>
        \A s \in targets[h] : s \in Sessions /\ sessions[s].status # "absent"

CondemnedAreRevoked == \A s \in condemned : sessions[s].status \in Reasons

\* What all requests together preserve (rows, requests, sweeps and rotations): the
\* inductive invariant behind the safety properties above that hold of any number
\* of handlers (auth.py, session_auth.py and profile.py taken together).
Inductive ==
    /\ TypeOK
    /\ UnusedIdsAreBlank
    /\ RequestsFollowCode
    /\ TargetsWereIssued
    /\ CondemnedAreRevoked
    /\ LockMeansReset
    /\ RotationIsAtomic

=============================================================================
