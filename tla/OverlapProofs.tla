----------------------------- MODULE OverlapProofs -----------------------------
(***************************************************************************)
(* What Accounts promises unless two requests of one kind of pair overlap. *)
(* The runs rotation, reset and rehash break promises by an interleaving   *)
(* of two handlers; here each promise is proved for any number of handlers *)
(* from the one condition that those interleavings violate.                *)
(*                                                                         *)
(* A handler that decides by what it read is right as long as what it read *)
(* holds until it commits.  Each invariant says what was read and is relied*)
(* on, and the condition names the requests that could write it meanwhile. *)
(***************************************************************************)
EXTENDS AccountsProofs

Unused == {"valid", "expired"}

\* Who has listed the links to mark, found its link, or listed the sessions to end.
Marking == {"invalidating", "send"}
Resetting == {"password", "mark", "sweep", "reset"}
Sweeping == {"sweep", "reset"}
USE DEF Writing, Marking, Resetting, Sweeping

-----------------------------------------------------------------------------
(* Steps, as they look to those who read *)

Same(h) == pc'[h] = pc[h] /\ req'[h] = req[h] /\ targets'[h] = targets[h]

\* A handler has read what it will rely on, and nobody has written since.
Arrives(h) ==
    /\ req'[h] = req[h]
    /\ UNCHANGED <<users, sessions, links, ended, chosen>>
    /\ \/ pc'[h] = "issue" /\ users[req[h].user].password = req[h].password
       \/ pc'[h] = "user" /\ sessions[req[h].session].status = "live"
       \/ pc'[h] = "rotate" /\ pc[h] = "user"
       \/ pc'[h] = "invalidating" /\ targets'[h] = UnusedOf(req[h].user)
       \/ pc'[h] = "send" /\ pc[h] = "invalidating" /\ targets'[h] = targets[h]
       \/ pc'[h] = "password" /\ links[req[h].link].status = "valid"
       \/ pc'[h] = "mark" /\ pc[h] = "password"
       \/ pc'[h] = "sweep" /\ pc[h] = "mark"
          /\ targets'[h] = UnrevokedOf(links[req[h].link].user)
       \/ pc'[h] = "reset" /\ pc[h] = "sweep" /\ targets'[h] = targets[h]

Elsewhere == {"idle", "begin", "miss", "revoke", "invalidate", "change", "deactivate"}

LEMMA FinishLeaves ==
    ASSUME Inductive, NEW h \in Handlers, Finish(h)
    PROVE  pc'[h] \in Elsewhere /\ \A g \in Handlers : g = h \/ Same(g)
    BY DEF Inductive, TypeOK, Finish, Same, Elsewhere

LEMMA StepMoves ==
    ASSUME Inductive, NEW h \in Handlers, Step(h)
    PROVE  (Arrives(h) \/ pc'[h] \in Elsewhere) /\ \A g \in Handlers : g = h \/ Same(g)
    <1> DEFINE Goal == (Arrives(h) \/ pc'[h] \in Elsewhere) /\ \A g \in Handlers : g = h \/ Same(g)
    <1> SUFFICES Goal
        OBVIOUS
    <1> HIDE DEF Goal
    <1>1. Finish(h) => Goal
        BY FinishLeaves DEF Goal
    <1>2. ASSUME NEW label, Goto(h, label), NEW T, targets' = [targets EXCEPT ![h] = T],
                 UNCHANGED <<users, sessions, links, ended, chosen>>,
                 \/ label \in {"miss", "revoke", "invalidate", "change", "deactivate"}
                 \/ label = "issue" /\ users[req[h].user].password = req[h].password
                 \/ label = "user" /\ sessions[req[h].session].status = "live"
                 \/ label = "rotate" /\ pc[h] = "user"
                 \/ label = "invalidating" /\ T = UnusedOf(req[h].user)
                 \/ label = "send" /\ pc[h] = "invalidating" /\ T = targets[h]
                 \/ label = "password" /\ links[req[h].link].status = "valid"
                 \/ label = "mark" /\ pc[h] = "password"
                 \/ label = "sweep" /\ pc[h] = "mark" /\ T = UnrevokedOf(links[req[h].link].user)
                 \/ label = "reset" /\ pc[h] = "sweep" /\ T = targets[h]
          PROVE  Goal
        <2>1. /\ pc'[h] = label /\ targets'[h] = T /\ req' = req
              /\ \A g \in Handlers : g = h \/ Same(g)
            BY <1>2 DEF Inductive, TypeOK, Goto, Same
        <2> QED BY <1>2, <2>1 DEF Goal, Arrives, Elsewhere
    <1>3. targets' = targets => targets' = [targets EXCEPT ![h] = targets[h]]
        BY DEF Inductive, TypeOK
    <1>4. CASE Login(h)
        <2>1. CASE CheckPassword(h)
            BY <1>2, <1>3, <2>1 DEF CheckPassword, tables, history
        <2> QED BY <1>1, <1>4, <2>1 DEF Login, DenyLogin, CountFailure, IssueSession
    <1>5. CASE Refresh(h)
        <2>1. CASE FindSession(h)
            BY <1>2, <1>3, <2>1 DEF FindSession, tables, history
        <2>2. CASE CheckUser(h)
            BY <1>1, <1>2, <1>3, <2>2 DEF CheckUser, tables, history
        <2> QED BY <1>1, <1>5, <2>1, <2>2 DEF Refresh, RefuseToken, DetectReuse, Rotate
    <1>6. CASE Revoke(h)
        <2>1. CASE FindOwnSession(h)
            BY <1>2, <1>3, <2>1 DEF FindOwnSession, tables, history
        <2> QED BY <1>1, <1>6, <2>1 DEF Revoke, RefuseRevocation, RevokeSession
    <1>7. CASE Forgot(h)
        <2>1. CASE FindForgetful(h)
            BY <1>2, <1>3, <2>1 DEF FindForgetful, tables, history
        <2>2. CASE InvalidateLinks(h)
            BY <1>2, <2>2 DEF InvalidateLinks, tables, history
        <2>3. CASE LockLinks(h)
            BY <1>2, <1>3, <2>3 DEF LockLinks, tables, history
        <2> QED BY <1>1, <1>7, <2>1, <2>2, <2>3 DEF Forgot, IgnoreForgot, SendLink
    <1>8. CASE Reset(h)
        <2>1. CASE FindLink(h)
            BY <1>2, <1>3, <2>1 DEF FindLink, LinkWorks, tables, history
        <2>2. CASE StartSweep(h)
            BY <1>2, <2>2 DEF StartSweep, tables, history
        <2>3. CASE WritePassword(h)
            BY <1>2, <1>3, <2>3 DEF WritePassword, tables, history
        <2>4. CASE LockSessions(h)
            BY <1>2, <1>3, <2>4 DEF LockSessions, tables, history
        <2> QED BY <1>1, <1>8, <2>1, <2>2, <2>3, <2>4 DEF Reset, RefuseLink, CommitReset
    <1>9. CASE Change(h)
        <2>1. CASE CheckCurrent(h)
            BY <1>2, <1>3, <2>1 DEF CheckCurrent, tables, history
        <2> QED BY <1>1, <1>9, <2>1 DEF Change, RefuseChange, CommitChange
    <1>10. CASE Deactivate(h)
        <2>1. CASE CheckActive(h)
            BY <1>2, <1>3, <2>1 DEF CheckActive, tables, history
        <2> QED BY <1>1, <1>10, <2>1 DEF Deactivate, RefuseDeactivation, CommitDeactivation
    <1> QED BY <1>4, <1>5, <1>6, <1>7, <1>8, <1>9, <1>10 DEF Step

\* One handler moves at a time, and it arrives at a label or relies on nothing.
LEMMA HandlerSteps ==
    ASSUME Inductive, [Next]_vars
    PROVE  /\ \A h \in Handlers : Same(h) \/ Arrives(h) \/ pc'[h] \in Elsewhere
           /\ \A g, h \in Handlers : g = h \/ Same(g) \/ Same(h)
    <1> DEFINE OneMoves == /\ \A g \in Handlers : Same(g) \/ Arrives(g) \/ pc'[g] \in Elsewhere
                           /\ \A f, g \in Handlers : f = g \/ Same(f) \/ Same(g)
    <1>1. ASSUME NEW h \in Handlers, Step(h) PROVE OneMoves
        BY <1>1, StepMoves
    <1>2. ASSUME NEW h \in Handlers, NEW r \in Requests, Receive(h, r) PROVE OneMoves
        <2>1. pc'[h] = "begin" /\ \A g \in Handlers : g = h \/ Same(g)
            BY <1>2 DEF Receive, Same, Inductive, TypeOK
        <2> QED BY <2>1 DEF Elsewhere
    <1>3. CASE UNCHANGED requests
        BY <1>3 DEF requests, Same
    <1> QED BY <1>1, <1>2, <1>3 DEF Next, ExpireSession, ExpireLink, Quiet, vars

-----------------------------------------------------------------------------
(* Steps, as they look in the tables *)

SessionsEndure(but) ==
    \A s \in Sessions : s # but =>
        /\ sessions'[s].login = sessions[s].login
        /\ sessions'[s].user = sessions[s].user
        /\ sessions'[s].status = "absent" <=> sessions[s].status = "absent"
        /\ sessions'[s].status \in Unrevoked => sessions[s].status \in Unrevoked

Inserts(new, user, login) ==
    /\ new \notin Issued
    /\ sessions'[new].status = "live"
    /\ sessions'[new].user = user
    /\ sessions'[new].login = login
    /\ SessionsEndure(new)

\* What a step may do to the sessions rows.
SessionsStep ==
    \/ SessionsEndure(None) /\ UNCHANGED ended
    \/ \E h \in Handlers, new \in Sessions :
          /\ pc[h] = "issue" /\ pc'[h] = "idle" /\ RowIsFree(req[h].user) /\ UNCHANGED ended
          /\ Inserts(new, req[h].user, new)
    \/ \E h \in Handlers, new \in Sessions, old \in Issued :
          /\ pc[h] = "rotate" /\ pc'[h] = "idle" /\ UNCHANGED ended
          /\ old = req[h].session /\ sessions'[old].status = "rotated"
          /\ Inserts(new, sessions[old].user, sessions[old].login)
    \/ \E h \in Handlers, u \in Users \cup {NoUser} :
          /\ pc[h] = "reset" /\ pc'[h] = "idle" /\ u = links[req[h].link].user
          /\ SessionsEndure(None)
          /\ \A s \in Sessions : sessions'[s].status \in Unrevoked => s \notin targets[h]
          /\ ended' = ended \cup {sessions[s].login : s \in {t \in Issued : sessions[t].user = u}}

LEMMA IssueIsSessionsStep ==
    ASSUME Inductive, NEW h \in Handlers, IssueSession(h)
    PROVE  SessionsStep
    <1>1. PICK new \in Sessions :
             /\ new \notin Issued
             /\ sessions' = [sessions EXCEPT ![new] =
                    [status |-> "live", user |-> req[h].user, from |-> None, login |-> new]]
        BY DEF IssueSession, IsNext
    <1>2. Inserts(new, req[h].user, new)
        BY <1>1 DEF Inserts, SessionsEndure, Inductive, TypeOK
    <1>3. pc[h] = "issue" /\ RowIsFree(req[h].user) /\ UNCHANGED ended /\ Finish(h)
        BY DEF IssueSession
    <1>4. pc'[h] = "idle"
        BY <1>3 DEF Finish, Inductive, TypeOK
    <1> QED BY <1>2, <1>3, <1>4 DEF SessionsStep

LEMMA RotateIsSessionsStep ==
    ASSUME Inductive, NEW h \in Handlers, Rotate(h)
    PROVE  SessionsStep
    <1>1. PICK old \in Issued : old = req[h].session
        BY BusyServes, RequestFields DEF Rotate, Inductive, RequestsFollowCode, Issued
    <1>2. PICK new \in Sessions : new \notin Issued /\ sessions' = Rotated(old, new)
        BY <1>1 DEF Rotate, IsNext
    <1>3. /\ old \in Sessions /\ old # new
          /\ sessions[old] \in [status : Unrevoked \cup Reasons \cup {"absent"},
                                user : Users \cup {NoUser}, from : Ids, login : Ids]
          /\ sessions[old].status # "absent"
        BY <1>1, <1>2 DEF Issued, Inductive, TypeOK
    <1>4. /\ sessions'[new] = [status |-> "live", user |-> sessions[old].user,
                               from |-> old, login |-> sessions[old].login]
          /\ sessions'[old] = [sessions[old] EXCEPT !.status = "rotated"]
          /\ \A s \in Sessions : s # new /\ s # old => sessions'[s] = sessions[s]
        BY <1>2, <1>3 DEF Rotated, Inductive, TypeOK
    <1>5. /\ sessions'[old].status = "rotated"
          /\ sessions'[old].login = sessions[old].login
          /\ sessions'[old].user = sessions[old].user
        BY <1>3, <1>4
    <1>6. Inserts(new, sessions[old].user, sessions[old].login)
        BY <1>2, <1>3, <1>4, <1>5 DEF Inserts, SessionsEndure, Unrevoked
    <1>7. pc[h] = "rotate" /\ UNCHANGED ended /\ Finish(h)
        BY DEF Rotate, history
    <1>8. pc'[h] = "idle"
        BY <1>7 DEF Finish, Inductive, TypeOK
    <1> QED BY <1>1, <1>5, <1>6, <1>7, <1>8 DEF SessionsStep

LEMMA CommitIsSessionsStep ==
    ASSUME Inductive, NEW h \in Handlers, CommitReset(h)
    PROVE  SessionsStep
    <1>1. PICK l \in Links : l = req[h].link
        BY BusyServes, RequestFields DEF CommitReset, Inductive, RequestsFollowCode
    <1>2. PICK u \in Users \cup {NoUser} : u = links[l].user
        BY <1>1 DEF Inductive, TypeOK
    <1>3. PICK T : T = targets[h]
        OBVIOUS
    <1>4. /\ pc[h] = "reset" /\ Finish(h)
          /\ sessions' = Swept(T, "password_reset")
          /\ ended' = ended \cup {sessions[s].login : s \in {t \in Issued : sessions[t].user = u}}
        BY <1>1, <1>2, <1>3 DEF CommitReset
    <1>5. ASSUME NEW s \in Sessions
          PROVE  /\ sessions'[s].login = sessions[s].login
                 /\ sessions'[s].user = sessions[s].user
                 /\ sessions'[s].status = "absent" <=> sessions[s].status = "absent"
                 /\ sessions'[s].status \in Unrevoked => sessions[s].status \in Unrevoked /\ s \notin T
        <2>1. sessions[s] \in [status : Unrevoked \cup Reasons \cup {"absent"},
                               user : Users \cup {NoUser}, from : Ids, login : Ids]
            BY DEF Inductive, TypeOK
        <2>2. CASE s \in T /\ sessions[s].status \in Unrevoked
            <3>1. sessions'[s] = [sessions[s] EXCEPT !.status = "password_reset"]
                BY <1>4, <2>2 DEF Swept
            <3>2. /\ sessions'[s].status = "password_reset"
                  /\ sessions'[s].login = sessions[s].login
                  /\ sessions'[s].user = sessions[s].user
                BY <2>1, <3>1
            <3> QED BY <2>2, <3>2 DEF Unrevoked
        <2>3. CASE ~(s \in T /\ sessions[s].status \in Unrevoked)
            <3>1. sessions'[s] = sessions[s]
                BY <1>4, <2>3 DEF Swept
            <3> QED BY <2>3, <3>1
        <2> QED BY <2>2, <2>3
    <1>6. pc'[h] = "idle"
        BY <1>4 DEF Finish, Inductive, TypeOK
    <1>7. SessionsEndure(None)
        BY <1>5 DEF SessionsEndure
    <1>8. u = links[req[h].link].user
        BY <1>1, <1>2
    <1>9. \A s \in Sessions : sessions'[s].status \in Unrevoked => s \notin targets[h]
        BY <1>3, <1>5
    <1> QED BY <1>4, <1>6, <1>7, <1>8, <1>9 DEF SessionsStep

\* One session changes its status and no session comes back to life.
LEMMA ChangeIsSessionsStep ==
    ASSUME Inductive, UNCHANGED ended, NEW s \in Sessions, NEW status,
           sessions[s].status # "absent", status # "absent",
           status \in Unrevoked => sessions[s].status \in Unrevoked,
           sessions' = [sessions EXCEPT ![s].status = status]
    PROVE  SessionsStep
    <1>1. /\ sessions'[s] = [sessions[s] EXCEPT !.status = status]
          /\ \A t \in Sessions : t # s => sessions'[t] = sessions[t]
        BY DEF Inductive, TypeOK
    <1>2. /\ sessions'[s].status = status
          /\ sessions'[s].login = sessions[s].login
          /\ sessions'[s].user = sessions[s].user
        BY <1>1 DEF Inductive, TypeOK
    <1>3. SessionsEndure(None)
        BY <1>1, <1>2 DEF SessionsEndure
    <1> QED BY <1>3 DEF SessionsStep

LEMMA NextIsSessionsStep ==
    ASSUME Inductive, [Next]_vars
    PROVE  SessionsStep
    <1>1. CASE UNCHANGED <<sessions, ended>>
        BY <1>1 DEF SessionsStep, SessionsEndure
    <1>2. ASSUME NEW h \in Handlers, RevokeSession(h) PROVE SessionsStep
        <2>1. PICK s \in Sessions, reason \in {"logout", "user_revoked"} :
                 sessions[s].status # "absent" /\ sessions' = Revoked(s, reason)
            <3>1. req[h].session \in Sessions /\ sessions[req[h].session].status # "absent"
                BY <1>2, BusyServes, RequestFields DEF RevokeSession, Inductive, RequestsFollowCode
            <3> QED BY <1>2, <3>1 DEF RevokeSession
        <2> QED BY <1>2, <2>1, ChangeIsSessionsStep DEF RevokeSession, Revoked, history, Unrevoked
    <1>3. ASSUME NEW s \in Sessions, ExpireSession(s) PROVE SessionsStep
        BY <1>3, ChangeIsSessionsStep DEF ExpireSession, history, Unrevoked
    <1>4. ASSUME NEW h \in Handlers, Step(h) PROVE SessionsStep
        <2>1. CASE IssueSession(h) \/ Rotate(h) \/ RevokeSession(h) \/ CommitReset(h)
            BY <1>2, <2>1, IssueIsSessionsStep, RotateIsSessionsStep, CommitIsSessionsStep
        <2>2. CASE UNCHANGED <<sessions, ended>>
            BY <1>1, <2>2
        <2> QED BY <1>4, <2>1, <2>2
            DEF Step, Login, DenyLogin, CheckPassword, CountFailure, Refresh, RefuseToken, DetectReuse,
                FindSession, CheckUser, Revoke, FindOwnSession, RefuseRevocation,
                Forgot, IgnoreForgot, FindForgetful, InvalidateLinks, LockLinks,
                SendLink, Reset, RefuseLink, FindLink, WritePassword, StartSweep,
                LockSessions, Change, RefuseChange, CheckCurrent, CommitChange,
                Deactivate, RefuseDeactivation, CheckActive, CommitDeactivation,
                AfterRaise, tables, history
    <1>5. ASSUME NEW h \in Handlers, NEW r \in Requests, Receive(h, r) PROVE SessionsStep
        BY <1>1, <1>5 DEF Receive, tables, history
    <1>6. ASSUME NEW l \in Links, ExpireLink(l) PROVE SessionsStep
        BY <1>1, <1>6 DEF ExpireLink, history
    <1> QED BY <1>1, <1>3, <1>4, <1>5, <1>6 DEF Next, Quiet, vars, history

\* What a step may do to the links: mail a new one, use one up, or let one expire.
LinksStep ==
    \/ \A l \in Links : /\ links'[l].user = links[l].user
                        /\ links'[l].status \in Unused <=> links[l].status \in Unused
                        /\ links'[l].status = "absent" <=> links[l].status = "absent"
    \/ \E h \in Handlers, new \in Links :
          /\ pc[h] = "send" /\ pc'[h] = "idle"
          /\ links[new].status = "absent"
          /\ links'[new].status \in Unused /\ links'[new].user = req[h].user
          /\ \A l \in Links : l # new =>
                /\ links'[l].user = links[l].user
                /\ links'[l].status \in Unused <=> links[l].status \in Unused /\ l \notin targets[h]
                /\ l \notin targets[h] => links'[l] = links[l]
                /\ l \in targets[h] => links'[l].status # "absent"
    \/ \E h \in Handlers, k \in Links :
          /\ pc[h] = "reset" /\ pc'[h] = "idle" /\ k = req[h].link
          /\ links'[k].status = "used" /\ links'[k].user = links[k].user
          /\ \A l \in Links : l # k => links'[l] = links[l]

LEMMA SendIsLinksStep ==
    ASSUME Inductive, NEW h \in Handlers, SendLink(h)
    PROVE  LinksStep
    <1>1. PICK new \in Links :
             links[new].status = "absent" /\ links' = Renewed(req[h].user, targets[h], new)
        BY DEF SendLink, IsNext, Unsent
    <1>2. links'[new].status \in Unused /\ links'[new].user = req[h].user
        BY <1>1 DEF Renewed, Unused
    <1>3. ASSUME NEW l \in Links, l # new
          PROVE  /\ links'[l].user = links[l].user
                 /\ links'[l].status \in Unused <=> links[l].status \in Unused /\ l \notin targets[h]
                 /\ l \notin targets[h] => links'[l] = links[l]
                 /\ l \in targets[h] => links'[l].status # "absent"
        <2>1. CASE l \in targets[h]
            <3>1. links'[l] = [links[l] EXCEPT !.status = "used"]
                BY <1>1, <1>3, <2>1 DEF Renewed
            <3>2. links'[l].status = "used" /\ links'[l].user = links[l].user
                BY <3>1 DEF Inductive, TypeOK
            <3> QED BY <2>1, <3>2 DEF Unused
        <2>2. CASE l \notin targets[h]
            BY <1>1, <1>3, <2>2 DEF Renewed
        <2> QED BY <2>1, <2>2
    <1>4. pc[h] = "send" /\ Finish(h)
        BY DEF SendLink
    <1>5. pc'[h] = "idle"
        BY <1>4 DEF Finish, Inductive, TypeOK
    <1> QED BY <1>1, <1>2, <1>3, <1>4, <1>5 DEF LinksStep

LEMMA CommitIsLinksStep ==
    ASSUME Inductive, NEW h \in Handlers, CommitReset(h)
    PROVE  LinksStep
    <1>1. PICK k \in Links : k = req[h].link
        BY BusyServes, RequestFields DEF CommitReset, Inductive, RequestsFollowCode
    <1>2. pc[h] = "reset" /\ Finish(h) /\ links' = [links EXCEPT ![k].status = "used"]
        BY <1>1 DEF CommitReset
    <1>3. /\ links'[k].status = "used" /\ links'[k].user = links[k].user
          /\ \A l \in Links : l # k => links'[l] = links[l]
        BY <1>2 DEF Inductive, TypeOK
    <1>4. pc'[h] = "idle"
        BY <1>2 DEF Finish, Inductive, TypeOK
    <1> QED BY <1>1, <1>2, <1>3, <1>4 DEF LinksStep

LEMMA NextIsLinksStep ==
    ASSUME Inductive, [Next]_vars
    PROVE  LinksStep
    <1>1. CASE UNCHANGED links
        BY <1>1 DEF LinksStep
    <1>2. ASSUME NEW l \in Links, ExpireLink(l) PROVE LinksStep
        <2>1. /\ links[l].status = "valid"
              /\ links'[l] = [links[l] EXCEPT !.status = "expired"]
              /\ \A k \in Links : k # l => links'[k] = links[k]
            BY <1>2 DEF ExpireLink, Inductive, TypeOK
        <2>2. links'[l].status = "expired" /\ links'[l].user = links[l].user
            BY <2>1 DEF Inductive, TypeOK
        <2> QED BY <2>1, <2>2 DEF LinksStep, Unused
    <1>3. ASSUME NEW h \in Handlers, Step(h) PROVE LinksStep
        BY <1>1, <1>3, SendIsLinksStep, CommitIsLinksStep
            DEF Step, Login, DenyLogin, CheckPassword, CountFailure, IssueSession, Refresh, RefuseToken,
                DetectReuse, FindSession, CheckUser, Rotate, Revoke, FindOwnSession,
                RefuseRevocation, RevokeSession, Forgot, IgnoreForgot,
                FindForgetful, InvalidateLinks, LockLinks, Reset, RefuseLink,
                FindLink, WritePassword, StartSweep, LockSessions, Change,
                RefuseChange, CheckCurrent, CommitChange, Deactivate,
                RefuseDeactivation, CheckActive, CommitDeactivation, tables
    <1>4. ASSUME NEW h \in Handlers, NEW r \in Requests, Receive(h, r) PROVE LinksStep
        BY <1>1, <1>4 DEF Receive, tables
    <1>5. ASSUME NEW s \in Sessions, ExpireSession(s) PROVE LinksStep
        BY <1>1, <1>5 DEF ExpireSession
    <1> QED BY <1>1, <1>2, <1>3, <1>4, <1>5 DEF Next, Quiet, vars

\* What a step may do to passwords: write one that is chosen, or hash one again.
Chooses(u, password) ==
    /\ users'[u].password = password /\ chosen'[u] = password
    /\ \A v \in Users : v # u => users'[v].password = users[v].password /\ chosen'[v] = chosen[v]

PasswordsStep ==
    \/ chosen' = chosen /\ \A u \in Users : users'[u].password = users[u].password
    \/ \E h \in Handlers, u \in Users :
          /\ pc[h] = "issue" /\ pc'[h] = "idle" /\ u = req[h].user /\ chosen' = chosen
          /\ users'[u].password \in {users[u].password, req[h].password}
          /\ \A v \in Users : v # u => users'[v].password = users[v].password
    \/ \E h \in Handlers, u \in Users :
          /\ \/ pc[h] = "reset" /\ u = links[req[h].link].user
             \/ pc[h] = "change" /\ u = req[h].user
          /\ pc'[h] = "idle"
          /\ Chooses(u, req[h].password)

\* Who hashes a password writes the one that is chosen.
LEMMA WriteChooses ==
    ASSUME Inductive, NEW u \in Users, NEW password,
           users' = [users EXCEPT ![u] = Rehashed(users[u], password)],
           chosen' = [chosen EXCEPT ![u] = password]
    PROVE  Chooses(u, password)
    <1>1. users \in [Users -> UserType] /\ chosen \in [Users -> Passwords]
        BY DEF Inductive, TypeOK
    <1>2. Rehashed(users[u], password).password = password
        BY <1>1 DEF Rehashed, UserType
    <1>3. /\ users'[u] = Rehashed(users[u], password) /\ chosen'[u] = password
          /\ \A v \in Users : v # u => users'[v] = users[v] /\ chosen'[v] = chosen[v]
        BY <1>1
    <1> QED BY <1>2, <1>3 DEF Chooses

LEMMA CommitIsPasswordsStep ==
    ASSUME Inductive, NEW h \in Handlers, CommitReset(h)
    PROVE  PasswordsStep
    <1>1. PICK u, password : u = links[req[h].link].user /\ password = req[h].password
        OBVIOUS
    <1>2. /\ users' = [users EXCEPT ![u] = Rehashed(users[u], password)]
          /\ chosen' = [chosen EXCEPT ![u] = password]
          /\ pc[h] = "reset" /\ Finish(h)
        BY <1>1 DEF CommitReset
    <1>3. pc'[h] = "idle"
        BY <1>2 DEF Finish, Inductive, TypeOK
    <1>4. CASE u \in Users
        BY <1>1, <1>2, <1>3, <1>4, WriteChooses DEF PasswordsStep
    <1>5. CASE u \notin Users
        BY <1>2, <1>5 DEF PasswordsStep, Inductive, TypeOK
    <1> QED BY <1>4, <1>5

LEMMA ProfileIsPasswordsStep ==
    ASSUME Inductive, NEW h \in Handlers, CommitChange(h) \/ CommitDeactivation(h)
    PROVE  PasswordsStep
    <1>1. PICK u \in Users : u = req[h].user
        BY BusyServes, RequestFields DEF CommitChange, CommitDeactivation, Inductive, RequestsFollowCode
    <1>2. Finish(h)
        BY DEF CommitChange, CommitDeactivation
    <1>3. pc'[h] = "idle"
        BY <1>2 DEF Finish, Inductive, TypeOK
    <1>4. CASE CommitChange(h)
        <2>1. PICK password : password = req[h].password
            OBVIOUS
        <2>2. /\ users' = [users EXCEPT ![u] = Rehashed(users[u], password)]
              /\ chosen' = [chosen EXCEPT ![u] = password]
              /\ pc[h] = "change"
            BY <1>1, <1>4, <2>1 DEF CommitChange
        <2> QED BY <1>1, <1>3, <2>1, <2>2, WriteChooses DEF PasswordsStep
    <1>5. CASE CommitDeactivation(h)
        <2>1. users' = [users EXCEPT ![u].active = FALSE] /\ chosen' = chosen
            BY <1>1, <1>5 DEF CommitDeactivation, history
        <2>2. users \in [Users -> UserType]
            BY DEF Inductive, TypeOK
        <2>3. \A v \in Users : users'[v].password = users[v].password
            BY <2>1, <2>2 DEF UserType
        <2> QED BY <2>1, <2>3 DEF PasswordsStep
    <1> QED BY <1>4, <1>5

LEMMA IssueIsPasswordsStep ==
    ASSUME Inductive, NEW h \in Handlers, IssueSession(h)
    PROVE  PasswordsStep
    <1>1. PICK u \in Users : u = req[h].user
        BY BusyServes, RequestFields DEF IssueSession, Inductive, RequestsFollowCode
    <1>2. PICK password : password = req[h].password
        OBVIOUS
    <1>3. /\ users' = [users EXCEPT ![u] = LoggedIn(users[u], seen[h], password)]
          /\ chosen' = chosen /\ pc[h] = "issue" /\ Finish(h)
        BY <1>1, <1>2 DEF IssueSession
    <1>4. users \in [Users -> UserType]
        BY DEF Inductive, TypeOK
    <1>5. LoggedIn(users[u], seen[h], password).password \in {users[u].password, password}
        <2>1. PICK row \in UserType : row = users[u]
            BY <1>4
        <2>2. LoggedIn(row, seen[h], password).password \in {row.password, password}
            BY DEF LoggedIn, UserType
        <2> QED BY <2>1, <2>2
    <1>6. /\ users'[u] = LoggedIn(users[u], seen[h], password)
          /\ \A v \in Users : v # u => users'[v] = users[v]
        BY <1>3, <1>4
    <1>7. pc'[h] = "idle"
        BY <1>3 DEF Finish, Inductive, TypeOK
    <1> QED BY <1>1, <1>2, <1>3, <1>5, <1>6, <1>7 DEF PasswordsStep

LEMMA NextIsPasswordsStep ==
    ASSUME Inductive, [Next]_vars
    PROVE  PasswordsStep
    <1>1. CASE UNCHANGED <<users, chosen>>
        BY <1>1 DEF PasswordsStep
    <1>2. ASSUME NEW h \in Handlers, Step(h) PROVE PasswordsStep
        BY <1>1, <1>2, CommitIsPasswordsStep, ProfileIsPasswordsStep, IssueIsPasswordsStep
            DEF Step, Login, DenyLogin, CheckPassword, CountFailure, AfterRaise, Refresh, RefuseToken,
                DetectReuse, FindSession, CheckUser, Rotate, Revoke, FindOwnSession,
                RefuseRevocation, RevokeSession, Forgot, IgnoreForgot,
                FindForgetful, InvalidateLinks, LockLinks, SendLink, Reset,
                RefuseLink, FindLink, WritePassword, StartSweep, LockSessions,
                Change, RefuseChange, CheckCurrent, Deactivate, RefuseDeactivation,
                CheckActive, tables, history
    <1>3. ASSUME NEW h \in Handlers, NEW r \in Requests, Receive(h, r) PROVE PasswordsStep
        BY <1>1, <1>3 DEF Receive, tables, history
    <1> QED BY <1>1, <1>2, <1>3 DEF Next, ExpireSession, ExpireLink, Quiet, vars, history

-----------------------------------------------------------------------------
(* Refreshes *)

\* Who found a session found the one session of its login that is unrevoked, if
\* any is, and so did everybody else who serves this login.
FoundTheToken ==
    /\ \A s \in Issued : sessions[s].login \in Issued
    /\ \A s, t \in Sessions :
          (sessions[s].status \in Unrevoked /\ sessions[t].status \in Unrevoked
              /\ sessions[s].login = sessions[t].login) => s = t
    /\ \A h \in Handlers : pc[h] \in {"user", "rotate"} =>
          \A t \in Sessions :
             (sessions[t].status \in Unrevoked
                 /\ sessions[t].login = sessions[req[h].session].login) => t = req[h].session
    /\ \A g, h \in Handlers :
          (pc[g] \in {"user", "rotate"} /\ pc[h] \in {"user", "rotate"}
              /\ sessions[req[g].session].login = sessions[req[h].session].login)
                => req[g].session = req[h].session

LEMMA InitFound == Init => FoundTheToken
    <1> SUFFICES ASSUME Init PROVE FoundTheToken
        OBVIOUS
    <1>1. /\ \A s \in Sessions : sessions[s].status = "absent"
          /\ \A h \in Handlers : pc[h] = "idle"
        BY DEF Init, NoSession
    <1> QED BY <1>1 DEF FoundTheToken, Issued, Unrevoked

\* Sessions in use by refreshes were issued.
LEMMA RefreshesNameIssued ==
    ASSUME Inductive, NEW h \in Handlers, pc[h] \in {"user", "rotate"}
    PROVE  req[h].session \in Issued /\ req[h].op = "refresh"
    BY BusyServes, RequestFields DEF Inductive, RequestsFollowCode, Issued

LEMMA NextKeepsFound ==
    ASSUME Inductive, RefreshesApart, FoundTheToken, [Next]_vars
    PROVE  FoundTheToken'
    <1> DEFINE Reading(h) == pc[h] \in {"user", "rotate"}
    \* Who is reading after the step was before it, or finds its session now.
    <1>1. ASSUME NEW h \in Handlers, Reading(h)'
          PROVE  /\ req'[h] = req[h]
                 /\ \/ Reading(h) /\ pc'[h] # "idle"
                    \/ /\ UNCHANGED sessions
                       /\ req[h].session \in Sessions
                       /\ sessions[req[h].session].status = "live"
                       /\ ~Same(h)
        <2>1. Same(h) \/ Arrives(h)
            BY <1>1, HandlerSteps DEF Elsewhere
        <2>2. CASE Same(h)
            BY <1>1, <2>2 DEF Same
        <2>3. CASE Arrives(h) /\ ~Same(h)
            <3>1. CASE pc[h] = "user"
                BY <1>1, <2>3, <3>1 DEF Arrives
            <3>2. CASE pc[h] # "user"
                <4>1. pc'[h] = "user" /\ sessions[req[h].session].status = "live" /\ UNCHANGED sessions
                    BY <1>1, <2>3, <3>2 DEF Arrives
                <4>2. req'[h].session \in Sessions
                    <5>1. req'[h] \in Requests /\ req'[h].op = "refresh"
                        BY <4>1, NextKeepsInductive DEF Inductive, TypeOK, RequestsFollowCode
                    <5> QED BY <5>1, RequestFields
                <4> QED BY <1>1, <2>3, <4>1, <4>2 DEF Arrives
            <3> QED BY <3>1, <3>2
        <2> QED BY <2>1, <2>2, <2>3
    <1>2. ASSUME NEW g \in Handlers, NEW h \in Handlers, Reading(g)', Reading(h)'
          PROVE  \/ g = h
                 \/ Reading(g) /\ pc'[g] # "idle"
                 \/ Reading(h) /\ pc'[h] # "idle"
        BY <1>1, <1>2, HandlerSteps
    <1>3. CASE SessionsEndure(None)
        <2>1. \A s \in Sessions :
                 /\ sessions'[s].login = sessions[s].login
                 /\ sessions'[s].status = "absent" <=> sessions[s].status = "absent"
                 /\ sessions'[s].status \in Unrevoked => sessions[s].status \in Unrevoked
            BY <1>3, IdsAssumption DEF SessionsEndure, None
        <2>2. \A h \in Handlers : Reading(h)' => req'[h] = req[h] /\ req[h].session \in Sessions
            BY <1>1, RefreshesNameIssued DEF Issued
        <2>3. ASSUME NEW h \in Handlers, Reading(h)', NEW t \in Sessions,
                     sessions[t].status \in Unrevoked,
                     sessions[t].login = sessions[req[h].session].login
              PROVE  t = req[h].session
            BY <1>1, <2>3 DEF FoundTheToken, Unrevoked
        <2>4. ASSUME NEW g \in Handlers, NEW h \in Handlers, Reading(g)', Reading(h)',
                     sessions[req[g].session].login = sessions[req[h].session].login
              PROVE  req[g].session = req[h].session
            <3>1. CASE Reading(g) /\ Reading(h)
                BY <2>4, <3>1 DEF FoundTheToken
            <3>2. CASE ~Reading(g)
                <4>1. req[g].session \in Sessions /\ sessions[req[g].session].status \in Unrevoked
                    BY <1>1, <2>4, <3>2 DEF Unrevoked
                <4> QED BY <2>3, <2>4, <4>1
            <3>3. CASE ~Reading(h)
                <4>1. req[h].session \in Sessions /\ sessions[req[h].session].status \in Unrevoked
                    BY <1>1, <2>4, <3>3 DEF Unrevoked
                <4> QED BY <2>3, <2>4, <4>1
            <3> QED BY <3>1, <3>2, <3>3
        <2>5. Issued' = Issued /\ \A s \in Issued : s \in Sessions
            BY <2>1 DEF Issued
        <2>6. \A s \in Issued' : sessions'[s].login \in Issued'
            BY <2>1, <2>5 DEF FoundTheToken
        <2>7. \A s, t \in Sessions :
                 (sessions'[s].status \in Unrevoked /\ sessions'[t].status \in Unrevoked
                    /\ sessions'[s].login = sessions'[t].login) => s = t
            BY <2>1 DEF FoundTheToken
        <2>8. \A h \in Handlers : Reading(h)' =>
                 \A t \in Sessions :
                    (sessions'[t].status \in Unrevoked
                       /\ sessions'[t].login = sessions'[req'[h].session].login) => t = req'[h].session
            BY <2>1, <2>2, <2>3
        <2>9. \A g, h \in Handlers :
                 (Reading(g)' /\ Reading(h)'
                    /\ sessions'[req'[g].session].login = sessions'[req'[h].session].login)
                       => req'[g].session = req'[h].session
            BY <2>1, <2>2, <2>4
        <2> QED BY <2>6, <2>7, <2>8, <2>9 DEF FoundTheToken
    <1>4. ASSUME NEW new \in Sessions, NEW user, NEW login, Inserts(new, user, login),
                 UNCHANGED ended, login = new \/ login \in Issued,
                 \A s \in Sessions : s # new /\ sessions'[s].status \in Unrevoked
                                     => sessions[s].login # login,
                 \A h \in Handlers : Reading(h)' => Reading(h) /\ sessions[req[h].session].login # login
          PROVE  FoundTheToken'
        <2>1. /\ new \notin Issued
              /\ sessions'[new].status = "live" /\ sessions'[new].login = login
              /\ \A s \in Sessions : s # new =>
                    /\ sessions'[s].login = sessions[s].login
                    /\ sessions'[s].status = "absent" <=> sessions[s].status = "absent"
                    /\ sessions'[s].status \in Unrevoked => sessions[s].status \in Unrevoked
            BY <1>4 DEF Inserts, SessionsEndure
        <2>2. \A s \in Issued : s \in Sessions /\ s # new
            BY <2>1 DEF Issued
        <2>3. Issued' = Issued \cup {new}
            BY <2>1 DEF Issued
        <2>4. \A h \in Handlers : Reading(h)' =>
                 /\ Reading(h) /\ req'[h] = req[h]
                 /\ req[h].session \in Sessions /\ req[h].session # new
                 /\ sessions'[req[h].session].login = sessions[req[h].session].login
            BY <1>1, <1>4, <2>1, <2>2, RefreshesNameIssued
        <2>5. \A s \in Issued' : sessions'[s].login \in Issued'
            BY <1>4, <2>1, <2>2, <2>3 DEF FoundTheToken
        <2>6. \A s, t \in Sessions :
                 (sessions'[s].status \in Unrevoked /\ sessions'[t].status \in Unrevoked
                    /\ sessions'[s].login = sessions'[t].login) => s = t
            BY <1>4, <2>1 DEF FoundTheToken
        <2>7. ASSUME NEW h \in Handlers, Reading(h)', NEW t \in Sessions,
                     sessions'[t].status \in Unrevoked,
                     sessions'[t].login = sessions'[req'[h].session].login
              PROVE  t = req'[h].session
            <3>1. t # new
                BY <1>4, <2>1, <2>4, <2>7
            <3> QED BY <2>1, <2>4, <2>7, <3>1 DEF FoundTheToken
        <2>8. \A g, h \in Handlers :
                 (Reading(g)' /\ Reading(h)'
                    /\ sessions'[req'[g].session].login = sessions'[req'[h].session].login)
                       => req'[g].session = req'[h].session
            BY <2>4 DEF FoundTheToken
        <2> QED BY <2>5, <2>6, <2>7, <2>8 DEF FoundTheToken
    <1>5. ASSUME NEW g \in Handlers, ~Same(g), pc'[g] = "idle",
                 NEW h \in Handlers, Reading(h)'
          PROVE  h # g /\ Reading(h) /\ req[h].session \in Issued
                 /\ req[h].op = "refresh"
        BY <1>1, <1>5, HandlerSteps, RefreshesNameIssued
    <1>6. ASSUME NEW g \in Handlers, NEW new \in Sessions,
                 pc[g] = "issue", pc'[g] = "idle", UNCHANGED ended, Inserts(new, req[g].user, new)
          PROVE  FoundTheToken'
        <2>1. new \notin Issued /\ ~Same(g)
            BY <1>6 DEF Inserts, Same
        <2>2. \A s \in Sessions : sessions[s].status \in Unrevoked => sessions[s].login # new
            BY <2>1 DEF FoundTheToken, Issued, Unrevoked
        <2>3. \A s \in Sessions : s # new /\ sessions'[s].status \in Unrevoked
                                  => sessions[s].login # new
            BY <1>6, <2>2 DEF Inserts, SessionsEndure
        <2>4. \A h \in Handlers : Reading(h)' => Reading(h) /\ sessions[req[h].session].login # new
            BY <1>5, <1>6, <2>1 DEF FoundTheToken
        <2> QED BY <1>4, <1>6, <2>3, <2>4
    <1>7. ASSUME NEW g \in Handlers, NEW new \in Sessions, NEW old \in Issued,
                 pc[g] = "rotate", pc'[g] = "idle", UNCHANGED ended,
                 old = req[g].session, sessions'[old].status = "rotated",
                 Inserts(new, sessions[old].user, sessions[old].login)
          PROVE  FoundTheToken'
        <2>1. ~Same(g) /\ req[g].op = "refresh"
            BY <1>7, RefreshesNameIssued DEF Same
        <2>2. sessions[old].login \in Issued
            BY DEF FoundTheToken
        <2>3. ASSUME NEW s \in Sessions, s # new, sessions'[s].status \in Unrevoked,
                     sessions[s].login = sessions[old].login
              PROVE  FALSE
            <3>1. sessions[s].status \in Unrevoked
                BY <1>7, <2>3 DEF Inserts, SessionsEndure
            <3>2. s = old
                BY <1>7, <2>3, <3>1 DEF FoundTheToken
            <3> QED BY <1>7, <2>3, <3>2 DEF Unrevoked
        <2>4. ASSUME NEW h \in Handlers, Reading(h)'
              PROVE  Reading(h) /\ sessions[req[h].session].login # sessions[old].login
            <3>1. h # g /\ Reading(h) /\ req[h].op = "refresh"
                BY <1>5, <1>7, <2>1, <2>4
            <3>2. req[h].session # old
                BY <1>7, <2>1, <3>1 DEF RefreshesApart
            <3> QED BY <1>7, <3>1, <3>2 DEF FoundTheToken
        <2> HIDE DEF Reading
        <2> QED BY <1>4, <1>7, <2>2, <2>3, <2>4
    <1> HIDE DEF Reading
    <1> QED BY <1>3, <1>6, <1>7, NextIsSessionsStep DEF SessionsStep

\* Unless one token is refreshed twice at the same time, at most one token of a
\* login works, whatever logouts, resets and other refreshes overlap.
THEOREM RefreshesKeepOneToken == Spec /\ []RefreshesApart => []OneTokenPerLogin
    <1>1. FoundTheToken => OneTokenPerLogin
        BY DEF FoundTheToken, OneTokenPerLogin, Unrevoked
    <1>2. Inductive /\ RefreshesApart /\ FoundTheToken /\ [Next]_vars => FoundTheToken'
        BY NextKeepsFound
    <1> QED BY <1>1, <1>2, InitFound, InductiveInvariant, PTL DEF Spec

-----------------------------------------------------------------------------
(* Forgotten passwords *)

\* One link of a user is unused, and who is to mark the unused links of a user
\* has them all before it mails another.
MarksTheLinks ==
    /\ \A k, l \in Links :
          (links[k].status \in Unused /\ links[l].status \in Unused
              /\ links[k].user = links[l].user) => k = l
    /\ \A h \in Handlers : pc[h] \in Marking => UnusedOf(req[h].user) \subseteq targets[h]

LEMMA InitMarks == Init => MarksTheLinks
    BY DEF Init, MarksTheLinks, Unused, NoLink

\* Who marks the links of a user was at it before the step, or lists them now.
LEMMA WhoMarks ==
    ASSUME Inductive, [Next]_vars, NEW h \in Handlers, pc'[h] \in Marking
    PROVE  /\ req'[h] = req[h]
           /\ \/ pc[h] \in Marking /\ targets'[h] = targets[h]
              \/ UNCHANGED links /\ targets'[h] = UnusedOf(req[h].user)
    BY HandlerSteps DEF Same, Arrives, Elsewhere

LEMMA NextKeepsMarks ==
    ASSUME Inductive, ForgetsApart, MarksTheLinks, [Next]_vars
    PROVE  MarksTheLinks'
    <1>1. ASSUME \A l \in Links : /\ links'[l].user = links[l].user
                                  /\ links'[l].status \in Unused => links[l].status \in Unused
          PROVE  MarksTheLinks'
        <2>1. \A u : UnusedOf(u)' \subseteq UnusedOf(u)
            BY <1>1 DEF UnusedOf, Unused
        <2>2. \A k, l \in Links :
                 (links'[k].status \in Unused /\ links'[l].status \in Unused
                     /\ links'[k].user = links'[l].user) => k = l
            BY <1>1 DEF MarksTheLinks
        <2>3. ASSUME NEW h \in Handlers, pc'[h] \in Marking
              PROVE  (UnusedOf(req[h].user) \subseteq targets[h])'
            <3>1. UnusedOf(req[h].user) \subseteq targets'[h]
                BY <2>3, WhoMarks DEF MarksTheLinks
            <3>2. PICK u : u = req[h].user /\ u = req'[h].user
                BY <2>3, WhoMarks
            <3> QED BY <2>1, <3>1, <3>2 DEF UnusedOf
        <2> QED BY <2>2, <2>3 DEF MarksTheLinks
    <1>2. ASSUME NEW g \in Handlers, NEW new \in Links, pc[g] = "send", pc'[g] = "idle",
                 links'[new].user = req[g].user,
                 \A l \in Links : l # new =>
                    /\ links'[l].user = links[l].user
                    /\ links'[l].status \in Unused => links[l].status \in Unused /\ l \notin targets[g]
          PROVE  MarksTheLinks'
        <2>1. PICK u : u = req[g].user
            OBVIOUS
        <2>2. \A l \in Links : l # new /\ links'[l].status \in Unused => links[l].user # u
            BY <1>2, <2>1 DEF MarksTheLinks, UnusedOf, Unused
        <2>3. \A k, l \in Links :
                 (links'[k].status \in Unused /\ links'[l].status \in Unused
                     /\ links'[k].user = links'[l].user) => k = l
            BY <1>2, <2>1, <2>2 DEF MarksTheLinks
        <2>4. ASSUME NEW h \in Handlers, pc'[h] \in Marking
              PROVE  (UnusedOf(req[h].user) \subseteq targets[h])'
            <3>1. h # g /\ ~Same(g)
                BY <1>2, <2>4 DEF Same
            <3>2. Same(h)
                BY <3>1, HandlerSteps
            <3>3. PICK v : v = req[h].user /\ v = req'[h].user
                BY <3>2 DEF Same
            <3>4. pc[h] \in Marking /\ UnusedOf(v) \subseteq targets'[h]
                BY <2>4, <3>2, <3>3 DEF MarksTheLinks, Same
            <3>5. v # u
                BY <1>2, <2>1, <3>1, <3>3, <3>4 DEF ForgetsApart, Inductive, RequestsFollowCode
            <3>6. UnusedOf(v)' \subseteq UnusedOf(v)
                BY <1>2, <2>1, <3>5 DEF UnusedOf, Unused
            <3> QED BY <3>3, <3>4, <3>6 DEF UnusedOf
        <2> QED BY <2>3, <2>4 DEF MarksTheLinks
    <1> QED BY <1>1, <1>2, NextIsLinksStep DEF LinksStep, Unused

\* Unless one user's forgotten password is asked for twice at the same time, only
\* the link of the last email works.
THEOREM ForgetsKeepOneLink == Spec /\ []ForgetsApart => []OneLinkPerUser
    <1>1. MarksTheLinks => OneLinkPerUser
        BY DEF MarksTheLinks, OneLinkPerUser, Unused
    <1>2. Inductive /\ ForgetsApart /\ MarksTheLinks /\ [Next]_vars => MarksTheLinks'
        BY NextKeepsMarks
    <1> QED BY <1>1, <1>2, InitMarks, InductiveInvariant, PTL DEF Spec

-----------------------------------------------------------------------------
(* Links *)

\* The link that was found is still unused, and links to be marked are those of
\* the user who forgot.
FoundTheLink ==
    /\ \A h \in Handlers : pc[h] \in Resetting => links[req[h].link].status \in Unused
    /\ \A h \in Handlers : pc[h] \in Marking =>
          \A l \in Links \cap targets[h] : links[l].user = req[h].user /\ links[l].status # "absent"

LEMMA InitFoundLink == Init => FoundTheLink
    BY DEF Init, FoundTheLink

\* Who resets was resetting before the step, or finds its link now.
LEMMA WhoResets ==
    ASSUME Inductive, [Next]_vars, NEW h \in Handlers, pc'[h] \in Resetting
    PROVE  /\ req'[h] = req[h] /\ req[h].op = "reset" /\ req[h].link \in Links
           /\ \/ pc[h] \in Resetting
              \/ UNCHANGED links /\ links[req[h].link].status = "valid"
    <1>1. req'[h] \in Requests /\ req'[h].op = "reset"
        BY NextKeepsInductive DEF Inductive, TypeOK, RequestsFollowCode
    <1>2. req'[h] = req[h]
        BY HandlerSteps DEF Same, Arrives, Elsewhere
    <1>3. pc[h] \in Resetting \/ (UNCHANGED links /\ links[req[h].link].status = "valid")
        BY HandlerSteps DEF Same, Arrives, Elsewhere
    <1> QED BY <1>1, <1>2, <1>3, RequestFields

LEMMA NextKeepsFoundLink ==
    ASSUME Inductive, LinksApart, FoundTheLink, [Next]_vars
    PROVE  FoundTheLink'
    <1>1. ASSUME NEW h \in Handlers, pc'[h] \in Resetting
          PROVE  links'[req'[h].link].status \in Unused
        <2>1. PICK k \in Links : k = req[h].link /\ k = req'[h].link /\ req[h].op = "reset"
            BY <1>1, WhoResets
        <2>2. links[k].status \in Unused
            BY <1>1, <2>1, WhoResets DEF FoundTheLink, Unused
        <2>3. ASSUME NEW g \in Handlers, NEW new \in Links, pc[g] = "send",
                     links[new].status = "absent",
                     \A l \in Links : l # new /\ l \notin targets[g] => links'[l] = links[l]
              PROVE  links'[k].status \in Unused
            <3>1. k # new
                BY <2>2, <2>3 DEF Unused
            <3>2. req[g].op = "forgot"
                BY <2>3 DEF Inductive, RequestsFollowCode
            <3>3. k \notin targets[g]
                <4>1. req[g].user # links[k].user
                    BY <2>1, <3>2 DEF LinksApart
                <4> QED BY <2>3, <4>1 DEF FoundTheLink
            <3> QED BY <2>2, <2>3, <3>1, <3>3
        <2>4. ASSUME NEW g \in Handlers, pc[g] = "reset", pc'[g] = "idle",
                     \A l \in Links : l # req[g].link => links'[l] = links[l]
              PROVE  links'[k].status \in Unused
            <3>1. g # h /\ req[g].op = "reset"
                BY <1>1, <2>4 DEF Inductive, RequestsFollowCode
            <3>2. k # req[g].link
                BY <2>1, <3>1 DEF LinksApart
            <3> QED BY <2>2, <2>4, <3>2
        <2>5. links'[k].status \in Unused
            BY <2>2, <2>3, <2>4, NextIsLinksStep DEF LinksStep
        <2> QED BY <2>1, <2>5
    <1>2. ASSUME NEW h \in Handlers, pc'[h] \in Marking, NEW l \in Links \cap targets'[h]
          PROVE  links'[l].user = req'[h].user /\ links'[l].status # "absent"
        <2>1. links[l].user = req'[h].user /\ links[l].status # "absent"
            BY <1>2, WhoMarks DEF FoundTheLink, UnusedOf
        <2> QED BY <2>1, NextIsLinksStep DEF LinksStep
    <1> QED BY <1>1, <1>2 DEF FoundTheLink

\* Unless a link is used twice at the same time, or while its successor is asked
\* for, it sets one password and is used up by it.
THEOREM LinksWorkOnce == Spec /\ []LinksApart => LinkIsUsedOnce
    <1> DEFINE UsedOnce == \A h \in Handlers :
                  (pc[h] = "reset" /\ pc'[h] = "idle")
                     => /\ links[req[h].link].status # "used"
                        /\ links'[req[h].link].status = "used"
    <1>1. Inductive /\ FoundTheLink /\ [Next]_vars => [UsedOnce]_vars
        <2> SUFFICES ASSUME Inductive, FoundTheLink, [Next]_vars, NEW h \in Handlers,
                            pc[h] = "reset", pc'[h] = "idle"
                     PROVE  links[req[h].link].status # "used" /\ links'[req[h].link].status = "used"
            OBVIOUS
        <2>1. links[req[h].link].status # "used"
            BY DEF FoundTheLink, Unused
        <2>2. req[h].link \in Links
            BY BusyServes, RequestFields DEF Inductive, RequestsFollowCode
        <2>3. CommitReset(h)
            <3>1. ASSUME Step(h) PROVE CommitReset(h)
                BY <3>1 DEF Inductive, RequestsFollowCode, Step, Login, DenyLogin, CheckPassword,
                    CountFailure, IssueSession, Refresh, RefuseToken,
                    DetectReuse, FindSession, CheckUser, Rotate, Revoke,
                    FindOwnSession, RefuseRevocation, RevokeSession, Forgot,
                    IgnoreForgot, FindForgetful, InvalidateLinks, LockLinks,
                    SendLink, Reset, RefuseLink, FindLink, WritePassword,
                    StartSweep, LockSessions, Change, RefuseChange,
                    CheckCurrent, CommitChange, Deactivate, RefuseDeactivation,
                    CheckActive, CommitDeactivation, At
            <3>2. ~Same(h)
                BY DEF Same
            <3>3. ASSUME NEW g \in Handlers, Step(g) PROVE g = h
                BY <3>2, <3>3, StepMoves
            <3>4. ASSUME NEW g \in Handlers, NEW r \in Requests, Receive(g, r) PROVE FALSE
                <4>1. pc'[h] = IF g = h THEN "begin" ELSE pc[h]
                    BY <3>4 DEF Receive, Inductive, TypeOK
                <4> QED BY <4>1
            <3>5. pc' # pc
                OBVIOUS
            <3> QED BY <3>1, <3>3, <3>4, <3>5 DEF Next, ExpireSession, ExpireLink, Quiet, requests, vars
        <2>4. links'[req[h].link] = [links[req[h].link] EXCEPT !.status = "used"]
            BY <2>2, <2>3 DEF CommitReset, Inductive, TypeOK
        <2> QED BY <2>1, <2>2, <2>4 DEF Inductive, TypeOK
    <1>2. Inductive /\ LinksApart /\ FoundTheLink /\ [Next]_vars => FoundTheLink'
        BY NextKeepsFoundLink
    <1>3. Spec /\ []LinksApart => [][UsedOnce]_vars
        BY <1>1, <1>2, InitFoundLink, InductiveInvariant, PTL DEF Spec
    <1> QED BY <1>3, PTL DEF LinkIsUsedOnce

-----------------------------------------------------------------------------
(* Logins that rehash *)

\* The password that was right still is when the login writes its hash.
RightPasswordStays ==
    /\ PasswordIsTheChosen
    /\ \A h \in Handlers : pc[h] = "issue" => users[req[h].user].password = req[h].password

LEMMA InitRightPassword == Init => RightPasswordStays
    BY DEF Init, RightPasswordStays, PasswordIsTheChosen

LEMMA NextKeepsRightPassword ==
    ASSUME Inductive, LoginsApart, RightPasswordStays, [Next]_vars
    PROVE  RightPasswordStays'
    <1>1. ASSUME NEW h \in Handlers, pc'[h] = "issue"
          PROVE  /\ req'[h] = req[h] /\ req[h].op = "login" /\ req[h].user \in Users
                 /\ users[req[h].user].password = req[h].password
                 /\ ~Same(h) => UNCHANGED users
        <2>1. req'[h] \in Requests /\ req'[h].op = "login"
            BY <1>1, NextKeepsInductive DEF Inductive, TypeOK, RequestsFollowCode
        <2>2. req'[h] = req[h]
            BY <1>1, HandlerSteps DEF Same, Arrives, Elsewhere
        <2>3. users[req[h].user].password = req[h].password /\ (~Same(h) => UNCHANGED users)
            BY <1>1, HandlerSteps DEF Same, Arrives, Elsewhere, RightPasswordStays
        <2> QED BY <2>1, <2>2, <2>3, RequestFields
    <1>2. CASE chosen' = chosen /\ \A u \in Users : users'[u].password = users[u].password
        BY <1>1, <1>2 DEF RightPasswordStays, PasswordIsTheChosen
    <1>3. ASSUME NEW g \in Handlers, NEW u \in Users, pc[g] = "issue", u = req[g].user,
                 chosen' = chosen, users'[u].password \in {users[u].password, req[g].password},
                 \A v \in Users : v # u => users'[v].password = users[v].password
          PROVE  RightPasswordStays'
        <2>1. users'[u].password = users[u].password
            BY <1>3 DEF RightPasswordStays
        <2> QED BY <1>2, <1>3, <2>1
    <1>4. ASSUME NEW g \in Handlers, NEW u \in Users, NEW password, Chooses(u, password),
                 \/ pc[g] = "reset" /\ u = links[req[g].link].user
                 \/ pc[g] = "change" /\ u = req[g].user
          PROVE  RightPasswordStays'
        <2>1. PasswordIsTheChosen'
            BY <1>4 DEF Chooses, RightPasswordStays, PasswordIsTheChosen
        <2>2. ASSUME NEW h \in Handlers, pc'[h] = "issue"
              PROVE  users'[req'[h].user].password = req'[h].password
            <3>1. req[h].user # u
                BY <1>1, <1>4, <2>2 DEF LoginsApart, Inductive, RequestsFollowCode
            <3> QED BY <1>1, <1>4, <2>2, <3>1 DEF Chooses
        <2> QED BY <2>1, <2>2 DEF RightPasswordStays
    <1> QED BY <1>2, <1>3, <1>4, NextIsPasswordsStep DEF PasswordsStep

\* Unless a password is set while its user logs in, a login that rehashes keeps
\* the password that was chosen last.
THEOREM LoginsKeepThePassword == Spec /\ []LoginsApart => []PasswordIsTheChosen
    <1>1. RightPasswordStays => PasswordIsTheChosen
        BY DEF RightPasswordStays
    <1>2. Inductive /\ LoginsApart /\ RightPasswordStays /\ [Next]_vars => RightPasswordStays'
        BY NextKeepsRightPassword
    <1> QED BY <1>1, <1>2, InitRightPassword, InductiveInvariant, PTL DEF Spec

-----------------------------------------------------------------------------
(* Resets *)

\* No session of a login that a reset ended is unrevoked or about to be replaced,
\* and an open sweep has every session of its user that is unrevoked.
EndedStayEnded ==
    /\ \A s \in Issued : sessions[s].login \in Issued
                         /\ sessions[sessions[s].login].user = sessions[s].user
    /\ ended \subseteq Issued
    /\ \A s \in Sessions : sessions[s].status \in Unrevoked => sessions[s].login \notin ended
    /\ \A h \in Handlers :
          /\ pc[h] \in {"user", "rotate"} => sessions[req[h].session].login \notin ended
          /\ pc[h] \in Sweeping => UnrevokedOf(links[req[h].link].user) \subseteq targets[h]

LEMMA InitEnded == Init => EndedStayEnded
    <1> SUFFICES ASSUME Init PROVE EndedStayEnded
        OBVIOUS
    <1>1. /\ \A s \in Sessions : sessions[s].status = "absent"
          /\ \A h \in Handlers : pc[h] = "idle"
          /\ ended = {}
        BY DEF Init, NoSession
    <1> QED BY <1>1 DEF EndedStayEnded, Issued, Unrevoked

\* Who refreshes after a step was doing so before it, or finds its session now.
LEMMA Refreshing ==
    ASSUME Inductive, [Next]_vars, NEW h \in Handlers, pc'[h] \in {"user", "rotate"}
    PROVE  /\ req'[h] = req[h] /\ req[h].op = "refresh" /\ req[h].session \in Issued
           /\ \/ pc[h] \in {"user", "rotate"}
              \/ UNCHANGED <<sessions, ended>> /\ sessions[req[h].session].status = "live"
    <1>1. req'[h] \in Requests /\ req'[h].op = "refresh"
        BY NextKeepsInductive DEF Inductive, TypeOK, RequestsFollowCode
    <1>2. req'[h] = req[h]
        BY HandlerSteps DEF Same, Arrives, Elsewhere
    <1>3. \/ pc[h] \in {"user", "rotate"}
          \/ UNCHANGED <<sessions, ended>> /\ sessions[req[h].session].status = "live"
        BY HandlerSteps DEF Same, Arrives, Elsewhere
    <1>4. req[h].session \in Sessions
        BY <1>1, <1>2, RequestFields
    <1>5. sessions[req[h].session].status # "absent"
        BY <1>1, <1>2, <1>3 DEF Inductive, RequestsFollowCode
    <1> QED BY <1>1, <1>2, <1>3, <1>4, <1>5 DEF Issued

\* Who sweeps after a step was doing so before it, or lists its sessions now.
LEMMA WhoSweeps ==
    ASSUME Inductive, [Next]_vars, NEW h \in Handlers, pc'[h] \in Sweeping
    PROVE  /\ req'[h] = req[h] /\ req[h].op = "reset"
           /\ links'[req[h].link].user = links[req[h].link].user
           /\ \/ pc[h] \in Sweeping /\ targets'[h] = targets[h]
              \/ UNCHANGED <<sessions, ended>>
                 /\ targets'[h] = UnrevokedOf(links[req[h].link].user)
    <1>1. req'[h] = req[h] /\ req[h].op = "reset" /\ req[h].link \in Links
        BY WhoResets
    <1>2. \/ pc[h] \in Sweeping /\ targets'[h] = targets[h]
          \/ UNCHANGED <<sessions, ended>>
             /\ targets'[h] = UnrevokedOf(links[req[h].link].user)
        BY HandlerSteps DEF Same, Arrives, Elsewhere
    <1>3. links[req[h].link].status # "absent"
        BY <1>1 DEF Inductive, RequestsFollowCode
    <1>4. links'[req[h].link].user = links[req[h].link].user
        <2>1. PICK k \in Links : k = req[h].link /\ links[k].status # "absent"
            BY <1>1, <1>3
        <2>2. links'[k].user = links[k].user
            BY <2>1, NextIsLinksStep DEF LinksStep
        <2> QED BY <2>1, <2>2
    <1> QED BY <1>1, <1>2, <1>4

LEMMA NextKeepsEnded ==
    ASSUME Inductive, ResetsApart, EndedStayEnded, [Next]_vars
    PROVE  EndedStayEnded'
    <1>1. \A s \in Issued : s \in Sessions
        BY DEF Issued
    <1>2. ASSUME NEW h \in Handlers, pc'[h] \in {"user", "rotate"}
          PROVE  /\ req'[h] = req[h] /\ req[h].op = "refresh" /\ req[h].session \in Issued
                 /\ sessions[req[h].session].login \notin ended
        BY <1>1, <1>2, Refreshing DEF EndedStayEnded, Unrevoked
    <1>3. ASSUME SessionsEndure(None), NEW more \in SUBSET Issued, ended' = ended \cup more,
                 \A s \in Sessions : sessions'[s].status \in Unrevoked => sessions[s].login \notin more,
                 \A h \in Handlers : pc'[h] \in {"user", "rotate"}
                                        => sessions[req[h].session].login \notin more
          PROVE  EndedStayEnded'
        <2>1. \A s \in Sessions :
                 /\ sessions'[s].login = sessions[s].login
                 /\ sessions'[s].user = sessions[s].user
                 /\ sessions'[s].status = "absent" <=> sessions[s].status = "absent"
                 /\ sessions'[s].status \in Unrevoked => sessions[s].status \in Unrevoked
            BY <1>3, IdsAssumption DEF SessionsEndure, None
        <2>2. Issued' = Issued
            BY <2>1 DEF Issued
        <2>3. ended' \subseteq Issued' /\ \A s \in Issued' :
                 sessions'[s].login \in Issued' /\ sessions'[sessions'[s].login].user = sessions'[s].user
            BY <1>1, <1>3, <2>1, <2>2 DEF EndedStayEnded
        <2>4. \A s \in Sessions : sessions'[s].status \in Unrevoked => sessions'[s].login \notin ended'
            BY <1>3, <2>1 DEF EndedStayEnded
        <2>5. \A h \in Handlers : pc'[h] \in {"user", "rotate"}
                                     => sessions'[req'[h].session].login \notin ended'
            BY <1>1, <1>2, <1>3, <2>1
        <2>6. ASSUME NEW h \in Handlers, pc'[h] \in Sweeping
              PROVE  (UnrevokedOf(links[req[h].link].user) \subseteq targets[h])'
            <3>1. PICK u : u = links[req[h].link].user /\ u = links'[req'[h].link].user
                BY <2>6, WhoSweeps
            <3>2. UnrevokedOf(u) \subseteq targets'[h]
                BY <2>6, <3>1, WhoSweeps DEF EndedStayEnded
            <3>3. UnrevokedOf(u)' \subseteq UnrevokedOf(u)
                BY <2>1 DEF UnrevokedOf
            <3> QED BY <3>1, <3>2, <3>3 DEF UnrevokedOf
        <2> QED BY <2>3, <2>4, <2>5, <2>6 DEF EndedStayEnded
    <1>4. ASSUME NEW new \in Sessions, NEW user, NEW login, Inserts(new, user, login),
                 UNCHANGED ended, login \notin ended,
                 login = new \/ (login \in Issued /\ sessions[login].user = user),
                 \A h \in Handlers : pc[h] \in Sweeping => links[req[h].link].user # user
          PROVE  EndedStayEnded'
        <2>1. /\ new \notin Issued
              /\ sessions'[new].status = "live"
              /\ sessions'[new].user = user /\ sessions'[new].login = login
              /\ \A s \in Sessions : s # new =>
                    /\ sessions'[s].login = sessions[s].login
                    /\ sessions'[s].user = sessions[s].user
                    /\ sessions'[s].status = "absent" <=> sessions[s].status = "absent"
                    /\ sessions'[s].status \in Unrevoked => sessions[s].status \in Unrevoked
            BY <1>4 DEF Inserts, SessionsEndure
        <2>2. Issued' = Issued \cup {new} /\ \A s \in Issued : s # new
            BY <2>1 DEF Issued
        <2>3. \A s \in Issued : sessions[s].login \in Issued
                                /\ sessions[sessions[s].login].user = sessions[s].user
            BY DEF EndedStayEnded
        <2>4. \A s \in Issued' :
                 sessions'[s].login \in Issued' /\ sessions'[sessions'[s].login].user = sessions'[s].user
            <3>1. ASSUME NEW s \in Issued
                  PROVE  sessions'[s].login \in Issued'
                         /\ sessions'[sessions'[s].login].user = sessions'[s].user
                BY <1>1, <2>1, <2>2, <2>3
            <3>2. sessions'[new].login \in Issued'
                  /\ sessions'[sessions'[new].login].user = sessions'[new].user
                BY <1>1, <1>4, <2>1, <2>2
            <3> QED BY <2>2, <3>1, <3>2
        <2>5. ended' \subseteq Issued'
            BY <1>4, <2>2 DEF EndedStayEnded
        <2>6. \A s \in Sessions : sessions'[s].status \in Unrevoked => sessions'[s].login \notin ended'
            BY <1>4, <2>1 DEF EndedStayEnded
        <2>7. \A h \in Handlers : pc'[h] \in {"user", "rotate"}
                                     => sessions'[req'[h].session].login \notin ended'
            BY <1>1, <1>2, <1>4, <2>1, <2>2
        <2>8. ASSUME NEW h \in Handlers, pc'[h] \in Sweeping
              PROVE  (UnrevokedOf(links[req[h].link].user) \subseteq targets[h])'
            <3>1. sessions' # sessions
                BY <2>1 DEF Issued
            <3>2. PICK u : u = links[req[h].link].user /\ u = links'[req'[h].link].user
                BY <2>8, WhoSweeps
            <3>3. pc[h] \in Sweeping /\ UnrevokedOf(u) \subseteq targets'[h]
                BY <2>8, <3>1, <3>2, WhoSweeps DEF EndedStayEnded
            <3>4. u # user
                BY <1>4, <3>2, <3>3
            <3>5. UnrevokedOf(u)' \subseteq UnrevokedOf(u)
                BY <2>1, <3>4 DEF UnrevokedOf
            <3> QED BY <3>2, <3>3, <3>5 DEF UnrevokedOf
        <2> QED BY <2>4, <2>5, <2>6, <2>7, <2>8 DEF EndedStayEnded
    <1>5. CASE SessionsEndure(None) /\ UNCHANGED ended
        <2>1. {} \in SUBSET Issued /\ ended' = ended \cup {}
            BY <1>5
        <2> QED BY <1>3, <1>5, <2>1
    <1>6. ASSUME NEW g \in Handlers, NEW new \in Sessions, pc[g] = "issue", UNCHANGED ended,
                 RowIsFree(req[g].user), Inserts(new, req[g].user, new)
          PROVE  EndedStayEnded'
        <2>1. new \notin ended
            BY <1>6 DEF EndedStayEnded, Inserts
        <2>2. req[g].user \in Users
            BY <1>6, BusyServes, RequestFields DEF Inductive, RequestsFollowCode
        <2>3. \A h \in Handlers : pc[h] \in Sweeping => links[req[h].link].user # req[g].user
            BY <1>6, <2>2, HandlersAssumption DEF RowIsFree, Inductive, LockMeansReset
        <2> QED BY <1>4, <1>6, <2>1, <2>3
    <1>7. ASSUME NEW g \in Handlers, NEW new \in Sessions, NEW old \in Issued,
                 pc[g] = "rotate", UNCHANGED ended, old = req[g].session,
                 Inserts(new, sessions[old].user, sessions[old].login)
          PROVE  EndedStayEnded'
        <2>1. /\ sessions[old].login \in Issued \ ended
              /\ sessions[sessions[old].login].user = sessions[old].user
            BY <1>7 DEF EndedStayEnded
        <2>2. \A h \in Handlers : pc[h] \in Sweeping => links[req[h].link].user # sessions[old].user
            BY <1>7 DEF ResetsApart, Inductive, RequestsFollowCode
        <2> QED BY <1>4, <1>7, <2>1, <2>2
    <1>8. ASSUME NEW g \in Handlers, NEW u, pc[g] = "reset", u = links[req[g].link].user,
                 SessionsEndure(None),
                 \A s \in Sessions : sessions'[s].status \in Unrevoked => s \notin targets[g],
                 ended' = ended \cup {sessions[s].login : s \in {t \in Issued : sessions[t].user = u}}
          PROVE  EndedStayEnded'
        <2>1. PICK more : more = {sessions[s].login : s \in {t \in Issued : sessions[t].user = u}}
            OBVIOUS
        <2>2. more \in SUBSET Issued
            BY <2>1 DEF EndedStayEnded
        <2>3. \A s \in Issued : sessions[s].login \in more => sessions[s].user = u
            BY <2>1 DEF EndedStayEnded
        <2>4. ASSUME NEW s \in Sessions, sessions'[s].status \in Unrevoked
              PROVE  sessions[s].login \notin more
            <3>1. s \in Issued /\ sessions[s].status \in Unrevoked
                BY <1>8, <2>4, IdsAssumption DEF SessionsEndure, None, Issued, Unrevoked
            <3>2. sessions[s].user # u
                BY <1>8, <2>4, <3>1 DEF EndedStayEnded, UnrevokedOf
            <3> QED BY <2>3, <3>1, <3>2
        <2>5. ASSUME NEW h \in Handlers, pc'[h] \in {"user", "rotate"}
              PROVE  sessions[req[h].session].login \notin more
            <3>1. req[g].op = "reset"
                BY <1>8 DEF Inductive, RequestsFollowCode
            <3>2. sessions[req[h].session].user # u
                BY <1>2, <1>8, <2>5, <3>1 DEF ResetsApart
            <3> QED BY <1>2, <2>3, <2>5, <3>2
        <2>6. ended' = ended \cup more
            BY <1>8, <2>1
        <2> QED BY <1>3, <1>8, <2>2, <2>4, <2>5, <2>6
    <1> QED BY <1>5, <1>6, <1>7, <1>8, NextIsSessionsStep DEF SessionsStep

\* Unless a token of a user is refreshed while its password is reset, the reset
\* logs out every device, whatever logins, logouts and other resets overlap.
THEOREM ResetsLogOut == Spec /\ []ResetsApart => []ResetLogsOutAllDevices
    <1>1. EndedStayEnded => ResetLogsOutAllDevices
        BY DEF EndedStayEnded, ResetLogsOutAllDevices, Unrevoked
    <1>2. Inductive /\ ResetsApart /\ EndedStayEnded /\ [Next]_vars => EndedStayEnded'
        BY NextKeepsEnded
    <1> QED BY <1>1, <1>2, InitEnded, InductiveInvariant, PTL DEF Spec

=============================================================================
