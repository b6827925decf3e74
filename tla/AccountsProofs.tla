---------------------------- MODULE AccountsProofs ----------------------------
(***************************************************************************)
(* Proofs about Accounts, for any number of handlers, users, sessions and  *)
(* links, any set of requests, and whether or not users load.              *)
(*                                                                         *)
(* The steps share two shapes: a handler goes on to another label (Goto)   *)
(* or answers (Finish), while the rows of the tables endure.  What the     *)
(* handlers must satisfy is proved for the shapes once, what the rows must *)
(* satisfy for each statement that writes them.                            *)
(***************************************************************************)
EXTENDS Accounts, TLAPS

\* What handlers must satisfy, and what rows must satisfy.
HandlersOK == RequestsFollowCode /\ TargetsWereIssued /\ LockMeansReset
RowsOK == UnusedIdsAreBlank /\ CondemnedAreRevoked /\ RotationIsAtomic

\* A reset that has written the users row.
Writing == {"mark", "sweep", "reset"}
USE DEF Writing

\* Rows are never deleted and links never change hands.
RowsEndure ==
    /\ \A s \in Sessions : sessions[s].status # "absent" => sessions'[s].status # "absent"
    /\ \A l \in Links : links[l].status # "absent" =>
          links'[l].status # "absent" /\ links'[l].user = links[l].user

\* The parts of the type invariant.
TablesTyped ==
    /\ users \in [Users -> UserType]
    /\ sessions \in [Sessions -> [status : Unrevoked \cup Reasons \cup {"absent"},
                                  user : Users \cup {NoUser}, from : Ids, login : Ids]]
    /\ links \in [Links -> [status : {"absent", "valid", "expired", "used"},
                            user : Users \cup {NoUser}]]
HistoryTyped ==
    /\ wrong \in [Users -> 0 .. LockAfter]
    /\ chosen \in [Users -> Passwords]
    /\ condemned \subseteq Sessions /\ ended \subseteq Ids
    /\ reused \subseteq Sessions
HandlersTyped ==
    /\ userLock \in [Users -> Handlers \cup {NoHandler}]
    /\ pc \in [Handlers -> {"idle", "begin", "issue", "miss", "user", "rotate", "revoke",
                            "invalidate", "invalidating", "send",
                            "password", "mark", "sweep", "reset", "change", "deactivate"}]
    /\ req \in [Handlers -> Requests \cup {Nothing}]
    /\ seen \in [Handlers -> [failed : Nat, oldHash : BOOLEAN]]
    /\ targets \in [Handlers -> SUBSET (Sessions \cup Links)]

LEMMA InductiveParts ==
    Inductive <=> TablesTyped /\ HistoryTyped /\ HandlersTyped /\ HandlersOK /\ RowsOK
    BY DEF Inductive, TypeOK, TablesTyped, HistoryTyped, HandlersTyped, HandlersOK, RowsOK

LEMMA InductivePartsNext ==
    ASSUME TablesTyped', HistoryTyped', HandlersTyped', HandlersOK', RowsOK'
    PROVE  Inductive'
    BY DEF Inductive, TypeOK, TablesTyped, HistoryTyped, HandlersTyped, HandlersOK, RowsOK

\* What the fields of a request are.
LEMMA RequestFields ==
    ASSUME NEW r \in Requests
    PROVE  /\ r # Nothing /\ r.op # "none"
           /\ r.op = "login" => r.user \in Users /\ r.password \in Passwords
           /\ r.op \in {"refresh", "logout", "revoke"} => r.session \in Sessions
           /\ r.op \in {"logout", "revoke", "forgot", "deactivate", "change"} => r.user \in Users
           /\ r.op = "reset" => r.link \in Links /\ r.password \in Passwords
           /\ r.op = "change" => r.password \in Passwords
    BY RequestsAssumption DEF RequestType, Nothing

\* A busy handler serves a request.
LEMMA BusyServes ==
    ASSUME Inductive, NEW h \in Handlers, pc[h] # "idle"
    PROVE  req[h] \in Requests
    BY DEF Inductive, TypeOK, RequestsFollowCode

\* Nobody has asked for anything.
LEMMA InitInductive == Init => Inductive
    <1> SUFFICES ASSUME Init PROVE Inductive
        OBVIOUS
    <1>1. TablesTyped /\ HistoryTyped /\ HandlersTyped
        <2>1. PICK start \in [Users -> Passwords \X BOOLEAN] :
                 /\ users = [u \in Users |-> [password |-> start[u][1], oldHash |-> start[u][2],
                                              failed |-> 0, locked |-> FALSE, active |-> TRUE]]
                 /\ chosen = [u \in Users |-> start[u][1]]
            BY DEF Init
        <2>2. TablesTyped
            BY <2>1 DEF Init, TablesTyped, UserType, NoSession, NoLink, Ids, None
        <2>3. HistoryTyped
            BY <2>1, LimitsAssumption DEF Init, HistoryTyped
        <2>4. HandlersTyped
            BY DEF Init, HandlersTyped, NoRow, Nothing
        <2> QED BY <2>2, <2>3, <2>4
    <1>2. HandlersOK
        BY HandlersAssumption
        DEF Init, HandlersOK, RequestsFollowCode, TargetsWereIssued, LockMeansReset, Nothing
    <1>3. RowsOK
        BY IdsAssumption DEF Init, RowsOK, UnusedIdsAreBlank, CondemnedAreRevoked,
            RotationIsAtomic, NoSession, NoLink, None
    <1> QED BY <1>1, <1>2, <1>3, InductiveParts

-----------------------------------------------------------------------------
(* Handlers *)

\* A handler that holds no row answers.
LEMMA FinishKeepsHandlers ==
    ASSUME Inductive, NEW h \in Handlers, RowsEndure, pc[h] \notin Writing,
           Finish(h),
           UNCHANGED userLock
    PROVE  HandlersTyped' /\ HandlersOK'
    <1> USE DEF Inductive, TypeOK
    <1>1. HandlersTyped'
        BY DEF Finish, HandlersTyped, NoRow
    <1>2. /\ pc'[h] = "idle" /\ req'[h] = Nothing
          /\ \A g \in Handlers : g # h =>
                pc'[g] = pc[g] /\ req'[g] = req[g] /\ targets'[g] = targets[g]
        BY DEF Finish
    <1>3. RequestsFollowCode'
        <2> SUFFICES ASSUME NEW g \in Handlers PROVE RequestsFollowCode!(g)'
            BY DEF RequestsFollowCode
        <2>1. CASE g = h
            BY <1>2, <2>1 DEF Nothing
        <2>2. CASE g # h
            <3>1. RequestsFollowCode!(g)
                BY DEF RequestsFollowCode
            <3>2. req[g].op \in {"refresh", "logout", "revoke"} => req[g].session \in Sessions
                BY RequestFields DEF Nothing
            <3>3. req[g].op = "reset" => req[g].link \in Links
                BY RequestFields DEF Nothing
            <3> QED BY <1>2, <2>2, <3>1, <3>2, <3>3 DEF RowsEndure
        <2> QED BY <2>1, <2>2
    <1>4. TargetsWereIssued'
        BY <1>2 DEF TargetsWereIssued, RowsEndure
    <1>5. LockMeansReset'
        <2> SUFFICES ASSUME NEW u \in Users, NEW g \in Handlers
                     PROVE  userLock'[u] = g <=> (pc'[g] \in Writing /\ links'[req'[g].link].user = u)
            BY DEF LockMeansReset
        <2>1. CASE g = h
            BY <1>2, <2>1 DEF LockMeansReset
        <2>2. CASE g # h
            <3>1. pc[g] \in Writing => links'[req[g].link].user = links[req[g].link].user
                BY RequestFields, BusyServes DEF RequestsFollowCode, RowsEndure
            <3> QED BY <1>2, <2>2, <3>1 DEF LockMeansReset
        <2> QED BY <2>1, <2>2
    <1> QED BY <1>1, <1>3, <1>4, <1>5 DEF HandlersOK

\* A handler reads, and goes on with its request.
LEMMA GotoKeepsHandlers ==
    ASSUME Inductive, NEW h \in Handlers, pc[h] \notin Writing, pc[h] # "idle",
           NEW label, Goto(h, label), UNCHANGED <<sessions, links, userLock>>,
           \/ label \in {"issue", "miss"} /\ req[h].op = "login"
           \/ label \in {"user", "rotate"} /\ req[h].op = "refresh"
           \/ label = "revoke" /\ req[h].op \in {"logout", "revoke"}
           \/ label \in {"invalidate", "invalidating", "send"} /\ req[h].op = "forgot"
           \/ label = "password" /\ req[h].op = "reset"
           \/ label \in {"change", "deactivate"} /\ req[h].op = label,
           seen' \in [Handlers -> [failed : Nat, oldHash : BOOLEAN]],
           NEW T \in SUBSET (Sessions \cup Links), targets' = [targets EXCEPT ![h] = T]
    PROVE  HandlersTyped' /\ HandlersOK'
    <1> USE DEF Inductive, TypeOK
    <1>1. HandlersTyped'
        BY DEF Goto, HandlersTyped
    <1>2. /\ pc'[h] = label /\ req' = req
          /\ \A g \in Handlers : g # h => pc'[g] = pc[g] /\ targets'[g] = targets[g]
        BY DEF Goto
    <1>3. RequestsFollowCode'
        <2> SUFFICES ASSUME NEW g \in Handlers PROVE RequestsFollowCode!(g)'
            BY DEF RequestsFollowCode
        <2>1. RequestsFollowCode!(g)
            BY DEF RequestsFollowCode
        <2>2. CASE g = h
            BY <1>2, <2>1, <2>2
        <2>3. CASE g # h
            BY <1>2, <2>1, <2>3
        <2> QED BY <2>2, <2>3
    <1>4. TargetsWereIssued'
        BY <1>2 DEF TargetsWereIssued
    <1>5. LockMeansReset'
        BY <1>2 DEF LockMeansReset
    <1> QED BY <1>1, <1>3, <1>4, <1>5 DEF HandlersOK

\* A request is accepted.
LEMMA ReceiveKeepsInductive ==
    ASSUME Inductive, NEW h \in Handlers, NEW r \in Requests, Receive(h, r)
    PROVE  Inductive'
    <1> USE DEF Inductive, TypeOK
    <1>1. /\ pc[h] = "idle" /\ pc'[h] = "begin" /\ req'[h] = r
          /\ \A g \in Handlers : g # h => pc'[g] = pc[g] /\ req'[g] = req[g]
          /\ UNCHANGED <<users, sessions, links, userLock, seen, targets>>
          /\ UNCHANGED <<wrong, chosen, condemned, ended, reused>>
        BY DEF Receive, tables, history
    <1>2. TablesTyped' /\ HistoryTyped' /\ HandlersTyped'
        BY <1>1 DEF Receive, TablesTyped, HistoryTyped, HandlersTyped
    <1>3. /\ r.op \in {"refresh", "logout", "revoke"} => r.session \in Issued
          /\ r.op = "reset" => links[r.link].status # "absent"
          /\ r # Nothing
        <2>1. Presentable(r)
            BY DEF Receive
        <2>2. r.op = "refresh" => r.session \in Issued
            BY <2>1 DEF Presentable
        <2>3. r.op = "logout" => r.session \in Issued
            BY <2>1 DEF Presentable
        <2>4. r.op = "revoke" => r.session \in Issued
            BY <2>1 DEF Presentable
        <2>5. r.op = "reset" => links[r.link].status # "absent"
            BY <2>1 DEF Presentable
        <2>6. r # Nothing
            BY RequestFields
        <2> QED BY <2>2, <2>3, <2>4, <2>5, <2>6
    <1>4. RequestsFollowCode'
        BY <1>1, <1>3 DEF RequestsFollowCode, Issued
    <1>5. TargetsWereIssued' /\ LockMeansReset'
        <2>1. TargetsWereIssued'
            BY <1>1 DEF TargetsWereIssued
        <2>2. LockMeansReset'
            BY <1>1 DEF LockMeansReset
        <2> QED BY <2>1, <2>2
    <1>6. RowsOK'
        BY <1>1 DEF RowsOK, UnusedIdsAreBlank, CondemnedAreRevoked, RotationIsAtomic
    <1> QED BY <1>2, <1>4, <1>5, <1>6, InductivePartsNext DEF HandlersOK

-----------------------------------------------------------------------------
(* Rows *)

\* What only reads sessions and links changes no row of them.
LEMMA ReadsKeepRows ==
    ASSUME Inductive, UNCHANGED <<sessions, links, condemned>>
    PROVE  RowsOK' /\ RowsEndure
    BY DEF Inductive, RowsOK, UnusedIdsAreBlank, CondemnedAreRevoked, RotationIsAtomic, RowsEndure

\* A sessions row changes its status, for one of the same standing: rows that are
\* there stay there, revoked ones stay revoked, and no other becomes rotated.
LEMMA StatusChangeKeepsRows ==
    ASSUME Inductive, UNCHANGED <<links, condemned>>,
           sessions' \in [Sessions -> [status : Unrevoked \cup Reasons \cup {"absent"},
                                       user : Users \cup {NoUser}, from : Ids, login : Ids]],
           \A s \in Sessions :
              /\ sessions[s].status = "absent" => sessions'[s] = sessions[s]
              /\ sessions[s].status # "absent" => sessions'[s].status # "absent"
              /\ sessions'[s].from = sessions[s].from
              /\ sessions[s].status \in Reasons => sessions'[s].status \in Reasons
              /\ sessions'[s].status = "rotated" => sessions[s].status = "rotated"
    PROVE  RowsOK' /\ RowsEndure
    <1> USE DEF Inductive
    <1>1. RowsEndure
        BY DEF RowsEndure
    <1>2. UnusedIdsAreBlank' /\ CondemnedAreRevoked'
        BY DEF UnusedIdsAreBlank, CondemnedAreRevoked, TypeOK
    <1>3. RotationIsAtomic'
        BY DEF RotationIsAtomic
    <1> QED BY <1>1, <1>2, <1>3 DEF RowsOK

\* A session is inserted at an unused id, and the one it replaces is rotated.
LEMMA InsertKeepsRows ==
    ASSUME Inductive, UNCHANGED <<links, condemned>>,
           NEW new \in Sessions, sessions[new].status = "absent",
           NEW old \in Ids, old \in Sessions => sessions[old].status # "absent",
           NEW u \in Users \cup {NoUser}, NEW login \in Ids,
           sessions' = [s \in Sessions |->
               IF s = new THEN [status |-> "live", user |-> u, from |-> old, login |-> login]
               ELSE IF s = old THEN [sessions[s] EXCEPT !.status = "rotated"]
               ELSE sessions[s]]
    PROVE  /\ RowsOK' /\ RowsEndure
           /\ sessions' \in [Sessions -> [status : Unrevoked \cup Reasons \cup {"absent"},
                                          user : Users \cup {NoUser}, from : Ids, login : Ids]]
    <1> USE DEF Inductive
    <1> DEFINE Row == [status : Unrevoked \cup Reasons \cup {"absent"},
                       user : Users \cup {NoUser}, from : Ids, login : Ids]
    <1>1. old # new
        OBVIOUS
    <1>2. /\ sessions'[new] = [status |-> "live", user |-> u, from |-> old, login |-> login]
          /\ old \in Sessions => sessions'[old] = [sessions[old] EXCEPT !.status = "rotated"]
          /\ \A s \in Sessions : s # new /\ s # old => sessions'[s] = sessions[s]
        BY <1>1
    <1>3. sessions \in [Sessions -> Row]
        BY DEF TypeOK
    <1>4. \A s \in Sessions : sessions'[s] \in Row
        <2>1. sessions'[new] \in Row
            BY <1>2 DEF Unrevoked
        <2>2. old \in Sessions => sessions'[old] \in Row
            BY <1>2, <1>3 DEF Reasons
        <2> QED BY <1>2, <1>3, <2>1, <2>2
    <1>5. \A s \in Sessions : s # new =>
             /\ sessions'[s].from = sessions[s].from
             /\ s # old => sessions'[s].status = sessions[s].status
             /\ s = old => sessions'[s].status = "rotated"
        BY <1>2, <1>3
    <1>6. RowsEndure
        BY <1>2, <1>5 DEF RowsEndure
    <1>7. UnusedIdsAreBlank'
        BY <1>2, <1>5 DEF UnusedIdsAreBlank
    <1>8. CondemnedAreRevoked'
        BY <1>5 DEF CondemnedAreRevoked, Reasons, TypeOK
    <1>9. RotationIsAtomic'
        <2>1. sessions[new] = NoSession /\ None \notin Sessions
            BY IdsAssumption DEF UnusedIdsAreBlank, None
        <2>2. \A t \in Sessions : sessions[t].from # new
            BY DEF RotationIsAtomic, Reasons
        <2>3. ASSUME NEW s \in Sessions, NEW t \in Sessions, sessions'[t].from = s
              PROVE  sessions'[s].status \in Reasons
            <3>1. CASE t = new
                BY <1>1, <1>2, <1>5, <2>3, <3>1 DEF Reasons
            <3>2. CASE t # new
                <4>1. sessions[t].from = s /\ s # new
                    BY <1>5, <2>2, <2>3, <3>2
                <4> QED BY <1>5, <4>1 DEF RotationIsAtomic, Reasons
            <3> QED BY <3>1, <3>2
        <2>4. ASSUME NEW s \in Sessions, sessions'[s].status = "rotated"
              PROVE  \E t \in Sessions : sessions'[t].from = s
            <3>1. CASE s = old
                BY <1>2, <3>1
            <3>2. CASE s # old
                <4>1. s # new /\ sessions[s].status = "rotated"
                    BY <1>2, <1>5, <2>4, <3>2
                <4>2. PICK t \in Sessions : sessions[t].from = s
                    BY <4>1 DEF RotationIsAtomic
                <4>3. t # new
                    BY <2>1, <4>2 DEF NoSession
                <4> QED BY <1>5, <4>2, <4>3
            <3> QED BY <3>1, <3>2
        <2> QED BY <2>3, <2>4 DEF RotationIsAtomic
    <1>10. sessions' \in [Sessions -> Row]
        BY <1>4
    <1> QED BY <1>6, <1>7, <1>8, <1>9, <1>10 DEF RowsOK

\* A new link is inserted at an unused id, and the targets are marked used.
LEMMA RenewKeepsRows ==
    ASSUME Inductive, UNCHANGED <<sessions, condemned>>,
           NEW new \in Links, links[new].status = "absent", NEW u \in Users,
           NEW S,
           links' = Renewed(u, S, new)
    PROVE  /\ RowsOK' /\ RowsEndure
           /\ links' \in [Links -> [status : {"absent", "valid", "expired", "used"},
                                    user : Users \cup {NoUser}]]
    <1> DEFINE Row == [status : {"absent", "valid", "expired", "used"},
                       user : Users \cup {NoUser}]
    <1>1. links \in [Links -> Row]
        BY DEF Inductive, TypeOK
    <1>2. /\ links'[new] = [status |-> "valid", user |-> u]
          /\ \A l \in S \cap Links : l # new => links'[l] = [links[l] EXCEPT !.status = "used"]
          /\ \A l \in Links : l # new /\ l \notin S => links'[l] = links[l]
        BY DEF Renewed
    <1>3. \A l \in S \cap Links : l # new => /\ links'[l] \in Row
                                            /\ links'[l].status = "used"
                                            /\ links'[l].user = links[l].user
        BY <1>1, <1>2
    <1>4. links' \in [Links -> Row]
        <2>1. \A l \in Links : links'[l] \in Row
            BY <1>1, <1>2, <1>3
        <2> QED BY <2>1 DEF Renewed
    <1>5. RowsEndure
        BY <1>2, <1>3 DEF RowsEndure
    <1>6. UnusedIdsAreBlank'
        <2>1. ASSUME NEW l \in Links, links'[l].status = "absent"
              PROVE  links'[l] = NoLink
            BY <1>2, <1>3, <2>1 DEF Inductive, UnusedIdsAreBlank
        <2> QED BY <2>1 DEF Inductive, UnusedIdsAreBlank
    <1>7. CondemnedAreRevoked' /\ RotationIsAtomic'
        BY DEF Inductive, CondemnedAreRevoked, RotationIsAtomic
    <1> QED BY <1>4, <1>5, <1>6, <1>7 DEF RowsOK

-----------------------------------------------------------------------------
(* Requests *)

\* A handler that answers without having written anything.
LEMMA AnswerKeepsInductive ==
    ASSUME Inductive, NEW h \in Handlers, pc[h] \notin Writing,
           Finish(h),
           UNCHANGED <<users, sessions, links, userLock, history>>
    PROVE  Inductive'
    <1>1. RowsOK' /\ RowsEndure
        BY ReadsKeepRows DEF history
    <1>2. TablesTyped' /\ HistoryTyped'
        BY DEF Inductive, TypeOK, TablesTyped, HistoryTyped, history
    <1>3. HandlersTyped' /\ HandlersOK'
        BY <1>1, FinishKeepsHandlers
    <1> QED BY <1>1, <1>2, <1>3, InductivePartsNext

\* A handler that only reads, and goes on with its request.
LEMMA ReadKeepsInductive ==
    ASSUME Inductive, NEW h \in Handlers, pc[h] \notin Writing, pc[h] # "idle",
           NEW label, Goto(h, label),
           UNCHANGED <<users, sessions, links, userLock, history>>,
           \/ label \in {"issue", "miss"} /\ req[h].op = "login"
           \/ label \in {"user", "rotate"} /\ req[h].op = "refresh"
           \/ label = "revoke" /\ req[h].op \in {"logout", "revoke"}
           \/ label \in {"invalidate", "invalidating", "send"} /\ req[h].op = "forgot"
           \/ label = "password" /\ req[h].op = "reset"
           \/ label \in {"change", "deactivate"} /\ req[h].op = label,
           seen' \in [Handlers -> [failed : Nat, oldHash : BOOLEAN]],
           NEW T \in SUBSET (Sessions \cup Links), targets' = [targets EXCEPT ![h] = T]
    PROVE  Inductive'
    <1>1. RowsOK'
        BY ReadsKeepRows DEF history
    <1>2. TablesTyped' /\ HistoryTyped'
        BY DEF Inductive, TypeOK, TablesTyped, HistoryTyped, history
    <1>3. HandlersTyped' /\ HandlersOK'
        BY GotoKeepsHandlers
    <1> QED BY <1>1, <1>2, <1>3, InductivePartsNext

\* The users rows that a login and a new password write.
LEMMA WrittenRowsTyped ==
    ASSUME NEW row \in UserType, NEW password \in Passwords
    PROVE  /\ \A before : LoggedIn(row, before, password) \in UserType
           /\ Rehashed(row, password) \in UserType
    <1>1. ASSUME NEW before PROVE LoggedIn(row, before, password) \in UserType
        <2>1. CASE before.oldHash
            BY <2>1 DEF LoggedIn, UserType
        <2>2. CASE ~before.oldHash
            BY <2>2 DEF LoggedIn, UserType
        <2> QED BY <2>1, <2>2
    <1>2. Rehashed(row, password) \in UserType
        BY DEF Rehashed, UserType
    <1> QED BY <1>1, <1>2

\* LoginService.
LEMMA LoginKeepsInductive ==
    ASSUME Inductive, NEW h \in Handlers, Login(h)
    PROVE  Inductive'
    <1>1. CASE DenyLogin(h)
        BY <1>1, AnswerKeepsInductive DEF DenyLogin, At, tables
    <1>2. CASE CheckPassword(h)
        <2>1. PICK label \in {"issue", "miss"} : Goto(h, label)
            BY <1>2 DEF CheckPassword
        <2>2. req[h] \in Requests /\ req[h].op = "login" /\ pc[h] = "begin"
            BY <1>2, BusyServes DEF CheckPassword, At
        <2>3. req[h].user \in Users
            BY <2>2, RequestFields
        <2>4. seen' \in [Handlers -> [failed : Nat, oldHash : BOOLEAN]]
            <3>1. users[req[h].user].failed \in Nat /\ users[req[h].user].oldHash \in BOOLEAN
                BY <2>3 DEF Inductive, TypeOK, UserType
            <3> QED BY <1>2, <3>1 DEF CheckPassword, Inductive, TypeOK
        <2>5. targets' = [targets EXCEPT ![h] = targets[h]]
              /\ targets[h] \in SUBSET (Sessions \cup Links)
            BY <1>2 DEF CheckPassword, Inductive, TypeOK
        <2> QED BY <1>2, <2>1, <2>2, <2>4, <2>5, ReadKeepsInductive DEF CheckPassword, tables
    <1>3. CASE CountFailure(h)
        <2>1. pc[h] = "miss" /\ req[h] \in Requests /\ req[h].op = "login"
            BY <1>3, BusyServes DEF CountFailure, Inductive, RequestsFollowCode
        <2>2. req[h].user \in Users
            BY <2>1, RequestFields
        <2>3. /\ UNCHANGED <<users, sessions, links, userLock>>
              /\ UNCHANGED <<chosen, condemned, ended, reused>>
            BY <1>3 DEF CountFailure, AfterRaise
        <2>4. wrong' \in [Users -> 0 .. LockAfter]
            BY <1>3, <2>2, LimitsAssumption DEF CountFailure, Inductive, TypeOK
        <2>5. TablesTyped' /\ HistoryTyped'
            BY <2>3, <2>4 DEF Inductive, TypeOK, TablesTyped, HistoryTyped
        <2>6. RowsOK' /\ RowsEndure
            BY <2>3, ReadsKeepRows
        <2>7. HandlersTyped' /\ HandlersOK'
            BY <1>3, <2>1, <2>3, <2>6, FinishKeepsHandlers DEF CountFailure
        <2> QED BY <2>5, <2>6, <2>7, InductivePartsNext
    <1>4. CASE IssueSession(h)
        <2>1. pc[h] = "issue" /\ req[h] \in Requests /\ req[h].op = "login"
            BY <1>4, BusyServes DEF IssueSession, Inductive, RequestsFollowCode
        <2>2. req[h].user \in Users /\ req[h].password \in Passwords
            BY <2>1, RequestFields
        <2>3. users' \in [Users -> UserType]
            <3>1. LoggedIn(users[req[h].user], seen[h], req[h].password) \in UserType
                BY <2>2, WrittenRowsTyped DEF Inductive, TypeOK
            <3> QED BY <1>4, <3>1 DEF IssueSession, Inductive, TypeOK
        <2>4. PICK s \in Sessions :
                 /\ IsNext(s, Sessions \ Issued)
                 /\ sessions' = [sessions EXCEPT ![s] =
                       [status |-> "live", user |-> req[h].user, from |-> None, login |-> s]]
            BY <1>4 DEF IssueSession
        <2>5. sessions[s].status = "absent"
            BY <2>4 DEF IsNext, Issued
        <2>6. /\ UNCHANGED <<links, userLock>>
              /\ UNCHANGED <<chosen, condemned, ended, reused>>
            BY <1>4 DEF IssueSession
        <2>7. /\ RowsOK' /\ RowsEndure
              /\ sessions' \in [Sessions -> [status : Unrevoked \cup Reasons \cup {"absent"},
                                             user : Users \cup {NoUser}, from : Ids, login : Ids]]
            <3>1. None \in Ids /\ None \notin Sessions /\ s \in Ids
                BY IdsAssumption DEF Ids, None
            <3>2. sessions' = [t \in Sessions |->
                     IF t = s THEN [status |-> "live", user |-> req[h].user,
                                    from |-> None, login |-> s]
                     ELSE IF t = None THEN [sessions[t] EXCEPT !.status = "rotated"]
                     ELSE sessions[t]]
                BY <2>4, <3>1 DEF Inductive, TypeOK
            <3> HIDE DEF None
            <3> QED BY <2>2, <2>5, <2>6, <3>1, <3>2, InsertKeepsRows
        <2>8. wrong' \in [Users -> 0 .. LockAfter]
            BY <1>4, <2>2, LimitsAssumption DEF IssueSession, Inductive, TypeOK
        <2>9. TablesTyped' /\ HistoryTyped'
            BY <2>3, <2>6, <2>7, <2>8 DEF Inductive, TypeOK, TablesTyped, HistoryTyped
        <2>10. HandlersTyped' /\ HandlersOK'
            BY <1>4, <2>1, <2>6, <2>7, FinishKeepsHandlers DEF IssueSession
        <2> QED BY <2>7, <2>9, <2>10, InductivePartsNext
    <1> QED BY <1>1, <1>2, <1>3, <1>4 DEF Login

\* RefreshService.
LEMMA RefreshKeepsInductive ==
    ASSUME Inductive, NEW h \in Handlers, Refresh(h)
    PROVE  Inductive'
    <1>1. CASE RefuseToken(h)
        BY <1>1, AnswerKeepsInductive DEF RefuseToken, At, tables
    <1>2. CASE DetectReuse(h)
        <2>1. /\ pc[h] = "begin" /\ Finish(h)
              /\ UNCHANGED <<users, sessions, links, userLock>>
              /\ UNCHANGED <<wrong, chosen, condemned, ended>>
            BY <1>2 DEF DetectReuse, AfterRaise, At
        <2>2. reused' \subseteq Sessions
            BY <1>2 DEF DetectReuse, LiveOf, Inductive, TypeOK
        <2>3. TablesTyped' /\ HistoryTyped'
            BY <2>1, <2>2 DEF Inductive, TypeOK, TablesTyped, HistoryTyped
        <2>4. RowsOK' /\ RowsEndure
            BY <2>1, ReadsKeepRows
        <2>5. HandlersTyped' /\ HandlersOK'
            BY <2>1, <2>4, FinishKeepsHandlers
        <2> QED BY <2>3, <2>4, <2>5, InductivePartsNext
    <1>3. CASE FindSession(h)
        <2>1. /\ targets' = [targets EXCEPT ![h] = targets[h]]
              /\ targets[h] \in SUBSET (Sessions \cup Links)
              /\ seen' \in [Handlers -> [failed : Nat, oldHash : BOOLEAN]]
            BY <1>3 DEF FindSession, Inductive, TypeOK
        <2> QED BY <1>3, <2>1, ReadKeepsInductive DEF FindSession, At, tables
    <1>4. CASE CheckUser(h)
        <2>1. pc[h] = "user" /\ req[h].op = "refresh"
            BY <1>4 DEF CheckUser, Inductive, RequestsFollowCode
        <2>2. UNCHANGED <<users, sessions, links, userLock, history>>
            BY <1>4 DEF CheckUser, tables
        <2>3. CASE Finish(h)
            BY <2>1, <2>2, <2>3, AnswerKeepsInductive
        <2>4. CASE Goto(h, "rotate") /\ UNCHANGED <<seen, targets>>
            <3>1. /\ targets' = [targets EXCEPT ![h] = targets[h]]
                  /\ targets[h] \in SUBSET (Sessions \cup Links)
                  /\ seen' \in [Handlers -> [failed : Nat, oldHash : BOOLEAN]]
                BY <2>4 DEF Inductive, TypeOK
            <3> QED BY <2>1, <2>2, <2>4, <3>1, ReadKeepsInductive
        <2> QED BY <1>4, <2>3, <2>4 DEF CheckUser
    <1>5. CASE Rotate(h)
        <2>1. pc[h] = "rotate" /\ req[h] \in Requests /\ req[h].op = "refresh"
            BY <1>5, BusyServes DEF Rotate, Inductive, RequestsFollowCode
        <2> DEFINE old == req[h].session
        <2>2. old \in Sessions /\ sessions[old].status # "absent"
            BY <2>1, RequestFields DEF Inductive, RequestsFollowCode
        <2>3. PICK s \in Sessions : IsNext(s, Sessions \ Issued) /\ sessions' = Rotated(old, s)
            BY <1>5 DEF Rotate
        <2>4. sessions[s].status = "absent"
            BY <2>3 DEF IsNext, Issued
        <2>5. /\ UNCHANGED <<users, links, userLock>>
              /\ UNCHANGED <<wrong, chosen, condemned, ended, reused>>
            BY <1>5 DEF Rotate, history
        <2>6. /\ RowsOK' /\ RowsEndure
              /\ sessions' \in [Sessions -> [status : Unrevoked \cup Reasons \cup {"absent"},
                                             user : Users \cup {NoUser}, from : Ids, login : Ids]]
            <3>1. /\ old \in Ids
                  /\ sessions[old].user \in Users \cup {NoUser} /\ sessions[old].login \in Ids
                BY <2>2 DEF Ids, Inductive, TypeOK
            <3>2. s # old
                BY <2>2, <2>4
            <3>3. sessions' = [t \in Sessions |->
                     IF t = s THEN [status |-> "live", user |-> sessions[old].user,
                                    from |-> old, login |-> sessions[old].login]
                     ELSE IF t = old THEN [sessions[t] EXCEPT !.status = "rotated"]
                     ELSE sessions[t]]
                BY <2>2, <2>3, <3>2 DEF Rotated, Inductive, TypeOK
            <3> HIDE DEF old
            <3> QED BY <2>2, <2>4, <2>5, <3>1, <3>3, InsertKeepsRows
        <2>7. TablesTyped' /\ HistoryTyped'
            BY <2>5, <2>6 DEF Inductive, TypeOK, TablesTyped, HistoryTyped
        <2>8. HandlersTyped' /\ HandlersOK'
            BY <1>5, <2>1, <2>5, <2>6, FinishKeepsHandlers DEF Rotate
        <2> QED BY <2>6, <2>7, <2>8, InductivePartsNext
    <1> QED BY <1>1, <1>2, <1>3, <1>4, <1>5 DEF Refresh

\* LogoutService and revoke_session.
LEMMA RevokeKeepsInductive ==
    ASSUME Inductive, NEW h \in Handlers, Revoke(h)
    PROVE  Inductive'
    <1>1. CASE FindOwnSession(h)
        <2>1. /\ targets' = [targets EXCEPT ![h] = targets[h]]
              /\ targets[h] \in SUBSET (Sessions \cup Links)
              /\ seen' \in [Handlers -> [failed : Nat, oldHash : BOOLEAN]]
            BY <1>1 DEF FindOwnSession, Inductive, TypeOK
        <2> QED BY <1>1, <2>1, ReadKeepsInductive DEF FindOwnSession, tables
    <1>2. CASE RefuseRevocation(h)
        BY <1>2, AnswerKeepsInductive DEF RefuseRevocation, tables
    <1>3. CASE RevokeSession(h)
        <2>1. pc[h] = "revoke" /\ req[h] \in Requests /\ req[h].op \in {"logout", "revoke"}
            BY <1>3, BusyServes DEF RevokeSession, Inductive, RequestsFollowCode
        <2> DEFINE old == req[h].session
        <2>2. old \in Sessions /\ sessions[old].status # "absent"
            BY <2>1, RequestFields DEF Inductive, RequestsFollowCode
        <2>3. PICK reason \in {"logout", "user_revoked"} :
                 sessions' = [sessions EXCEPT ![old].status = reason]
            BY <1>3 DEF RevokeSession, Revoked
        <2> HIDE DEF old
        <2>4. /\ UNCHANGED <<users, links, userLock>>
              /\ UNCHANGED <<wrong, chosen, condemned, ended, reused>>
            BY <1>3 DEF RevokeSession, history
        <2>5. sessions' \in [Sessions -> [status : Unrevoked \cup Reasons \cup {"absent"},
                                         user : Users \cup {NoUser}, from : Ids, login : Ids]]
            <3> DEFINE Row == [status : Unrevoked \cup Reasons \cup {"absent"},
                               user : Users \cup {NoUser}, from : Ids, login : Ids]
            <3>1. sessions \in [Sessions -> Row]
                BY DEF Inductive, TypeOK
            <3>2. reason \in Unrevoked \cup Reasons \cup {"absent"}
                BY DEF Reasons
            <3>3. [sessions[old] EXCEPT !.status = reason] \in Row
                BY <2>2, <3>1, <3>2
            <3>4. sessions' \in [Sessions -> Row]
                BY <2>3, <3>1, <3>3
            <3> QED BY <3>4
        <2>6. /\ sessions'[old].status = reason /\ sessions'[old].from = sessions[old].from
              /\ \A s \in Sessions : s # old => sessions'[s] = sessions[s]
            BY <2>2, <2>3 DEF Inductive, TypeOK
        <2>7. RowsOK' /\ RowsEndure
            <3>1. \A s \in Sessions :
                     /\ sessions[s].status = "absent" => sessions'[s] = sessions[s]
                     /\ sessions[s].status # "absent" => sessions'[s].status # "absent"
                     /\ sessions'[s].from = sessions[s].from
                     /\ sessions[s].status \in Reasons => sessions'[s].status \in Reasons
                     /\ sessions'[s].status = "rotated" => sessions[s].status = "rotated"
                BY <2>2, <2>6 DEF Reasons
            <3> QED BY <2>4, <2>5, <3>1, StatusChangeKeepsRows
        <2>8. TablesTyped' /\ HistoryTyped'
            BY <2>4, <2>5 DEF Inductive, TypeOK, TablesTyped, HistoryTyped
        <2>9. HandlersTyped' /\ HandlersOK'
            BY <1>3, <2>1, <2>4, <2>7, FinishKeepsHandlers DEF RevokeSession
        <2> QED BY <2>7, <2>8, <2>9, InductivePartsNext
    <1> QED BY <1>1, <1>2, <1>3 DEF Revoke

\* PasswordResetService.forgot_password.
LEMMA ForgotKeepsInductive ==
    ASSUME Inductive, NEW h \in Handlers, Forgot(h)
    PROVE  Inductive'
    <1>1. CASE IgnoreForgot(h)
        BY <1>1, AnswerKeepsInductive DEF IgnoreForgot, At, tables
    <1>2. CASE FindForgetful(h)
        <2>1. /\ targets' = [targets EXCEPT ![h] = targets[h]]
              /\ targets[h] \in SUBSET (Sessions \cup Links)
              /\ seen' \in [Handlers -> [failed : Nat, oldHash : BOOLEAN]]
            BY <1>2 DEF FindForgetful, Inductive, TypeOK
        <2> QED BY <1>2, <2>1, ReadKeepsInductive DEF FindForgetful, At, tables
    <1>3. CASE InvalidateLinks(h)
        <2>1. pc[h] = "invalidate" /\ req[h].op = "forgot"
            BY <1>3 DEF InvalidateLinks, Inductive, RequestsFollowCode
        <2>2. /\ UnusedOf(req[h].user) \in SUBSET (Sessions \cup Links)
              /\ seen' \in [Handlers -> [failed : Nat, oldHash : BOOLEAN]]
            BY <1>3 DEF InvalidateLinks, UnusedOf, Inductive, TypeOK
        <2> QED BY <1>3, <2>1, <2>2, ReadKeepsInductive DEF InvalidateLinks, tables
    <1>4. CASE LockLinks(h)
        <2>1. pc[h] = "invalidating" /\ req[h].op = "forgot"
            BY <1>4 DEF LockLinks, Inductive, RequestsFollowCode
        <2>2. /\ targets' = [targets EXCEPT ![h] = targets[h]]
              /\ targets[h] \in SUBSET (Sessions \cup Links)
              /\ seen' \in [Handlers -> [failed : Nat, oldHash : BOOLEAN]]
            BY <1>4 DEF LockLinks, Inductive, TypeOK
        <2> QED BY <1>4, <2>1, <2>2, ReadKeepsInductive DEF LockLinks, tables
    <1>5. CASE SendLink(h)
        <2>1. pc[h] = "send" /\ req[h] \in Requests /\ req[h].op = "forgot"
            BY <1>5, BusyServes DEF SendLink, Inductive, RequestsFollowCode
        <2>2. req[h].user \in Users
            BY <2>1, RequestFields
        <2>3. PICK l \in Links : IsNext(l, Unsent) /\ links' = Renewed(req[h].user, targets[h], l)
            BY <1>5 DEF SendLink
        <2>4. links[l].status = "absent"
            BY <2>3 DEF IsNext, Unsent
        <2>5. /\ UNCHANGED <<users, sessions, userLock>>
              /\ UNCHANGED <<wrong, chosen, condemned, ended, reused>>
            BY <1>5 DEF SendLink, history
        <2>6. /\ RowsOK' /\ RowsEndure
              /\ links' \in [Links -> [status : {"absent", "valid", "expired", "used"},
                                       user : Users \cup {NoUser}]]
            BY <2>2, <2>3, <2>4, <2>5, RenewKeepsRows
        <2>7. TablesTyped' /\ HistoryTyped'
            BY <2>5, <2>6 DEF Inductive, TypeOK, TablesTyped, HistoryTyped
        <2>8. HandlersTyped' /\ HandlersOK'
            BY <1>5, <2>1, <2>5, <2>6, FinishKeepsHandlers DEF SendLink
        <2> QED BY <2>6, <2>7, <2>8, InductivePartsNext
    <1> QED BY <1>1, <1>2, <1>3, <1>4, <1>5 DEF Forgot

\* A reset writes the users row, which it now holds.
LEMMA WritePasswordKeepsInductive ==
    ASSUME Inductive, NEW h \in Handlers, WritePassword(h)
    PROVE  Inductive'
    <1> USE DEF Inductive, TypeOK
    <1>1. /\ pc[h] = "password" /\ req[h] \in Requests /\ req[h].op = "reset"
          /\ req[h].link \in Links /\ links[req[h].link].status # "absent"
        BY BusyServes, RequestFields DEF WritePassword, RequestsFollowCode
    <1> DEFINE u == links[req[h].link].user
    <1>2. /\ RowIsFree(u)
          /\ userLock' = [userLock EXCEPT ![u] = h]
          /\ Goto(h, "mark")
          /\ UNCHANGED <<users, sessions, links, seen, targets>>
          /\ UNCHANGED <<wrong, chosen, condemned, ended, reused>>
        BY DEF WritePassword, tables, history
    <1> HIDE DEF u
    <1>3. /\ pc'[h] = "mark" /\ req' = req
          /\ \A g \in Handlers : g # h => pc'[g] = pc[g]
        BY <1>2 DEF Goto
    <1>4. HandlersTyped'
        BY <1>2 DEF Goto, HandlersTyped
    <1>5. RequestsFollowCode'
        <2> SUFFICES ASSUME NEW g \in Handlers PROVE RequestsFollowCode!(g)'
            BY DEF RequestsFollowCode
        <2>1. RequestsFollowCode!(g)
            BY DEF RequestsFollowCode
        <2> QED BY <1>1, <1>2, <1>3, <2>1
    <1>6. TargetsWereIssued'
        BY <1>2, <1>3 DEF TargetsWereIssued
    <1>7. LockMeansReset'
        <2> SUFFICES ASSUME NEW v \in Users, NEW g \in Handlers
                     PROVE  userLock'[v] = g <=> (pc'[g] \in Writing /\ links[req[g].link].user = v)
            BY <1>2, <1>3 DEF LockMeansReset
        <2>1. userLock[v] = g <=> (pc[g] \in Writing /\ links[req[g].link].user = v)
            BY DEF LockMeansReset
        <2>2. CASE v = u
            <3>1. userLock'[v] = h /\ userLock[v] # g
                BY <1>2, <2>2, HandlersAssumption DEF RowIsFree
            <3> QED BY <1>3, <2>1, <2>2, <3>1 DEF u
        <2>3. CASE v # u
            <3>1. userLock'[v] = userLock[v]
                BY <1>2, <2>3
            <3> QED BY <1>1, <1>3, <2>1, <2>3, <3>1 DEF u
        <2> QED BY <2>2, <2>3
    <1>8. TablesTyped' /\ HistoryTyped'
        BY <1>2 DEF TablesTyped, HistoryTyped
    <1>9. RowsOK'
        BY <1>2, ReadsKeepRows
    <1> QED BY <1>4, <1>5, <1>6, <1>7, <1>8, <1>9, InductivePartsNext DEF HandlersOK

\* A reset that holds the users row goes on with it.
LEMMA WritingKeepsInductive ==
    ASSUME Inductive, NEW h \in Handlers, pc[h] \in Writing,
           NEW label \in {"sweep", "reset"}, Goto(h, label),
           UNCHANGED <<users, sessions, links, userLock, seen, history>>,
           NEW T \in SUBSET (Sessions \cup Links), targets' = [targets EXCEPT ![h] = T],
           \A s \in T : s \in Sessions /\ sessions[s].status # "absent"
    PROVE  Inductive'
    <1> USE DEF Inductive, TypeOK
    <1>1. /\ pc'[h] = label /\ req' = req /\ targets'[h] = T
          /\ \A g \in Handlers : g # h => pc'[g] = pc[g] /\ targets'[g] = targets[g]
        BY DEF Goto
    <1>2. HandlersTyped'
        BY DEF Goto, HandlersTyped
    <1>3. RequestsFollowCode'
        <2> SUFFICES ASSUME NEW g \in Handlers PROVE RequestsFollowCode!(g)'
            BY DEF RequestsFollowCode
        <2>1. RequestsFollowCode!(g) /\ RequestsFollowCode!(h)
            BY DEF RequestsFollowCode
        <2> QED BY <1>1, <2>1
    <1>4. TargetsWereIssued'
        BY <1>1 DEF TargetsWereIssued
    <1>5. LockMeansReset'
        BY <1>1 DEF LockMeansReset
    <1>6. TablesTyped' /\ HistoryTyped'
        BY DEF TablesTyped, HistoryTyped, history
    <1>7. RowsOK'
        BY ReadsKeepRows DEF history
    <1> QED BY <1>2, <1>3, <1>4, <1>5, <1>6, <1>7, InductivePartsNext DEF HandlersOK

\* A reset commits.
LEMMA CommitResetKeepsInductive ==
    ASSUME Inductive, NEW h \in Handlers, CommitReset(h)
    PROVE  Inductive'
    <1>1. /\ pc[h] = "reset" /\ req[h] \in Requests /\ req[h].op = "reset"
          /\ req[h].link \in Links /\ links[req[h].link].status # "absent"
          /\ req[h].password \in Passwords
        BY BusyServes, RequestFields DEF CommitReset, Inductive, RequestsFollowCode
    <1> DEFINE k == req[h].link
               u == links[k].user
    <1>2. /\ users' = [users EXCEPT ![u] = Rehashed(@, req[h].password)]
          /\ links' = [links EXCEPT ![k].status = "used"]
          /\ sessions' = Swept(targets[h], "password_reset")
          /\ userLock' = Unlocked(u)
          /\ chosen' = [chosen EXCEPT ![u] = req[h].password]
          /\ condemned' = condemned \cup targets[h]
          /\ ended' = ended \cup {sessions[s].login : s \in {t \in Issued : sessions[t].user = u}}
          /\ Finish(h)
          /\ UNCHANGED <<wrong, reused>>
        BY DEF CommitReset
    <1>3. /\ \A s \in Sessions : s \in targets[h] /\ sessions[s].status \in Unrevoked =>
                sessions'[s] = [sessions[s] EXCEPT !.status = "password_reset"]
          /\ \A s \in Sessions : ~(s \in targets[h] /\ sessions[s].status \in Unrevoked) =>
                sessions'[s] = sessions[s]
        BY <1>2 DEF Swept
    <1>4. \A s \in Sessions :
             /\ sessions'[s].from = sessions[s].from
             /\ s \in targets[h] /\ sessions[s].status \in Unrevoked =>
                   sessions'[s].status = "password_reset"
        <2> DEFINE Row == [status : Unrevoked \cup Reasons \cup {"absent"},
                           user : Users \cup {NoUser}, from : Ids, login : Ids]
        <2>1. \A s \in Sessions : sessions[s] \in Row
            BY DEF Inductive, TypeOK
        <2>2. \A row \in Row : /\ [row EXCEPT !.status = "password_reset"].from = row.from
                              /\ [row EXCEPT !.status = "password_reset"].status = "password_reset"
            OBVIOUS
        <2> HIDE DEF Row
        <2>3. ASSUME NEW s \in Sessions, s \in targets[h], sessions[s].status \in Unrevoked
              PROVE  /\ sessions'[s].from = sessions[s].from
                     /\ sessions'[s].status = "password_reset"
            <3>1. sessions'[s] = [sessions[s] EXCEPT !.status = "password_reset"]
                BY <1>3, <2>3
            <3> QED BY <2>1, <2>2, <3>1
        <2>4. ASSUME NEW s \in Sessions, ~(s \in targets[h] /\ sessions[s].status \in Unrevoked)
              PROVE  sessions'[s].from = sessions[s].from
            BY <1>3, <2>4
        <2> QED BY <2>3, <2>4
    <1>5. sessions' \in [Sessions -> [status : Unrevoked \cup Reasons \cup {"absent"},
                                     user : Users \cup {NoUser}, from : Ids, login : Ids]]
        <2> DEFINE Row == [status : Unrevoked \cup Reasons \cup {"absent"},
                           user : Users \cup {NoUser}, from : Ids, login : Ids]
        <2>1. sessions \in [Sessions -> Row]
            BY DEF Inductive, TypeOK
        <2>2. "password_reset" \in Unrevoked \cup Reasons \cup {"absent"}
            BY DEF Reasons
        <2>3. \A s \in Sessions : sessions'[s] \in Row
            BY <1>3, <2>1, <2>2
        <2>4. sessions' \in [Sessions -> Row]
            BY <1>2, <2>3 DEF Swept
        <2> QED BY <2>4
    <1>6. /\ links' \in [Links -> [status : {"absent", "valid", "expired", "used"},
                                   user : Users \cup {NoUser}]]
          /\ links'[k].status = "used" /\ links'[k].user = links[k].user
          /\ \A l \in Links : l # k => links'[l] = links[l]
        <2> DEFINE Row == [status : {"absent", "valid", "expired", "used"},
                           user : Users \cup {NoUser}]
        <2>1. links \in [Links -> Row]
            BY DEF Inductive, TypeOK
        <2>2. /\ [links[k] EXCEPT !.status = "used"] \in Row
              /\ [links[k] EXCEPT !.status = "used"].status = "used"
              /\ [links[k] EXCEPT !.status = "used"].user = links[k].user
            BY <1>1, <2>1
        <2>3. links' = [links EXCEPT ![k] = [links[k] EXCEPT !.status = "used"]]
            BY <1>2
        <2>4. links' \in [Links -> Row]
            BY <1>1, <2>1, <2>2, <2>3
        <2> HIDE DEF k
        <2> QED BY <1>1, <2>1, <2>2, <2>3, <2>4 DEF k
    <1>7. \A s \in targets[h] : s \in Sessions /\ sessions[s].status # "absent"
        BY <1>1 DEF Inductive, TargetsWereIssued
    <1>8. RowsEndure
        BY <1>3, <1>4, <1>6 DEF RowsEndure
    <1>9. RowsOK'
        <2>1. UnusedIdsAreBlank'
            BY <1>3, <1>4, <1>6 DEF Inductive, UnusedIdsAreBlank
        <2>2. CondemnedAreRevoked'
            <3>1. ASSUME NEW s \in condemned PROVE s \in Sessions /\ sessions'[s].status \in Reasons
                BY <1>3, <1>4 DEF Inductive, TypeOK, CondemnedAreRevoked, Reasons
            <3>2. ASSUME NEW s \in targets[h] PROVE sessions'[s].status \in Reasons
                <4>1. CASE sessions[s].status \in Unrevoked
                    BY <1>4, <1>7, <4>1 DEF Reasons
                <4>2. CASE sessions[s].status \notin Unrevoked
                    BY <1>3, <1>7, <4>2 DEF Inductive, TypeOK
                <4> QED BY <4>1, <4>2
            <3> QED BY <1>2, <3>1, <3>2 DEF CondemnedAreRevoked
        <2>3. RotationIsAtomic'
            <3>1. \A s \in Sessions : sessions[s].status \in Reasons => sessions'[s].status \in Reasons
                BY <1>3, <1>4 DEF Reasons
            <3>2. \A s \in Sessions :
                     sessions'[s].status = "rotated" => sessions[s].status = "rotated"
                BY <1>3, <1>4
            <3> QED BY <1>4, <3>1, <3>2 DEF Inductive, RotationIsAtomic
        <2> QED BY <2>1, <2>2, <2>3 DEF RowsOK
    <1>10. TablesTyped'
        <2>1. users' \in [Users -> UserType]
            BY <1>1, <1>2, WrittenRowsTyped DEF Inductive, TypeOK
        <2> QED BY <1>2, <1>5, <1>6, <2>1 DEF TablesTyped, Inductive, TypeOK
    <1>11. HistoryTyped'
        <2>1. chosen' \in [Users -> Passwords]
            BY <1>1, <1>2 DEF Inductive, TypeOK
        <2>2. condemned' \subseteq Sessions
            BY <1>2, <1>7 DEF Inductive, TypeOK
        <2>3. ended' \subseteq Ids
            <3>1. \A s \in Sessions : sessions[s].login \in Ids
                BY DEF Inductive, TypeOK
            <3>2. ended \subseteq Ids
                BY DEF Inductive, TypeOK
            <3> QED BY <1>2, <3>1, <3>2 DEF Issued
        <2> QED BY <1>2, <2>1, <2>2, <2>3 DEF Inductive, TypeOK, HistoryTyped
    <1>12. /\ pc'[h] = "idle" /\ req'[h] = Nothing
           /\ \A g \in Handlers : g # h =>
                 pc'[g] = pc[g] /\ req'[g] = req[g] /\ targets'[g] = targets[g]
        BY <1>2 DEF Finish, Inductive, TypeOK
    <1>13. HandlersTyped'
        BY <1>2 DEF Finish, Unlocked, HandlersTyped, NoRow, Inductive, TypeOK
    <1>14. RequestsFollowCode'
        <2> SUFFICES ASSUME NEW g \in Handlers PROVE RequestsFollowCode!(g)'
            BY DEF RequestsFollowCode
        <2>1. CASE g = h
            BY <1>12, <2>1 DEF Nothing
        <2>2. CASE g # h
            <3>1. RequestsFollowCode!(g)
                BY DEF Inductive, RequestsFollowCode
            <3>2. req[g] \in Requests \cup {Nothing}
                BY DEF Inductive, TypeOK
            <3>3. req[g].op \in {"refresh", "logout", "revoke"} => req[g].session \in Sessions
                BY <3>2, RequestFields DEF Nothing
            <3>4. req[g].op = "reset" => req[g].link \in Links
                BY <3>2, RequestFields DEF Nothing
            <3> QED BY <1>8, <1>12, <2>2, <3>1, <3>3, <3>4 DEF RowsEndure
        <2> QED BY <2>1, <2>2
    <1>15. TargetsWereIssued'
        BY <1>8, <1>12 DEF Inductive, TargetsWereIssued, RowsEndure
    <1>16. LockMeansReset'
        <2> SUFFICES ASSUME NEW v \in Users, NEW g \in Handlers
                     PROVE  userLock'[v] = g <=> (pc'[g] \in Writing /\ links'[req'[g].link].user = v)
            BY DEF LockMeansReset
        <2>1. userLock[v] = g <=> (pc[g] \in Writing /\ links[req[g].link].user = v)
            BY DEF Inductive, LockMeansReset
        <2>2. userLock[v] = h <=> v = u
            BY <1>1 DEF Inductive, LockMeansReset
        <2>3. userLock'[v] = IF v = u THEN NoHandler ELSE userLock[v]
            BY <1>2 DEF Unlocked, Inductive, TypeOK
        <2> HIDE DEF u
        <2>4. CASE g = h
            BY <1>12, <2>2, <2>3, <2>4, HandlersAssumption
        <2>5. CASE g # h
            <3>1. pc[g] \in Writing => links'[req[g].link].user = links[req[g].link].user
                BY <1>8, RequestFields, BusyServes DEF Inductive, RequestsFollowCode, RowsEndure
            <3> QED BY <1>12, <2>1, <2>2, <2>3, <2>5, <3>1, HandlersAssumption
        <2> QED BY <2>4, <2>5
    <1> QED BY <1>9, <1>10, <1>11, <1>13, <1>14, <1>15, <1>16, InductivePartsNext DEF HandlersOK

LEMMA ResetKeepsInductive ==
    ASSUME Inductive, NEW h \in Handlers, Reset(h)
    PROVE  Inductive'
    <1>1. CASE RefuseLink(h)
        BY <1>1, AnswerKeepsInductive DEF RefuseLink, At, tables
    <1>2. CASE FindLink(h)
        <2>1. /\ targets' = [targets EXCEPT ![h] = targets[h]]
              /\ targets[h] \in SUBSET (Sessions \cup Links)
              /\ seen' \in [Handlers -> [failed : Nat, oldHash : BOOLEAN]]
            BY <1>2 DEF FindLink, Inductive, TypeOK
        <2> QED BY <1>2, <2>1, ReadKeepsInductive DEF FindLink, At, tables
    <1>3. CASE StartSweep(h)
        <2> DEFINE T == UnrevokedOf(links[req[h].link].user)
        <2>1. /\ pc[h] \in Writing /\ Goto(h, "sweep")
              /\ targets' = [targets EXCEPT ![h] = T]
              /\ UNCHANGED <<users, sessions, links, userLock, seen, history>>
            BY <1>3 DEF StartSweep, tables
        <2>2. /\ T \in SUBSET (Sessions \cup Links)
              /\ \A s \in T : s \in Sessions /\ sessions[s].status # "absent"
            BY DEF UnrevokedOf, Unrevoked
        <2> HIDE DEF T
        <2> QED BY <2>1, <2>2, WritingKeepsInductive
    <1>4. CASE LockSessions(h)
        <2>1. /\ pc[h] \in Writing /\ Goto(h, "reset")
              /\ targets' = [targets EXCEPT ![h] = targets[h]]
              /\ UNCHANGED <<users, sessions, links, userLock, seen, history>>
            BY <1>4 DEF LockSessions, tables, Inductive, TypeOK
        <2>2. /\ targets[h] \in SUBSET (Sessions \cup Links)
              /\ \A s \in targets[h] : s \in Sessions /\ sessions[s].status # "absent"
            BY <1>4 DEF LockSessions, Inductive, TypeOK, TargetsWereIssued
        <2> QED BY <2>1, <2>2, WritingKeepsInductive
    <1> QED BY <1>1, <1>2, <1>3, <1>4, WritePasswordKeepsInductive, CommitResetKeepsInductive
            DEF Reset

\* change_password and deactivate_account: a write to the users row.
LEMMA UserWriteKeepsInductive ==
    ASSUME Inductive, NEW h \in Handlers, pc[h] \notin Writing, Finish(h),
           users' \in [Users -> UserType], chosen' \in [Users -> Passwords],
           UNCHANGED <<sessions, links, userLock, wrong, condemned, ended, reused>>
    PROVE  Inductive'
    <1>1. RowsOK' /\ RowsEndure
        BY ReadsKeepRows
    <1>2. TablesTyped' /\ HistoryTyped'
        BY DEF Inductive, TypeOK, TablesTyped, HistoryTyped
    <1>3. HandlersTyped' /\ HandlersOK'
        BY <1>1, FinishKeepsHandlers
    <1> QED BY <1>1, <1>2, <1>3, InductivePartsNext

LEMMA ChangeKeepsInductive ==
    ASSUME Inductive, NEW h \in Handlers, Change(h)
    PROVE  Inductive'
    <1>1. CASE RefuseChange(h)
        BY <1>1, AnswerKeepsInductive DEF RefuseChange, At, tables
    <1>2. CASE CheckCurrent(h)
        <2>1. /\ targets' = [targets EXCEPT ![h] = targets[h]]
              /\ targets[h] \in SUBSET (Sessions \cup Links)
              /\ seen' \in [Handlers -> [failed : Nat, oldHash : BOOLEAN]]
            BY <1>2 DEF CheckCurrent, Inductive, TypeOK
        <2> QED BY <1>2, <2>1, ReadKeepsInductive DEF CheckCurrent, At, tables
    <1>3. CASE CommitChange(h)
        <2>1. pc[h] = "change" /\ req[h] \in Requests /\ req[h].op = "change"
            BY <1>3, BusyServes DEF CommitChange, Inductive, RequestsFollowCode
        <2>2. req[h].user \in Users /\ req[h].password \in Passwords
            BY <2>1, RequestFields
        <2>3. users' \in [Users -> UserType]
            BY <1>3, <2>2, WrittenRowsTyped DEF CommitChange, Inductive, TypeOK
        <2>4. chosen' \in [Users -> Passwords]
            BY <1>3, <2>2 DEF CommitChange, Inductive, TypeOK
        <2> QED BY <1>3, <2>1, <2>3, <2>4, UserWriteKeepsInductive DEF CommitChange
    <1> QED BY <1>1, <1>2, <1>3 DEF Change

LEMMA DeactivateKeepsInductive ==
    ASSUME Inductive, NEW h \in Handlers, Deactivate(h)
    PROVE  Inductive'
    <1>1. CASE RefuseDeactivation(h)
        BY <1>1, AnswerKeepsInductive DEF RefuseDeactivation, At, tables
    <1>2. CASE CheckActive(h)
        <2>1. /\ targets' = [targets EXCEPT ![h] = targets[h]]
              /\ targets[h] \in SUBSET (Sessions \cup Links)
              /\ seen' \in [Handlers -> [failed : Nat, oldHash : BOOLEAN]]
            BY <1>2 DEF CheckActive, Inductive, TypeOK
        <2> QED BY <1>2, <2>1, ReadKeepsInductive DEF CheckActive, At, tables
    <1>3. CASE CommitDeactivation(h)
        <2>1. pc[h] = "deactivate" /\ req[h] \in Requests /\ req[h].op = "deactivate"
            BY <1>3, BusyServes DEF CommitDeactivation, Inductive, RequestsFollowCode
        <2>2. req[h].user \in Users
            BY <2>1, RequestFields
        <2>3. \A row \in UserType : [row EXCEPT !.active = FALSE] \in UserType
            BY DEF UserType
        <2>4. users' \in [Users -> UserType]
            BY <1>3, <2>2, <2>3 DEF CommitDeactivation, Inductive, TypeOK
        <2>5. /\ chosen' \in [Users -> Passwords]
              /\ UNCHANGED <<sessions, links, userLock, wrong, condemned, ended, reused>>
            BY <1>3 DEF CommitDeactivation, history, Inductive, TypeOK
        <2> QED BY <1>3, <2>1, <2>4, <2>5, UserWriteKeepsInductive DEF CommitDeactivation
    <1> QED BY <1>1, <1>2, <1>3 DEF Deactivate

-----------------------------------------------------------------------------
(* The clock *)

\* The handlers do nothing while rows endure.
LEMMA RestKeepsHandlers ==
    ASSUME Inductive, RowsEndure, UNCHANGED <<userLock, requests>>
    PROVE  HandlersTyped' /\ HandlersOK'
    <1> USE DEF requests
    <1>1. HandlersTyped'
        BY DEF Inductive, TypeOK, HandlersTyped
    <1>2. ASSUME NEW g \in Handlers
          PROVE  /\ req[g].op \in {"refresh", "logout", "revoke"} => req[g].session \in Sessions
                 /\ req[g].op = "reset" => req[g].link \in Links
        <2>1. req[g] \in Requests \cup {Nothing}
            BY DEF Inductive, TypeOK
        <2> QED BY <2>1, RequestFields DEF Nothing
    <1>3. RequestsFollowCode'
        BY <1>2 DEF Inductive, RequestsFollowCode, RowsEndure
    <1>4. TargetsWereIssued'
        BY DEF Inductive, TargetsWereIssued, RowsEndure
    <1>5. LockMeansReset'
        <2>1. ASSUME NEW g \in Handlers, pc[g] \in Writing
              PROVE  links'[req[g].link].user = links[req[g].link].user
            BY <1>2, <2>1 DEF Inductive, RequestsFollowCode, RowsEndure
        <2> QED BY <2>1 DEF Inductive, LockMeansReset
    <1> QED BY <1>1, <1>3, <1>4, <1>5 DEF HandlersOK

\* Time passes for a session or a link.
LEMMA WorldKeepsInductive ==
    ASSUME Inductive,
           \/ \E s \in Sessions : ExpireSession(s)
           \/ \E l \in Links : ExpireLink(l)
           \/ UNCHANGED vars
    PROVE  Inductive'
    <1>1. /\ UNCHANGED <<users, userLock, requests>>
          /\ UNCHANGED <<wrong, chosen, condemned, ended, reused>>
        BY DEF ExpireSession, ExpireLink, vars, history
    <1>2. RowsOK' /\ RowsEndure /\ TablesTyped'
        <2>1. CASE UNCHANGED <<sessions, links>>
            BY <1>1, <2>1, ReadsKeepRows DEF Inductive, TypeOK, TablesTyped
        <2>2. ASSUME NEW s \in Sessions, ExpireSession(s)
              PROVE  RowsOK' /\ RowsEndure /\ TablesTyped'
            <3> DEFINE Row == [status : Unrevoked \cup Reasons \cup {"absent"},
                               user : Users \cup {NoUser}, from : Ids, login : Ids]
            <3>1. sessions \in [Sessions -> Row] /\ sessions[s].status = "live"
                BY <2>2 DEF ExpireSession, Inductive, TypeOK
            <3>2. /\ [sessions[s] EXCEPT !.status = "expired"] \in Row
                  /\ [sessions[s] EXCEPT !.status = "expired"].status = "expired"
                  /\ [sessions[s] EXCEPT !.status = "expired"].from = sessions[s].from
                BY <3>1 DEF Unrevoked
            <3>3. sessions' = [sessions EXCEPT ![s] = [sessions[s] EXCEPT !.status = "expired"]]
                BY <2>2 DEF ExpireSession
            <3>4. sessions' \in [Sessions -> Row]
                BY <3>1, <3>2, <3>3
            <3>5. /\ sessions'[s].status = "expired" /\ sessions'[s].from = sessions[s].from
                  /\ \A t \in Sessions : t # s => sessions'[t] = sessions[t]
                BY <3>1, <3>2, <3>3
            <3>6. \A t \in Sessions :
                     /\ sessions[t].status = "absent" => sessions'[t] = sessions[t]
                     /\ sessions[t].status # "absent" => sessions'[t].status # "absent"
                     /\ sessions'[t].from = sessions[t].from
                     /\ sessions[t].status \in Reasons => sessions'[t].status \in Reasons
                     /\ sessions'[t].status = "rotated" => sessions[t].status = "rotated"
                BY <3>1, <3>5 DEF Reasons
            <3>7. UNCHANGED links
                BY <2>2 DEF ExpireSession
            <3>8. RowsOK' /\ RowsEndure
                BY <1>1, <3>4, <3>6, <3>7, StatusChangeKeepsRows
            <3> QED BY <1>1, <3>4, <3>7, <3>8 DEF Inductive, TypeOK, TablesTyped
        <2>3. ASSUME NEW l \in Links, ExpireLink(l)
              PROVE  RowsOK' /\ RowsEndure /\ TablesTyped'
            <3> DEFINE Row == [status : {"absent", "valid", "expired", "used"},
                               user : Users \cup {NoUser}]
            <3>1. links \in [Links -> Row] /\ links[l].status = "valid"
                BY <2>3 DEF ExpireLink, Inductive, TypeOK
            <3>2. /\ [links[l] EXCEPT !.status = "expired"] \in Row
                  /\ [links[l] EXCEPT !.status = "expired"].status = "expired"
                  /\ [links[l] EXCEPT !.status = "expired"].user = links[l].user
                BY <3>1
            <3>3. links' = [links EXCEPT ![l] = [links[l] EXCEPT !.status = "expired"]]
                BY <2>3 DEF ExpireLink
            <3>4. links' \in [Links -> Row]
                BY <3>1, <3>2, <3>3
            <3>5. /\ links'[l].status = "expired" /\ links'[l].user = links[l].user
                  /\ \A k \in Links : k # l => links'[k] = links[k]
                BY <3>1, <3>2, <3>3
            <3>6. UNCHANGED sessions
                BY <2>3 DEF ExpireLink
            <3>7. RowsEndure
                BY <3>5, <3>6 DEF RowsEndure
            <3>8. RowsOK'
                BY <1>1, <3>5, <3>6 DEF RowsOK, UnusedIdsAreBlank, CondemnedAreRevoked,
                    RotationIsAtomic, Inductive
            <3> QED BY <1>1, <3>4, <3>6, <3>7, <3>8 DEF Inductive, TypeOK, TablesTyped
        <2> QED BY <2>1, <2>2, <2>3 DEF vars
    <1>3. HistoryTyped'
        BY <1>1 DEF Inductive, TypeOK, HistoryTyped
    <1>4. HandlersTyped' /\ HandlersOK'
        BY <1>1, <1>2, RestKeepsHandlers
    <1> QED BY <1>2, <1>3, <1>4, InductivePartsNext

LEMMA NextKeepsInductive == Inductive /\ [Next]_vars => Inductive'
    <1> SUFFICES ASSUME Inductive, [Next]_vars PROVE Inductive'
        OBVIOUS
    <1>1. CASE \E h \in Handlers : Step(h)
        BY <1>1, LoginKeepsInductive, RefreshKeepsInductive, RevokeKeepsInductive,
            ForgotKeepsInductive, ResetKeepsInductive, ChangeKeepsInductive,
            DeactivateKeepsInductive DEF Step
    <1>2. CASE \E h \in Handlers, r \in Requests : Receive(h, r)
        BY <1>2, ReceiveKeepsInductive
    <1>3. CASE \/ \E s \in Sessions : ExpireSession(s)
               \/ \E l \in Links : ExpireLink(l)
               \/ UNCHANGED vars
        BY <1>3, WorldKeepsInductive
    <1> QED BY <1>1, <1>2, <1>3 DEF Next, Quiet

-----------------------------------------------------------------------------
(* Spent tokens *)

StaysSpent ==
    /\ \A s \in Sessions : sessions[s].status \in Reasons => sessions'[s].status \in Reasons
    /\ \A l \in Links : links[l].status = "used" => links'[l].status = "used"

\* Each statement that writes a sessions or a links row.
LEMMA WritesStaySpent ==
    ASSUME Inductive, NEW h \in Handlers,
           IssueSession(h) \/ Rotate(h) \/ RevokeSession(h) \/ SendLink(h) \/ CommitReset(h)
    PROVE  StaysSpent
    <1> DEFINE SRow == [status : Unrevoked \cup Reasons \cup {"absent"},
                        user : Users \cup {NoUser}, from : Ids, login : Ids]
               LRow == [status : {"absent", "valid", "expired", "used"},
                        user : Users \cup {NoUser}]
    <1>1. sessions \in [Sessions -> SRow] /\ links \in [Links -> LRow]
        BY DEF Inductive, TypeOK
    <1>2. /\ \A s \in Sessions : \A reason : [sessions[s] EXCEPT !.status = reason].status = reason
          /\ \A l \in Links : [links[l] EXCEPT !.status = "used"].status = "used"
        BY <1>1
    <1> HIDE DEF SRow, LRow
    <1>3. CASE IssueSession(h)
        <2>1. PICK s \in Sessions : /\ sessions[s].status = "absent"
                                    /\ \A t \in Sessions : t # s => sessions'[t] = sessions[t]
            BY <1>1, <1>3 DEF IssueSession, IsNext, Issued
        <2> QED BY <1>3, <2>1 DEF IssueSession, StaysSpent, Reasons
    <1>4. CASE Rotate(h)
        <2> DEFINE old == req[h].session
        <2>1. PICK s \in Sessions : /\ sessions[s].status = "absent"
                                    /\ sessions' = Rotated(old, s)
            BY <1>4 DEF Rotate, IsNext, Issued
        <2>2. old \in Sessions /\ sessions[old].status # "absent"
            BY <1>4, BusyServes, RequestFields DEF Rotate, Inductive, RequestsFollowCode
        <2> HIDE DEF old
        <2>3. /\ sessions'[old] = [sessions[old] EXCEPT !.status = "rotated"]
              /\ \A t \in Sessions : t # s /\ t # old => sessions'[t] = sessions[t]
            BY <1>1, <2>1, <2>2 DEF Rotated
        <2>4. sessions'[old].status = "rotated"
            BY <1>1, <1>2, <2>2, <2>3
        <2> QED BY <1>4, <2>1, <2>3, <2>4 DEF Rotate, StaysSpent, Reasons
    <1>5. CASE RevokeSession(h)
        <2> DEFINE old == req[h].session
        <2>1. PICK reason \in Reasons :
                 sessions' = [sessions EXCEPT ![old] = [sessions[old] EXCEPT !.status = reason]]
            BY <1>5 DEF RevokeSession, Revoked, Reasons
        <2>2. \A t \in Sessions : t # old => sessions'[t] = sessions[t]
            BY <1>1, <2>1
        <2>3. old \in Sessions => sessions'[old].status = reason
            BY <1>1, <1>2, <2>1
        <2> QED BY <1>5, <2>2, <2>3 DEF RevokeSession, StaysSpent
    <1>6. CASE SendLink(h)
        <2>1. PICK l \in Links : /\ links[l].status = "absent"
                                 /\ links' = Renewed(req[h].user, targets[h], l)
            BY <1>6 DEF SendLink, IsNext, Unsent
        <2>2. \A k \in Links : k # l =>
                 links'[k] = links[k] \/ links'[k] = [links[k] EXCEPT !.status = "used"]
            BY <2>1 DEF Renewed
        <2>3. \A k \in Links : k # l =>
                 links'[k] = links[k] \/ links'[k].status = "used"
            BY <1>2, <2>2
        <2>4. UNCHANGED sessions
            BY <1>6 DEF SendLink
        <2> QED BY <2>1, <2>3, <2>4 DEF StaysSpent
    <1>7. CASE CommitReset(h)
        <2>1. \A s \in Sessions : \/ sessions'[s] = sessions[s]
                                   \/ sessions'[s] = [sessions[s] EXCEPT !.status = "password_reset"]
            BY <1>7 DEF CommitReset, Swept
        <2>2. \A s \in Sessions : sessions[s].status \in Reasons => sessions'[s].status \in Reasons
            <3>1. ASSUME NEW s \in Sessions
                  PROVE  sessions'[s] = sessions[s] \/ sessions'[s].status = "password_reset"
                <4>1. [sessions[s] EXCEPT !.status = "password_reset"].status = "password_reset"
                    BY <1>2
                <4> QED BY <2>1, <4>1, Zenon
            <3> QED BY <3>1 DEF Reasons
        <2>3. \A l \in Links : \/ links'[l] = links[l]
                                \/ links'[l] = [links[l] EXCEPT !.status = "used"]
            <3>1. links' = [links EXCEPT ![req[h].link] =
                               [links[req[h].link] EXCEPT !.status = "used"]]
                BY <1>7 DEF CommitReset
            <3> QED BY <1>1, <3>1
        <2>4. \A l \in Links : links'[l] = links[l] \/ links'[l].status = "used"
            BY <1>2, <2>3
        <2> QED BY <2>2, <2>4 DEF StaysSpent
    <1> QED BY <1>3, <1>4, <1>5, <1>6, <1>7

LEMMA NextStaysSpent == Inductive /\ [Next]_vars => StaysSpent
    <1> SUFFICES ASSUME Inductive, [Next]_vars PROVE StaysSpent
        OBVIOUS
    <1>1. CASE UNCHANGED <<sessions, links>>
        BY <1>1 DEF StaysSpent
    <1>2. ASSUME NEW h \in Handlers, Step(h) PROVE StaysSpent
        <2>1. \/ UNCHANGED <<sessions, links>>
              \/ IssueSession(h) \/ Rotate(h) \/ RevokeSession(h) \/ SendLink(h) \/ CommitReset(h)
            <3>1. Login(h) => UNCHANGED <<sessions, links>> \/ IssueSession(h)
                BY DEF Login, DenyLogin, CheckPassword, CountFailure, tables
            <3>2. Refresh(h) => UNCHANGED <<sessions, links>> \/ Rotate(h)
                BY DEF Refresh, RefuseToken, DetectReuse, AfterRaise, FindSession, CheckUser, tables
            <3>3. Revoke(h) => UNCHANGED <<sessions, links>> \/ RevokeSession(h)
                BY DEF Revoke, FindOwnSession, RefuseRevocation, tables
            <3>4. Forgot(h) => UNCHANGED <<sessions, links>> \/ SendLink(h)
                BY DEF Forgot, IgnoreForgot, FindForgetful, InvalidateLinks, LockLinks, tables
            <3>5. Reset(h) => UNCHANGED <<sessions, links>> \/ CommitReset(h)
                BY DEF Reset, RefuseLink, FindLink, WritePassword, StartSweep, LockSessions,
                       tables
            <3>6. Change(h) => UNCHANGED <<sessions, links>>
                BY DEF Change, RefuseChange, CheckCurrent, CommitChange, tables
            <3>7. Deactivate(h) => UNCHANGED <<sessions, links>>
                BY DEF Deactivate, RefuseDeactivation, CheckActive, CommitDeactivation, tables
            <3> QED BY <1>2, <3>1, <3>2, <3>3, <3>4, <3>5, <3>6, <3>7 DEF Step
        <2> QED BY <2>1, WritesStaySpent DEF StaysSpent
    <1>3. ASSUME NEW s \in Sessions, ExpireSession(s) PROVE StaysSpent
        <2>1. /\ sessions[s].status = "live"
              /\ \A t \in Sessions : t # s => sessions'[t] = sessions[t]
              /\ UNCHANGED links
            BY <1>3 DEF ExpireSession, Inductive, TypeOK
        <2> QED BY <2>1 DEF StaysSpent, Reasons
    <1>4. ASSUME NEW l \in Links, ExpireLink(l) PROVE StaysSpent
        <2>1. /\ links[l].status = "valid"
              /\ \A k \in Links : k # l => links'[k] = links[k]
              /\ UNCHANGED sessions
            BY <1>4 DEF ExpireLink, Inductive, TypeOK
        <2> QED BY <2>1 DEF StaysSpent
    <1> QED BY <1>1, <1>2, <1>3, <1>4 DEF Next, Receive, Quiet, tables, vars

-----------------------------------------------------------------------------
(* Theorems *)

\* The inductive invariant holds of every behaviour of the services.
THEOREM InductiveInvariant == Spec => []Inductive
    BY InitInductive, NextKeepsInductive, PTL DEF Spec

\* Every row and every request in flight has its type.
THEOREM TypeCorrectness == Spec => []TypeOK
    <1>1. Inductive => TypeOK
        BY DEF Inductive
    <1> QED BY <1>1, InductiveInvariant, PTL

\* The users row is held exactly by the reset that has yet to commit, so at most
\* one reset of an account runs between its UPDATE and its COMMIT.
THEOREM LocksMeanResets == Spec => []LockMeansReset
    <1>1. Inductive => LockMeansReset
        BY DEF Inductive
    <1> QED BY <1>1, InductiveInvariant, PTL

\* Who is waited for is a reset past its first UPDATE or a request for a link past
\* its only one, and a row of each table is waited for at another point of them.
LEMMA HoldersAreLate ==
    ASSUME Inductive, NEW g \in Handlers, NEW h \in Handlers, WaitsFor(g, h)
    PROVE  /\ pc[g] \notin {"reset", "send"}
           /\ pc[h] \in {"mark", "sweep", "reset", "send"}
           /\ pc[g] = "mark" => pc[h] # "mark"
           /\ pc[g] = "sweep" => pc[h] = "reset"
    <1>1. CASE \E u \in WantedUsers(g) : userLock[u] = h
        <2>1. PICK u \in Users : u \in WantedUsers(g) /\ userLock[u] = h
            BY <1>1 DEF WantedUsers
        <2>2. pc[h] \in {"mark", "sweep", "reset"}
            BY <2>1 DEF Inductive, LockMeansReset
        <2>3. pc[g] \in {"miss", "issue", "change", "deactivate", "password"}
            BY <2>1 DEF WantedUsers
        <2> QED BY <2>2, <2>3
    <1>2. CASE WantedLinks(g) \cap HeldLinks(h) # {}
        <2>1. pc[g] \in {"mark", "invalidating"}
            BY <1>2 DEF WantedLinks
        <2>2. pc[h] \in {"sweep", "reset", "send"}
            BY <1>2 DEF HeldLinks
        <2> QED BY <2>1, <2>2
    <1>3. CASE WantedSessions(g) \cap HeldSessions(h) # {}
        <2>1. pc[g] \in {"begin", "rotate", "revoke", "sweep"}
            BY <1>3 DEF WantedSessions, At
        <2>2. pc[h] = "reset"
            BY <1>3 DEF HeldSessions
        <2> QED BY <2>1, <2>2
    <1> QED BY <1>1, <1>2, <1>3 DEF WaitsFor

\* Requests never wait in a circle for rows of users, links and sessions: resets
\* take the three tables in one order, and nobody else holds a row and wants one.
THEOREM DeadlockFreedom == Spec => []NoDeadlock
    <1>1. ASSUME Inductive PROVE NoDeadlock
        <2> SUFFICES ASSUME NEW waiting \in SUBSET Handlers, waiting # {},
                            \A g \in waiting : \E h \in waiting : WaitsFor(g, h)
                     PROVE  FALSE
            BY DEF NoDeadlock
        <2>1. \A g \in waiting : pc[g] \notin {"reset", "send"}
            BY <1>1, HoldersAreLate
        <2>2. \A g \in waiting : pc[g] # "sweep"
            BY <1>1, <2>1, HoldersAreLate
        <2>3. \A g \in waiting : pc[g] # "mark"
            BY <1>1, <2>1, <2>2, HoldersAreLate
        <2> QED BY <1>1, <2>1, <2>2, <2>3, HoldersAreLate
    <1> QED BY <1>1, InductiveInvariant, PTL

\* rotate revokes the old session and inserts the new one together, and no other
\* request can tear the pair apart.
THEOREM RotationsAreAtomic == Spec => []RotationIsAtomic
    <1>1. Inductive => RotationIsAtomic
        BY DEF Inductive
    <1> QED BY <1>1, InductiveInvariant, PTL

\* A session swept by a committed reset is never live again.
THEOREM SweptSessionsStayDead == Spec => []SweptStayDead
    <1>1. Inductive => SweptStayDead
        BY DEF Inductive, CondemnedAreRevoked, SweptStayDead, Reasons, Unrevoked
    <1> QED BY <1>1, InductiveInvariant, PTL

\* A revoked session and a used link never work again, whatever order requests
\* that read them before write them in.
THEOREM SpentTokensStaySpent == Spec => SpentForGood
    <1>1. Inductive /\ [Next]_vars => [StaysSpent]_vars
        BY NextStaysSpent
    <1>2. Spec => [][StaysSpent]_vars
        BY <1>1, InductiveInvariant, PTL DEF Spec
    <1> QED BY <1>2, PTL DEF SpentForGood, StaysSpent

=============================================================================
