-------------------------- MODULE RegistrationProofs --------------------------
(***************************************************************************)
(* Proofs about Registration, for any number of handlers, users and keys,  *)
(* any set of requests, and whether or not rows load and ids are passed.   *)
(*                                                                         *)
(* All steps but Commit leave the users table alone: what such a step      *)
(* leaves to prove about the handlers concerns the one that takes it       *)
(* (OthersUndisturbed).  Commit turns a draft into a row, whose keys were  *)
(* entered before and so belong to nobody else.                            *)
(***************************************************************************)
EXTENDS Registration, TLAPS

HandlersTyped ==
    /\ draft \in [Handlers -> [user : Users \cup {NoUser}, row : RowType]]
    /\ pc \in [Handlers -> Labels]
    /\ req \in [Handlers -> Requests \cup {Nothing}]
    /\ found \in [Handlers -> Users \cup {NoUser}]

\* What the fields of a request are.
LEMMA RequestFields ==
    ASSUME NEW r \in Requests
    PROVE  /\ r # Nothing
           /\ r.op \in {"register", "update", "verify", "resend", "deactivate"}
           /\ r.op = "register" => r.name \in Names /\ r.email \in Emails
           /\ r.op = "update" => r.name \in Names \cup {NotGiven}
           /\ r.op = "update" => r.email \in Emails \cup {NotGiven}
           /\ r.op \in {"update", "verify", "deactivate"} => UserOf(r) \in Users
    BY RequestsAssumption DEF RequestType, Nothing, UserOf, Tokens

\* A busy handler serves a request.
LEMMA BusyServes ==
    ASSUME Inductive, NEW h \in Handlers, pc[h] # "idle"
    PROVE  req[h] \in Requests
    BY DEF Inductive, TypeOK, HandlersAreTrue, RequestFollowsCode

\* Every statement makes a whole row of a whole row.
LEMMA WrittenTyped ==
    ASSUME NEW r \in Requests, NEW row \in RowType,
           r.op \in {"register", "update", "verify", "deactivate"}
    PROVE  Written(row, r) \in RowType
    <1>1. CASE r.op = "register"
        BY <1>1, RequestFields DEF Written, RowType
    <1>2. CASE r.op = "update"
        <2>1. /\ Given(r.name, row.name) \in Names \cup {NoKey}
              /\ Given(r.email, row.email) \in Emails \cup {NoKey}
            BY <1>2, RequestFields DEF Given, RowType
        <2>2. Written(row, r) = [row EXCEPT !.name = Given(r.name, @), !.email = Given(r.email, @)]
            BY <1>2 DEF Written
        <2> QED BY <2>1, <2>2 DEF RowType
    <1>3. CASE r.op = "verify"
        BY <1>3 DEF Written, RowType
    <1>4. CASE r.op = "deactivate"
        BY <1>4 DEF Written, RowType
    <1> QED BY <1>1, <1>2, <1>3, <1>4

\* Nobody has asked for anything.
LEMMA InitInductive == Init => Inductive
    <1> SUFFICES ASSUME Init PROVE Inductive
        OBVIOUS
    <1>1. TypeOK
        BY DEF Init, TypeOK, NoRow, NoDraft, RowType, Labels
    <1>2. HandlersAreTrue
        BY UsersAssumption
        DEF Init, HandlersAreTrue, RequestFollowsCode, DraftIsCurrent, EnteredAreOwn,
            Open, NoDraft, Entered, Nothing
    <1>3. RowsAreWhole /\ NamesAreUnique /\ VerifiedWasReached
        BY DEF Init, RowsAreWhole, NamesAreUnique, VerifiedWasReached, Holds, Present, NoRow
    <1> QED BY <1>1, <1>2, <1>3 DEF Inductive

-----------------------------------------------------------------------------
(* Steps that leave the users table alone *)

LEMMA OthersUndisturbed ==
    ASSUME Inductive, NEW h \in Handlers, UNCHANGED users, HandlersTyped',
           mail' \subseteq Users, inbox \subseteq inbox', inbox' \subseteq Users,
           \A g \in Handlers \ {h} : /\ pc'[g] = pc[g] /\ req'[g] = req[g]
                                     /\ draft'[g] = draft[g] /\ found'[g] = found[g],
           RequestFollowsCode(h)', DraftIsCurrent(h)', EnteredAreOwn(h)'
    PROVE  Inductive'
    <1>1. TypeOK'
        BY DEF Inductive, TypeOK, HandlersTyped
    <1>2. RowsAreWhole' /\ NamesAreUnique' /\ VerifiedWasReached'
        BY DEF Inductive, RowsAreWhole, NamesAreUnique, VerifiedWasReached, Holds, Present
    <1>3. ASSUME NEW g \in Handlers \ {h}
          PROVE  (RequestFollowsCode(g) /\ DraftIsCurrent(g) /\ EnteredAreOwn(g))'
        <2>1. RequestFollowsCode(g) /\ DraftIsCurrent(g) /\ EnteredAreOwn(g)
            BY <1>3 DEF Inductive, HandlersAreTrue
        <2>2. pc'[g] = pc[g] /\ req'[g] = req[g] /\ draft'[g] = draft[g] /\ found'[g] = found[g]
            BY <1>3
        <2>3. RequestFollowsCode(g)'
            BY <2>1, <2>2 DEF RequestFollowsCode, Present, UserOf, Decodes
        <2>4. DraftIsCurrent(g)'
            <3>1. Open(g)' => draft'[h].user # draft'[g].user
                BY <1>3, UsersAssumption DEF DraftIsCurrent, Open, HandlersTyped
            <3>2. Open(g)' => \A f \in Handlers \ {g} : draft'[f].user # draft'[g].user
                <4> SUFFICES ASSUME Open(g)', NEW f \in Handlers \ {g}
                             PROVE  draft'[f].user # draft'[g].user
                    OBVIOUS
                <4>1. CASE f = h
                    BY <3>1, <4>1
                <4>2. CASE f # h
                    BY <2>1, <2>2, <4>2 DEF DraftIsCurrent, Open
                <4> QED BY <4>1, <4>2
            <3>3. /\ Open(g)' <=> Open(g)
                  /\ Present(draft[g].user)' <=> Present(draft[g].user)
                BY <2>2 DEF Open, Present
            <3> QED BY <2>1, <2>2, <3>2, <3>3 DEF DraftIsCurrent
        <2>5. EnteredAreOwn(g)'
            <3> SUFFICES ASSUME NEW k \in Entered(g)'
                         PROVE  /\ \A u \in Users \ {draft'[g].user} : ~Holds(u, k)'
                                /\ \A f \in Handlers \ {g} : k \notin Entered(f)'
                BY DEF EnteredAreOwn
            <3>1. Entered(g)' = Entered(g)
                BY <2>2 DEF Entered
            <3>2. \A u \in Users \ {draft'[g].user} : ~Holds(u, k)'
                BY <2>1, <2>2, <3>1 DEF EnteredAreOwn, Holds, Present
            <3>3. k \notin Entered(h)'
                BY <1>3, <3>1 DEF EnteredAreOwn
            <3>4. \A f \in Handlers \ {g, h} : Entered(f)' = Entered(f)
                BY DEF Entered
            <3> QED BY <2>1, <3>1, <3>2, <3>3, <3>4 DEF EnteredAreOwn
        <2> QED BY <2>3, <2>4, <2>5
    <1> QED BY <1>1, <1>2, <1>3 DEF Inductive, HandlersAreTrue

\* A handler answers: whatever it wrote is undone.
LEMMA FinishKeeps ==
    ASSUME Inductive, NEW h \in Handlers, Finish(h), UNCHANGED <<users, inbox>>,
           mail' \subseteq Users
    PROVE  Inductive'
    <1>1. HandlersTyped'
        BY DEF Inductive, TypeOK, Finish, Closed, HandlersTyped, NoDraft, NoRow, RowType, Labels
    <1>2. /\ pc'[h] = "idle" /\ req'[h] = Nothing /\ draft'[h] = NoDraft
          /\ \A g \in Handlers \ {h} : /\ pc'[g] = pc[g] /\ req'[g] = req[g]
                                       /\ draft'[g] = draft[g] /\ found'[g] = found[g]
        BY DEF Inductive, TypeOK, Finish, Closed
    <1>3. RequestFollowsCode(h)'
        BY <1>2 DEF RequestFollowsCode, Nothing
    <1>4. DraftIsCurrent(h)' /\ EnteredAreOwn(h)'
        BY <1>2 DEF DraftIsCurrent, EnteredAreOwn, Open, NoDraft, Entered
    <1> QED BY <1>1, <1>2, <1>3, <1>4, OthersUndisturbed DEF Inductive, TypeOK

\* A handler that has written nothing goes on.
LEMMA GotoKeeps ==
    ASSUME Inductive, NEW h \in Handlers, NEW label \in {"name", "lock", "enqueue"},
           pc[h] = "begin", Goto(h, label), UNCHANGED <<users, mail, inbox, draft>>,
           found' \in [Handlers -> Users \cup {NoUser}],
           \A g \in Handlers \ {h} : found'[g] = found[g],
           RequestFollowsCode(h)'
    PROVE  Inductive'
    <1>1. HandlersTyped'
        BY DEF Inductive, TypeOK, Goto, HandlersTyped, Labels
    <1>2. pc'[h] = label /\ \A g \in Handlers \ {h} : pc'[g] = pc[g]
        BY DEF Inductive, TypeOK, Goto
    <1>3. ~Open(h)
        BY DEF Inductive, HandlersAreTrue, DraftIsCurrent
    <1>4. DraftIsCurrent(h)' /\ EnteredAreOwn(h)'
        BY <1>2, <1>3 DEF DraftIsCurrent, EnteredAreOwn, Open, Entered
    <1> QED BY <1>1, <1>2, <1>4, OthersUndisturbed DEF Inductive, TypeOK, Goto

\* A handler writes a row that nobody else has written, and no key of it is
\* entered yet that is not the row's own.
LEMMA DraftKeeps ==
    ASSUME Inductive, NEW h \in Handlers, NEW u \in Users,
           NEW label \in {"username", "commit"},
           pc[h] \in {"name", "lock"}, Goto(h, label),
           draft' = [draft EXCEPT ![h] = [user |-> u, row |-> Written(users[u], req[h])]],
           UNCHANGED <<users, mail, inbox, found>>,
           \A g \in Handlers \ {h} : draft[g].user # u,
           RequestFollowsCode(h)',
           IF req[h].op = "register" THEN ~Present(u) ELSE u = UserOf(req[h]),
           req[h].op \in {"register", "update"} => label = "username",
           req[h].op \in {"verify", "deactivate"} => label = "commit",
           req[h].op \in {"register", "update", "verify", "deactivate"}
    PROVE  Inductive'
    <1>1. req[h] \in Requests
        BY BusyServes
    <1>2. Written(users[u], req[h]) \in RowType
        BY <1>1, WrittenTyped DEF Inductive, TypeOK
    <1>3. HandlersTyped'
        BY <1>2 DEF Inductive, TypeOK, Goto, HandlersTyped, Labels
    <1>4. /\ pc'[h] = label /\ req' = req
          /\ draft'[h].user = u /\ draft'[h].row = Written(users[u], req[h])
          /\ \A g \in Handlers \ {h} : pc'[g] = pc[g] /\ draft'[g] = draft[g]
        BY DEF Inductive, TypeOK, Goto
    <1>5. DraftIsCurrent(h)'
        <2>1. Open(h)' /\ users' = users
            BY <1>4, UsersAssumption DEF Open
        <2>2. \A g \in Handlers \ {h} : draft'[g].user # draft'[h].user
            BY <1>4
        <2>3. Present(u)' <=> Present(u)
            BY DEF Present
        <2> QED BY <1>4, <2>1, <2>2, <2>3 DEF DraftIsCurrent
    <1>6. EnteredAreOwn(h)'
        <2>1. CASE label = "username"
            BY <1>4, <2>1 DEF EnteredAreOwn, Entered
        <2>2. CASE label = "commit"
            <3>1. req[h].op \in {"verify", "deactivate"} /\ Present(u)
                BY <2>2 DEF Inductive, HandlersAreTrue, RequestFollowsCode, UserOf
            <3>2. /\ draft'[h].row.name = users[u].name
                  /\ draft'[h].row.email = users[u].email
                BY <1>4, <3>1 DEF Written, Inductive, TypeOK, RowType
            <3>3. Entered(h)' = {users[u].name, users[u].email}
                BY <1>4, <2>2, <3>2 DEF Entered
            <3>4. users[u].name \in Names /\ users[u].email \in Emails
                BY <3>1 DEF Inductive, RowsAreWhole
            <3>5. \A k \in Entered(h)' : Holds(u, k) /\ k \in Names \cup {NoKey} \cup Emails
                BY <3>1, <3>3, <3>4 DEF Holds
            <3>6. \A k \in Entered(h)' : \A v \in Users \ {u} : ~Holds(v, k)'
                BY <3>5 DEF Inductive, NamesAreUnique, Holds, Present
            <3>7. \A k \in Entered(h)' : \A g \in Handlers \ {h} : k \notin Entered(g)
                BY <3>5 DEF Inductive, HandlersAreTrue, EnteredAreOwn
            <3>8. \A g \in Handlers \ {h} : Entered(g)' = Entered(g)
                BY <1>4 DEF Entered
            <3> QED BY <1>4, <3>6, <3>7, <3>8 DEF EnteredAreOwn
        <2> QED BY <2>1, <2>2
    <1> QED BY <1>3, <1>4, <1>5, <1>6, OthersUndisturbed DEF Inductive, TypeOK

LEMMA EnterKeyKeeps ==
    ASSUME Inductive, NEW h \in Handlers, EnterKey(h)
    PROVE  Inductive'
    <1> DEFINE k == NextKey(h)
    <1>1. /\ pc'[h] = IF pc[h] = "username" THEN "email" ELSE "commit"
          /\ \A g \in Handlers \ {h} : pc'[g] = pc[g]
          /\ req' = req /\ draft' = draft /\ found' = found
        BY DEF Inductive, TypeOK, EnterKey, Goto
    <1>2. HandlersTyped'
        BY <1>1 DEF Inductive, TypeOK, EnterKey, Goto, HandlersTyped, Labels
    <1>3. RequestFollowsCode(h) /\ DraftIsCurrent(h) /\ EnteredAreOwn(h)
        BY DEF Inductive, HandlersAreTrue
    <1>4. RequestFollowsCode(h)'
        BY <1>1, <1>3 DEF EnterKey, RequestFollowsCode, Present, UserOf
    <1>5. DraftIsCurrent(h)'
        BY <1>1, <1>3 DEF EnterKey, DraftIsCurrent, Open, Present
    <1>6. EnteredAreOwn(h)'
        <2>1. Entered(h)' = Entered(h) \cup {k}
            BY <1>1 DEF EnterKey, Entered, NextKey
        <2>2. \A u \in Users \ {draft[h].user} : ~Holds(u, k)
            BY DEF EnterKey, Taken
        <2>3. \A g \in Handlers \ {h} : k \notin Entered(g)
            <3> SUFFICES ASSUME NEW g \in Handlers \ {h}, k \in Entered(g) PROVE FALSE
                OBVIOUS
            <3>1. Open(g)
                BY DEF Entered, Inductive, HandlersAreTrue, DraftIsCurrent
            <3> QED BY <3>1 DEF EnterKey, Free, Blocks
        <2>4. \A g \in Handlers \ {h} : Entered(g)' = Entered(g)
            BY <1>1 DEF Entered
        <2>5. \A x : \A u \in Users : Holds(u, x)' <=> Holds(u, x)
            BY DEF EnterKey, Holds, Present
        <2> QED BY <1>1, <1>3, <2>1, <2>2, <2>3, <2>4, <2>5 DEF EnteredAreOwn
    <1> QED BY <1>1, <1>2, <1>4, <1>5, <1>6, OthersUndisturbed
            DEF EnterKey, Inductive, TypeOK

LEMMA WriteRowKeeps ==
    ASSUME Inductive, NEW h \in Handlers, WriteRow(h)
    PROVE  Inductive'
    <1> DEFINE u == UserOf(req[h])
    <1>1. RequestFollowsCode(h) /\ pc[h] = "lock" /\ req[h] \in Requests
        BY BusyServes DEF WriteRow, Inductive, HandlersAreTrue
    <1>2. u \in Users /\ req[h].op \in {"update", "verify", "deactivate"}
        BY <1>1, RequestFields DEF RequestFollowsCode
    <1>3. \A g \in Handlers \ {h} : draft[g].user # u
        <2> SUFFICES ASSUME NEW g \in Handlers \ {h}, draft[g].user = u PROVE FALSE
            OBVIOUS
        <2>1. Open(g)
            BY <1>2, UsersAssumption DEF Open
        <2> QED BY <1>1, <2>1 DEF WriteRow, Free, Blocks
    <1>4. PICK label \in {"username", "commit"} :
             /\ Goto(h, label)
             /\ req[h].op = "update" => label = "username"
             /\ req[h].op # "update" => label = "commit"
        BY DEF WriteRow
    <1>5. pc'[h] = label
        BY <1>4 DEF Goto, Inductive, TypeOK
    <1>6. RequestFollowsCode(h)'
        BY <1>1, <1>2, <1>4, <1>5 DEF RequestFollowsCode, WriteRow, Goto, Present, UserOf
    <1>7. /\ draft' = [draft EXCEPT ![h] = [user |-> u, row |-> Written(users[u], req[h])]]
          /\ UNCHANGED <<users, mail, inbox, found>>
        BY DEF WriteRow
    <1> QED BY <1>1, <1>2, <1>3, <1>4, <1>6, <1>7, DraftKeeps

LEMMA InsertKeeps ==
    ASSUME Inductive, NEW h \in Handlers, Insert(h)
    PROVE  Inductive'
    <1>1. RequestFollowsCode(h) /\ pc[h] = "name" /\ req[h] \in Requests
        BY BusyServes DEF Insert, Inductive, HandlersAreTrue
    <1>2. req[h].op = "register"
        BY <1>1 DEF RequestFollowsCode
    <1>3. PICK u \in Unused :
             draft' = [draft EXCEPT ![h] = [user |-> u, row |-> Written(NoRow, req[h])]]
        BY DEF Insert
    <1>4. Written(NoRow, req[h]) = Written(users[u], req[h])
        BY <1>2 DEF Written
    <1>5. u \in Users /\ ~Present(u) /\ \A g \in Handlers \ {h} : draft[g].user # u
        BY <1>3 DEF Unused
    <1>6. pc'[h] = "username" /\ Goto(h, "username") /\ UNCHANGED <<users, mail, inbox, found>>
        BY DEF Insert, Goto, Inductive, TypeOK
    <1>7. RequestFollowsCode(h)'
        BY <1>1, <1>2, <1>6 DEF RequestFollowsCode, Goto, Nothing
    <1> QED BY <1>1, <1>2, <1>3, <1>4, <1>5, <1>6, <1>7, DraftKeeps

LEMMA ReceiveKeeps ==
    ASSUME Inductive, NEW h \in Handlers, NEW r \in Requests, Receive(h, r)
    PROVE  Inductive'
    <1>1. /\ pc'[h] = "begin" /\ req'[h] = r /\ draft' = draft /\ found' = found
          /\ \A g \in Handlers \ {h} : pc'[g] = pc[g] /\ req'[g] = req[g]
        BY DEF Inductive, TypeOK, Receive
    <1>2. HandlersTyped'
        BY DEF Inductive, TypeOK, Receive, HandlersTyped, Labels
    <1>3. ~Open(h)
        BY DEF Receive, Inductive, HandlersAreTrue, DraftIsCurrent
    <1>4. DraftIsCurrent(h)' /\ EnteredAreOwn(h)'
        BY <1>1, <1>3 DEF DraftIsCurrent, EnteredAreOwn, Open, Entered
    <1>5. /\ r # Nothing
          /\ r.op \in {"update", "deactivate"} => Present(r.user)'
          /\ r.op = "verify" /\ Decodes(r.token) => r.token.user \in inbox'
        <2>1. CASE r.op = "verify"
            <3>1. r.token.purpose \in {"access", "verify_email"}
                BY <2>1, RequestsAssumption DEF RequestType, Tokens
            <3> QED BY <2>1, <3>1, RequestFields DEF Receive, Presentable, Decodes
        <2>2. CASE r.op # "verify"
            BY <2>2, RequestFields DEF Receive, Presentable, Active, Present
        <2> QED BY <2>1, <2>2
    <1>6. RequestFollowsCode(h)'
        BY <1>1, <1>5 DEF RequestFollowsCode
    <1> QED BY <1>1, <1>2, <1>4, <1>6, OthersUndisturbed DEF Inductive, TypeOK, Receive

\* Those that answer, and those that go on, without a row being written.
LEMMA QuietStepsKeep ==
    ASSUME Inductive, NEW h \in Handlers,
           \/ RefuseTaken(h) \/ EmailIsFree(h) \/ Collide(h) \/ DeadlockVictim(h)
           \/ LeaveRow(h) \/ FindRow(h) \/ ReadBack(h) \/ Resend(h) \/ Lose(h)
    PROVE  Inductive'
    <1>1. RequestFollowsCode(h)
        BY DEF Inductive, HandlersAreTrue
    <1>2. CASE \/ RefuseTaken(h) \/ Collide(h) \/ DeadlockVictim(h) \/ LeaveRow(h)
               \/ ReadBack(h) \/ IgnoreResend(h) \/ Lose(h)
        <2>1. Finish(h) /\ UNCHANGED <<users, mail, inbox>>
            BY <1>2 DEF RefuseTaken, Collide, DeadlockVictim, LeaveRow, ReadBack,
                IgnoreResend, Lose
        <2> QED BY <2>1, FinishKeeps DEF Inductive, TypeOK
    <1>3. CASE EmailIsFree(h)
        <2>1. /\ pc[h] = "begin" /\ req[h].op = "register" /\ pc'[h] = "name"
              /\ Goto(h, "name") /\ UNCHANGED <<users, mail, inbox, draft, found>>
            BY <1>3 DEF EmailIsFree, At, Goto, Inductive, TypeOK
        <2>2. RequestFollowsCode(h)'
            BY <1>1, <2>1 DEF RequestFollowsCode, Goto, Nothing
        <2> QED BY <2>1, <2>2, GotoKeeps DEF Inductive, TypeOK
    <1>4. CASE FindRow(h)
        <2>1. /\ pc[h] = "begin" /\ req[h].op \in {"update", "verify", "deactivate"}
              /\ pc'[h] = "lock" /\ MayWrite(req[h])
              /\ Goto(h, "lock") /\ UNCHANGED <<users, mail, inbox, draft, found>>
            BY <1>4 DEF FindRow, Goto, Inductive, TypeOK
        <2>2. req[h].op = "verify" => Decodes(req[h].token) /\ Present(req[h].token.user)
            BY <2>1 DEF MayWrite, Active, Present
        <2>3. RequestFollowsCode(h)'
            BY <1>1, <2>1, <2>2 DEF RequestFollowsCode, Goto, Nothing, Present
        <2> QED BY <2>1, <2>3, GotoKeeps DEF Inductive, TypeOK
    <1>5. CASE FindUnverified(h)
        <2>1. PICK u \in Users : found' = [found EXCEPT ![h] = u]
            BY <1>5 DEF FindUnverified, Unverified
        <2>2. /\ pc[h] = "begin" /\ req[h].op = "resend" /\ pc'[h] = "enqueue"
              /\ found'[h] \in Users
              /\ Goto(h, "enqueue") /\ UNCHANGED <<users, mail, inbox, draft>>
            BY <1>5, <2>1 DEF FindUnverified, At, Goto, Inductive, TypeOK
        <2>3. RequestFollowsCode(h)'
            BY <1>1, <2>2 DEF RequestFollowsCode, Goto, Nothing
        <2> QED BY <2>1, <2>2, <2>3, GotoKeeps DEF Inductive, TypeOK
    <1>6. CASE EnqueueMail(h)
        <2>1. found[h] \in Users
            BY <1>1, <1>6 DEF EnqueueMail, RequestFollowsCode
        <2> QED BY <1>6, <2>1, FinishKeeps DEF EnqueueMail, Inductive, TypeOK
    <1> QED BY <1>2, <1>3, <1>4, <1>5, <1>6 DEF Resend

\* Only the worker's steps: no handler, and no row, is touched.
LEMMA WorkerKeeps ==
    ASSUME Inductive, NEW u \in Users, Deliver(u) \/ GiveUp(u)
    PROVE  Inductive'
    <1>1. /\ UNCHANGED <<users, draft, pc, req, found>>
          /\ inbox \subseteq inbox' /\ inbox' \subseteq Users /\ mail' \subseteq Users
        BY DEF Deliver, GiveUp, Inductive, TypeOK
    <1>2. TypeOK'
        BY <1>1 DEF Inductive, TypeOK
    <1>3. RowsAreWhole' /\ NamesAreUnique' /\ VerifiedWasReached'
        BY <1>1 DEF Inductive, RowsAreWhole, NamesAreUnique, VerifiedWasReached, Holds, Present
    <1>4. ASSUME NEW h \in Handlers
          PROVE  (RequestFollowsCode(h) /\ DraftIsCurrent(h) /\ EnteredAreOwn(h))'
        <2>1. RequestFollowsCode(h) /\ DraftIsCurrent(h) /\ EnteredAreOwn(h)
            BY DEF Inductive, HandlersAreTrue
        <2>2. RequestFollowsCode(h)'
            BY <1>1, <2>1 DEF RequestFollowsCode, Present
        <2>3. DraftIsCurrent(h)'
            BY <1>1, <2>1 DEF DraftIsCurrent, Open, Present
        <2>4. EnteredAreOwn(h)'
            BY <1>1, <2>1 DEF EnteredAreOwn, Entered, Holds, Present
        <2> QED BY <2>2, <2>3, <2>4
    <1> QED BY <1>2, <1>3, <1>4 DEF Inductive, HandlersAreTrue

-----------------------------------------------------------------------------
(* Commit *)

\* The row that a transaction commits is whole, and its keys are its own.
LEMMA CommitFacts ==
    ASSUME Inductive, NEW h \in Handlers, Commit(h)
    PROVE  LET u == draft[h].user
               row == draft[h].row
           IN  /\ u \in Users /\ row \in RowType /\ req[h] \in Requests
               /\ req[h].op \in {"register", "update", "verify", "deactivate"}
               /\ row = Written(users[u], req[h])
               /\ row.state # "absent" /\ row.name \in Names /\ row.email \in Emails
               /\ Entered(h) = {row.name, row.email}
               /\ req[h].op # "register" => u = UserOf(req[h]) /\ Present(u)
               /\ req[h].op = "register" => ~Present(u)
               /\ req[h].op = "verify" => u \in inbox /\ Decodes(req[h].token)
    <1> DEFINE u == draft[h].user
               row == draft[h].row
    <1>1. RequestFollowsCode(h) /\ DraftIsCurrent(h) /\ pc[h] = "commit" /\ req[h] \in Requests
        BY BusyServes DEF Commit, Inductive, HandlersAreTrue
    <1>2. u \in Users /\ row \in RowType /\ row = Written(users[u], req[h])
        BY <1>1 DEF DraftIsCurrent, Open, Inductive, TypeOK
    <1>3. /\ req[h].op \in {"register", "update", "verify", "deactivate"}
          /\ req[h].op # "register" => u = UserOf(req[h]) /\ Present(u)
          /\ req[h].op = "register" => ~Present(u)
          /\ req[h].op = "verify" => u \in inbox /\ Decodes(req[h].token)
        BY <1>1 DEF DraftIsCurrent, RequestFollowsCode, UserOf
    <1>4. row.state # "absent" /\ row.name \in Names /\ row.email \in Emails
        <2>1. CASE req[h].op = "register"
            BY <1>1, <1>2, <2>1, RequestFields DEF Written
        <2>2. CASE req[h].op # "register"
            <3>1. /\ users[u] \in RowType /\ users[u].state # "absent"
                  /\ users[u].name \in Names /\ users[u].email \in Emails
                BY <1>2, <1>3, <2>2 DEF Inductive, TypeOK, RowsAreWhole, Present
            <3> HIDE DEF u, row
            <3>2. CASE req[h].op = "update"
                <4>1. /\ Given(req[h].name, users[u].name) \in Names
                      /\ Given(req[h].email, users[u].email) \in Emails
                    BY <1>1, <3>1, <3>2, RequestFields DEF Given
                <4>2. row = [users[u] EXCEPT !.name = Given(req[h].name, @),
                                             !.email = Given(req[h].email, @)]
                    BY <1>2, <3>2 DEF Written
                <4> QED BY <3>1, <4>1, <4>2 DEF RowType
            <3>3. CASE req[h].op \in {"verify", "deactivate"}
                BY <1>2, <3>1, <3>3 DEF Written, RowType
            <3> QED BY <1>3, <2>2, <3>2, <3>3
        <2> QED BY <2>1, <2>2
    <1>5. Entered(h) = {row.name, row.email}
        BY <1>1 DEF Entered
    <1> QED BY <1>1, <1>2, <1>3, <1>4, <1>5

\* The rows stay whole, unique and verified for a reason.
LEMMA CommitKeepsRows ==
    ASSUME Inductive, NEW h \in Handlers, Commit(h)
    PROVE  RowsAreWhole' /\ NamesAreUnique' /\ VerifiedWasReached'
    <1>0. PICK u, row : u = draft[h].user /\ row = draft[h].row
        OBVIOUS
    <1>1. /\ u \in Users /\ row \in RowType /\ row = Written(users[u], req[h])
          /\ row.state # "absent" /\ row.name \in Names /\ row.email \in Emails
          /\ Entered(h) = {row.name, row.email}
          /\ req[h].op \in {"register", "update", "verify", "deactivate"}
          /\ req[h].op = "verify" => u \in inbox
        BY <1>0, CommitFacts
    <1>2. /\ users'[u] = row
          /\ \A v \in Users \ {u} : users'[v] = users[v]
          /\ inbox' = inbox
        BY <1>0, <1>1 DEF Commit, Inductive, TypeOK
    <1>3. RowsAreWhole'
        BY <1>1, <1>2 DEF Inductive, RowsAreWhole, Present
    <1>4. NamesAreUnique'
        <2> SUFFICES ASSUME NEW v \in Users, NEW w \in Users, v # w,
                            NEW k \in Names \cup {NoKey} \cup Emails, Holds(v, k)', Holds(w, k)'
                     PROVE  FALSE
            BY DEF NamesAreUnique
        <2>1. \A x \in Users \ {u} : Holds(x, k)' <=> Holds(x, k)
            BY <1>2 DEF Holds, Present
        <2>2. Holds(u, k)' => k \in Entered(h)
            BY <1>1, <1>2 DEF Holds
        <2>3. k \in Entered(h) => \A x \in Users \ {u} : ~Holds(x, k)
            BY <1>0 DEF Inductive, HandlersAreTrue, EnteredAreOwn
        <2>4. CASE v = u \/ w = u
            BY <2>1, <2>2, <2>3, <2>4
        <2>5. CASE v # u /\ w # u
            BY <2>1, <2>5 DEF Inductive, NamesAreUnique
        <2> QED BY <2>4, <2>5
    <1>5. VerifiedWasReached'
        <2>1. row.verified => u \in inbox
            <3>1. users[u] \in RowType /\ (users[u].verified => u \in inbox)
                BY <1>1 DEF Inductive, TypeOK, VerifiedWasReached
            <3>2. CASE req[h].op = "verify"
                BY <1>1, <3>2
            <3>3. CASE req[h].op \in {"update", "deactivate"}
                BY <1>1, <3>1, <3>3 DEF Written, RowType
            <3>4. CASE req[h].op = "register"
                BY <1>1, <3>4 DEF Written
            <3> QED BY <1>1, <3>2, <3>3, <3>4
        <2> QED BY <1>2, <2>1 DEF Inductive, VerifiedWasReached
    <1> QED BY <1>3, <1>4, <1>5

LEMMA CommitKeeps ==
    ASSUME Inductive, NEW h \in Handlers, Commit(h)
    PROVE  Inductive'
    <1>0. PICK u, row : u = draft[h].user /\ row = draft[h].row
        OBVIOUS
    <1>1. /\ u \in Users /\ row \in RowType /\ row.state # "absent"
          /\ Entered(h) = {row.name, row.email}
          /\ req[h] \in Requests
        BY <1>0, CommitFacts
    <1>2. /\ users'[u] = row
          /\ \A v \in Users \ {u} : users'[v] = users[v]
          /\ users' \in [Users -> RowType]
          /\ inbox' = inbox
        BY <1>0, <1>1 DEF Commit, Inductive, TypeOK
    <1>3. /\ draft' = Closed(h)
          /\ \/ pc'[h] = "readback" /\ req'[h] = req[h] /\ req[h].op = "update"
             \/ pc'[h] = "idle" /\ req'[h] = Nothing
          /\ \A g \in Handlers \ {h} : pc'[g] = pc[g] /\ req'[g] = req[g] /\ found'[g] = found[g]
        BY DEF Commit, Goto, Finish, Inductive, TypeOK
    <1>4. draft'[h] = NoDraft /\ \A g \in Handlers \ {h} : draft'[g] = draft[g]
        BY <1>3 DEF Closed, Inductive, TypeOK
    <1>5. TypeOK'
        <2>1. HandlersTyped'
            <3>1. draft' \in [Handlers -> [user : Users \cup {NoUser}, row : RowType]]
                BY <1>3 DEF Closed, Inductive, TypeOK, NoDraft, NoRow, RowType
            <3>2. /\ pc' \in [Handlers -> Labels] /\ req' \in [Handlers -> Requests \cup {Nothing}]
                  /\ found' \in [Handlers -> Users \cup {NoUser}]
                BY DEF Commit, Goto, Finish, Inductive, TypeOK, Labels
            <3> QED BY <3>1, <3>2 DEF HandlersTyped
        <2>2. mail' \subseteq Users
            BY <1>0, <1>1 DEF Commit, Inductive, TypeOK
        <2> QED BY <1>2, <2>1, <2>2 DEF HandlersTyped, Inductive, TypeOK
    <1>6. \A v \in Users : Present(v) => Present(v)'
        BY <1>1, <1>2 DEF Present
    <1>7. (RequestFollowsCode(h) /\ DraftIsCurrent(h) /\ EnteredAreOwn(h))'
        <2>1. RequestFollowsCode(h)
            BY DEF Inductive, HandlersAreTrue
        <2>2. req[h].op = "update" => users'[req[h].user].state # "absent"
            BY <1>1, <1>6, <2>1, RequestFields DEF RequestFollowsCode, UserOf, Present
        <2>3. RequestFollowsCode(h)'
            BY <1>1, <1>3, <2>2, RequestFields DEF RequestFollowsCode, Nothing, Present
        <2>4. DraftIsCurrent(h)' /\ EnteredAreOwn(h)'
            BY <1>3, <1>4 DEF DraftIsCurrent, EnteredAreOwn, Open, NoDraft, Entered
        <2> QED BY <2>3, <2>4
    <1>8. ASSUME NEW g \in Handlers \ {h}
          PROVE  (RequestFollowsCode(g) /\ DraftIsCurrent(g) /\ EnteredAreOwn(g))'
        <2>1. /\ RequestFollowsCode(g) /\ DraftIsCurrent(g) /\ EnteredAreOwn(g)
              /\ DraftIsCurrent(h)
            BY <1>8 DEF Inductive, HandlersAreTrue
        <2>2. pc'[g] = pc[g] /\ req'[g] = req[g] /\ draft'[g] = draft[g] /\ found'[g] = found[g]
            BY <1>3, <1>4, <1>8
        <2>3. RequestFollowsCode(g)'
            <3>1. /\ req[g].op \in {"update", "deactivate"} => req[g].user \in Users
                  /\ req[g].op = "verify" => req[g].token.user \in Users
                BY <1>8, RequestFields DEF Inductive, TypeOK, UserOf, Nothing
            <3> QED BY <1>2, <1>6, <2>1, <2>2, <3>1 DEF RequestFollowsCode, Present
        <2>4. DraftIsCurrent(g)'
            <3>1. Open(g) => draft[g].user \in Users \ {u}
                BY <1>0, <1>8, <2>1, UsersAssumption DEF DraftIsCurrent, Open, Inductive, TypeOK
            <3>2. Open(g) => \A f \in Handlers \ {g} : draft'[f].user # draft[g].user
                BY <1>4, <1>8, <2>1 DEF DraftIsCurrent, NoDraft, Open
            <3>3. Open(g)' <=> Open(g)
                BY <2>2 DEF Open
            <3>4. Open(g) => users'[draft[g].user] = users[draft[g].user]
                BY <1>2, <3>1
            <3> QED BY <2>1, <2>2, <3>2, <3>3, <3>4 DEF DraftIsCurrent, Present
        <2>5. EnteredAreOwn(g)'
            <3>1. /\ Entered(g)' = Entered(g)
                  /\ Entered(h)' = {}
                  /\ \A f \in Handlers \ {g, h} : Entered(f)' = Entered(f)
                BY <1>3, <1>4, <1>8, <2>2 DEF Entered
            <3>2. \A k \in Entered(g) : ~Holds(u, k)'
                BY <1>0, <1>1, <1>2, <1>8, <2>1 DEF Holds, EnteredAreOwn
            <3>3. \A k : \A v \in Users \ {u} : Holds(v, k)' <=> Holds(v, k)
                BY <1>2 DEF Holds, Present
            <3> QED BY <2>1, <2>2, <3>1, <3>2, <3>3 DEF EnteredAreOwn
        <2> QED BY <2>3, <2>4, <2>5
    <1> QED BY <1>5, <1>7, <1>8, CommitKeepsRows DEF Inductive, HandlersAreTrue

-----------------------------------------------------------------------------
(* The theorems *)

\* The inductive invariant holds in every reachable state, whatever interleaving
\* of requests, losses and deadlocks led there.
THEOREM InductiveInvariant == Spec => []Inductive
    <1>1. Init => Inductive
        BY InitInductive
    <1>2. Inductive /\ [Next]_vars => Inductive'
        <2> SUFFICES ASSUME Inductive, [Next]_vars PROVE Inductive'
            OBVIOUS
        <2>1. CASE UNCHANGED vars
            BY <2>1 DEF vars, Inductive, TypeOK, HandlersAreTrue, RequestFollowsCode,
                DraftIsCurrent, EnteredAreOwn, RowsAreWhole, NamesAreUnique,
                VerifiedWasReached, Open, Entered, Holds, Present
        <2>2. ASSUME NEW h \in Handlers, Step(h) \/ Lose(h) PROVE Inductive'
            BY <2>2, QuietStepsKeep, InsertKeeps, EnterKeyKeeps, WriteRowKeeps, CommitKeeps
            DEF Step, Register, Index, Change
        <2>3. ASSUME NEW h \in Handlers, NEW r \in Requests, Receive(h, r) PROVE Inductive'
            BY <2>3, ReceiveKeeps
        <2>4. ASSUME NEW u \in Users, Deliver(u) \/ GiveUp(u) PROVE Inductive'
            BY <2>4, WorkerKeeps
        <2> QED BY <2>1, <2>2, <2>3, <2>4 DEF Next, Quiet
    <1> QED BY <1>1, <1>2, PTL DEF Spec

\* No two rows, in use or given up, share a username or an email address.
THEOREM NamesUnique == Spec => []NamesAreUnique
    <1>1. Inductive => NamesAreUnique
        BY DEF Inductive
    <1> QED BY <1>1, InductiveInvariant, PTL

\* An account is verified only after a verification email for it was delivered.
THEOREM VerifiedReached == Spec => []VerifiedWasReached
    <1>1. Inductive => VerifiedWasReached
        BY DEF Inductive
    <1> QED BY <1>1, InductiveInvariant, PTL

\* Any number of registrations, verifications and deactivations never deadlock:
\* one that waits for a username has entered nothing, one that waits for an email
\* address waits for another that has entered its last key and waits for nobody.
THEOREM DeadlockFreedom == Spec => []DeadlocksNeedUpdates
    <1>1. Inductive => DeadlocksNeedUpdates
        <2> SUFFICES ASSUME Inductive, NEW S \in SUBSET Handlers, Cycle(S),
                            \A h \in S : req[h].op # "update"
                     PROVE  FALSE
            BY DEF DeadlocksNeedUpdates
        <2>1. ASSUME NEW h \in S
              PROVE  pc[h] \in {"username", "email"} /\ req[h].op = "register" /\ Open(h)
            <3>1. Open(h) /\ pc[h] \in {"lock", "username", "email"}
                BY <2>1 DEF Cycle, Blocks
            <3> QED BY <2>1, <3>1
                    DEF Inductive, HandlersAreTrue, RequestFollowsCode, DraftIsCurrent
        <2>2. ASSUME NEW h \in S
              PROVE  draft[h].row.name \in Names /\ draft[h].row.email \in Emails
            <3>1. /\ draft[h].row = Written(users[draft[h].user], req[h])
                  /\ req[h] \in Requests /\ req[h].op = "register"
                BY <2>1, <2>2, BusyServes DEF Inductive, HandlersAreTrue, DraftIsCurrent
            <3> QED BY <3>1, RequestFields DEF Written
        <2>3. ASSUME NEW h \in S, NEW g \in S, Blocks(g, h)
              PROVE  pc[g] = "email" /\ pc[h] = "username"
            <3>1. ~Holds(draft[g].user, NextKey(h))
                BY <2>1, <2>3 DEF Inductive, HandlersAreTrue, DraftIsCurrent, Holds
            <3>2. NextKey(h) \in Entered(g)
                BY <2>1, <2>3, <3>1 DEF Blocks
            <3>3. pc[g] = "email" /\ NextKey(h) = draft[g].row.name
                BY <2>1, <2>3, <3>2 DEF Entered
            <3>4. draft[g].row.name \in Names
                BY <2>3, <2>2
            <3>5. draft[h].row.email \in Emails
                BY <2>3, <2>2
            <3> QED BY <2>1, <2>3, <3>3, <3>4, <3>5, KeysAssumption DEF NextKey
        <2>4. PICK h \in S, g \in S, f \in S : Blocks(g, h) /\ Blocks(f, g)
            BY DEF Cycle
        <2> QED BY <2>3, <2>4
    <1> QED BY <1>1, InductiveInvariant, PTL

\* The handlers' statements add up to changes made at once, each to the row as it
\* is: Registration implements AccountTable.
THEOREM ImplementsPromise == Spec => Implements
    <1> DEFINE pending == [h \in Handlers |-> IF pc[h] = "readback" THEN Nothing ELSE req[h]]
    <1>1. Init => Promise!Init
        BY DEF Init, Promise!Init
    <1>2. Inductive /\ Inductive' /\ [Next]_vars => [Promise!Next]_<<users, pending>>
        <2> SUFFICES ASSUME Inductive, Inductive', [Next]_vars
                     PROVE  [Promise!Next]_<<users, pending>>
            OBVIOUS
        <2>1. CASE UNCHANGED vars
            BY <2>1 DEF vars
        <2>2. ASSUME NEW h \in Handlers, Finish(h), UNCHANGED users
              PROVE  Promise!Drop(h)
            <3>1. /\ pc'[h] = "idle" /\ req'[h] = Nothing
                  /\ \A g \in Handlers \ {h} : pc'[g] = pc[g] /\ req'[g] = req[g]
                BY <2>2 DEF Finish, Inductive, TypeOK
            <3> QED BY <2>2, <3>1 DEF Promise!Drop
        <2>3. ASSUME NEW h \in Handlers, NEW label \in Labels \ {"readback"}, Goto(h, label),
                     pc[h] # "readback", UNCHANGED users
              PROVE  UNCHANGED <<users, pending>>
            <3>1. \A g \in Handlers : pc'[g] = "readback" <=> pc[g] = "readback"
                BY <2>3 DEF Goto, Inductive, TypeOK
            <3> QED BY <2>3, <3>1 DEF Goto
        <2>4. ASSUME NEW h \in Handlers, NEW r \in Requests, Receive(h, r)
              PROVE  Promise!Next
            <3>1. /\ pc'[h] = "begin" /\ req'[h] = r /\ pc[h] = "idle" /\ req[h] = Nothing
                  /\ \A g \in Handlers \ {h} : pc'[g] = pc[g] /\ req'[g] = req[g]
                BY <2>4 DEF Receive, Inductive, TypeOK, HandlersAreTrue, RequestFollowsCode
            <3>2. Promise!Ask(h, r)
                BY <2>4, <3>1 DEF Receive, Promise!Ask
            <3> QED BY <3>2 DEF Promise!Next
        <2>5. ASSUME NEW h \in Handlers, Commit(h)
              PROVE  Promise!CarryOut(h)
            <3>0. PICK u, row : u = draft[h].user /\ row = draft[h].row
                OBVIOUS
            <3>1. /\ u \in Users /\ users[u] \in RowType /\ req[h] \in Requests
                  /\ req[h].op \in {"register", "update", "verify", "deactivate"}
                  /\ row = Written(users[u], req[h])
                  /\ req[h].op # "register" => u = UserOf(req[h]) /\ Present(u)
                  /\ req[h].op = "register" => ~Present(u)
                  /\ req[h].op = "verify" => Decodes(req[h].token)
                BY <2>5, <3>0, CommitFacts DEF Inductive, TypeOK
            <3>2. users' = [users EXCEPT ![u] = row]
                BY <2>5, <3>0 DEF Commit
            <3>3. /\ pc[h] = "commit"
                  /\ pc'[h] = "readback" \/ req'[h] = Nothing
                  /\ \A g \in Handlers \ {h} : pc'[g] = pc[g] /\ req'[g] = req[g]
                BY <2>5 DEF Commit, Goto, Finish, Inductive, TypeOK
            <3>4. pending[h] = req[h] /\ pending' = [pending EXCEPT ![h] = Nothing]
                BY <3>3
            <3>5. Promise!Unique'
                <4>1. \A v, w \in Users, k \in Names \cup Emails :
                         /\ users'[v].state # "absent" /\ users'[w].state # "absent"
                         /\ k = users'[v].name \/ k = users'[v].email
                         /\ k = users'[w].name \/ k = users'[w].email
                         => v = w
                    BY DEF Inductive, NamesAreUnique, Holds, Present
                <4>2. \A v \in Users : users'[v].state # "absent" =>
                         users'[v].name \in Names /\ users'[v].email \in Emails
                    BY DEF Inductive, RowsAreWhole, Present
                <4> QED BY <4>1, <4>2 DEF Promise!Unique, Promise!Present
            <3>6. \/ \E v \in Users : Promise!Register(req[h], v)
                  \/ Promise!Update(req[h])
                  \/ Promise!Verify(req[h])
                  \/ Promise!Deactivate(req[h])
                <4>1. CASE req[h].op = "register"
                    <5>1. row = [state |-> "active", name |-> req[h].name,
                                 email |-> req[h].email, verified |-> FALSE]
                        BY <3>1, <4>1 DEF Written
                    <5> QED BY <3>1, <3>2, <4>1, <5>1
                            DEF Promise!Register, Promise!Present, Present
                <4>2. CASE req[h].op = "update"
                    <5>1. row = [users[u] EXCEPT
                              !.name = IF req[h].name = NotGiven THEN @ ELSE req[h].name,
                              !.email = IF req[h].email = NotGiven THEN @ ELSE req[h].email]
                        BY <3>1, <4>2 DEF Written, Given
                    <5>2. u = req[h].user
                        BY <3>1, <4>2 DEF UserOf
                    <5>3. users' = [users EXCEPT
                              ![u].name = IF req[h].name = NotGiven THEN @ ELSE req[h].name,
                              ![u].email = IF req[h].email = NotGiven THEN @ ELSE req[h].email]
                        BY <3>1, <3>2, <5>1 DEF Inductive, TypeOK, RowType
                    <5> QED BY <3>1, <4>2, <5>2, <5>3
                            DEF Promise!Update, Promise!Present, Present
                <4>3. CASE req[h].op = "verify"
                    BY <3>1, <3>2, <4>3
                    DEF Written, UserOf, Decodes, Promise!Verify, Promise!Present, Present
                <4>4. CASE req[h].op = "deactivate"
                    BY <3>1, <3>2, <4>4
                    DEF Written, UserOf, Promise!Deactivate, Promise!Present, Present
                <4> QED BY <3>1, <4>1, <4>2, <4>3, <4>4
            <3> HIDE DEF pending
            <3> QED BY <3>4, <3>5, <3>6 DEF Promise!CarryOut, pending
        <2>6. ASSUME NEW h \in Handlers, Step(h) \/ Lose(h), ~Commit(h)
              PROVE  [Promise!Next]_<<users, pending>>
            <3>1. CASE Finish(h) /\ UNCHANGED users
                BY <2>2, <3>1 DEF Promise!Next
            <3>2. CASE \E label \in Labels \ {"readback"} : Goto(h, label) /\ pc[h] # "readback"
                                                         /\ UNCHANGED users
                BY <2>3, <3>2
            <3> QED BY <2>6, <3>1, <3>2
                    DEF Step, Lose, Register, Index, Change, Resend, RefuseTaken, EmailIsFree,
                        Insert, EnterKey, Collide, DeadlockVictim, LeaveRow, FindRow, WriteRow,
                        ReadBack, IgnoreResend, FindUnverified, EnqueueMail, At, Labels
        <2>7. ASSUME NEW u \in Users, Deliver(u) \/ GiveUp(u)
              PROVE  UNCHANGED <<users, pending>>
            BY <2>7 DEF Deliver, GiveUp
        <2> QED BY <2>1, <2>4, <2>5, <2>6, <2>7 DEF Next, Quiet, Promise!Next
    <1> QED BY <1>1, <1>2, InductiveInvariant, PTL DEF Spec, Implements, Promise!Spec

=============================================================================
