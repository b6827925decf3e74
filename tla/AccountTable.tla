---------------------------- MODULE AccountTable ----------------------------
(***************************************************************************)
(* What the users table promises to those who write to it: every request   *)
(* that is carried out takes effect at one moment, on the row as it then   *)
(* is, changes the fields it is about and no other, and leaves no two      *)
(* rows, in use or given up, with one username or one email address.       *)
(* Nothing is said of lookups, locks, index entries or the order in which  *)
(* requests are served.                                                    *)
(***************************************************************************)
CONSTANTS Handlers, Users, Requests, Nothing, NoRow, NotGiven

VARIABLES
    table,    \* the row of each user id
    pending   \* the request each handler has yet to carry out, or Nothing

Present(u) == table[u].state # "absent"

Unique ==
    \A u, v \in Users :
        (u # v /\ Present(u) /\ Present(v))
            => /\ table[u].name # table[v].name
               /\ table[u].email # table[v].email

Init ==
    /\ table = [u \in Users |-> NoRow]
    /\ pending = [h \in Handlers |-> Nothing]

Ask(h, r) ==
    /\ pending[h] = Nothing
    /\ pending' = [pending EXCEPT ![h] = r]
    /\ UNCHANGED table

\* Refused, failed or lost: the request leaves no trace in the table.
Drop(h) ==
    /\ pending' = [pending EXCEPT ![h] = Nothing]
    /\ UNCHANGED table

Register(r, u) ==
    /\ r.op = "register"
    /\ ~Present(u)
    /\ table' = [table EXCEPT ![u] = [state |-> "active", name |-> r.name,
                                      email |-> r.email, verified |-> FALSE]]

Update(r) ==
    /\ r.op = "update"
    /\ Present(r.user)
    /\ table' = [table EXCEPT
          ![r.user].name = IF r.name = NotGiven THEN @ ELSE r.name,
          ![r.user].email = IF r.email = NotGiven THEN @ ELSE r.email]

Verify(r) ==
    /\ r.op = "verify"
    /\ r.token.purpose = "verify_email"
    /\ Present(r.token.user)
    /\ table' = [table EXCEPT ![r.token.user].verified = TRUE]

Deactivate(r) ==
    /\ r.op = "deactivate"
    /\ Present(r.user)
    /\ table' = [table EXCEPT ![r.user].state = "inactive"]

CarryOut(h) ==
    /\ LET r == pending[h] IN
          \/ \E u \in Users : Register(r, u)
          \/ Update(r) \/ Verify(r) \/ Deactivate(r)
    /\ pending' = [pending EXCEPT ![h] = Nothing]
    /\ Unique'

Next ==
    \E h \in Handlers :
        Drop(h) \/ CarryOut(h) \/ \E r \in Requests : Ask(h, r)

Spec == Init /\ [][Next]_<<table, pending>>

=============================================================================
