---------------------------- MODULE MCRegistration ----------------------------
(* The instance of Registration that TLC checks: two users can race for one   *)
(* name, take each other's names, and meet in one row.                        *)
EXTENDS Registration, TLC

CONSTANTS h1, h2, n1, n2, e1, e2

Registers == [op : {"register"}, name : {n1}, email : Emails]
                 \cup [op : {"register"}, name : {n2}, email : {e2}]
Renames == [op : {"update"}, user : Users, name : Names, email : {NotGiven}]
Moves == [op : {"update"}, user : {1}, name : {NotGiven}, email : Emails]
Makeovers == [op : {"update"}, user : {1}, name : {n2}, email : {e2}]
Verifications == [op : {"verify"}, token : [purpose : {"verify_email", "access"}, user : {1}]]
Resends == [op : {"resend"}, email : {e1}]
Deactivations == [op : {"deactivate"}, user : {1}]

AllRequests ==
    Registers \cup Renames \cup Moves \cup Makeovers
        \cup Verifications \cup Resends \cup Deactivations

=============================================================================
