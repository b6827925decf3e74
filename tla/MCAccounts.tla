------------------------------ MODULE MCAccounts ------------------------------
(* The instances of Accounts that TLC checks: one user, since no statement    *)
(* touches the rows of two, and the requests each question needs.             *)
EXTENDS Accounts, TLC

CONSTANTS u1, h1, h2, old, new

Logins == [op : {"login"}, user : {u1}, password : {old, new}]
RightLogins == [op : {"login"}, user : {u1}, password : {old}]
WrongLogins == [op : {"login"}, user : {u1}, password : {new}]
Refreshes == [op : {"refresh"}, session : Sessions]
Logouts == [op : {"logout"}, user : {u1}, session : Sessions]
Revocations == [op : {"revoke"}, user : {u1}, session : {1}]
Forgets == [op : {"forgot"}, user : {u1}]
Resets == [op : {"reset"}, link : Links, password : {new}]
Changes == [op : {"change"}, user : {u1}, current : {old}, password : {new}]
Deactivations == [op : {"deactivate"}, user : {u1}]

SessionRequests == RightLogins \cup Refreshes
ResetRequests == SessionRequests \cup Forgets \cup Resets
RaceRequests == ResetRequests \cup Revocations
AllRequests == Logins \cup Refreshes \cup Logouts \cup Revocations \cup Forgets
                   \cup Resets \cup Changes \cup Deactivations

\* Any request can run on any connection.
HandlerSymmetry == Permutations(Handlers)

=============================================================================
