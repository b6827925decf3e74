------------------------------ MODULE MCWallets ------------------------------
(* The instance of Wallets that TLC checks: two clients race for one wallet,  *)
(* spelled in two ways, and one of them reads histories of several pages.     *)
EXTENDS Wallets, TLC

CONSTANTS c1, c2, u1, u2, usd, USD

UpperCase == [c \in Spellings |-> USD]

Creations == [op : {"create"}, user : {u1}, currency : Spellings]
                 \cup [op : {"create"}, user : {u2}, currency : {USD}]
Histories == [op : {"history"}, user : {u1}, wallet : Ids, limit : {1, 2}]

EachRequests == (c1 :> Creations \cup Histories) @@ (c2 :> Creations)

Same == Permutations(Moves) \cup Permutations(Ids)

=============================================================================
