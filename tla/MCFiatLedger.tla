---------------------------- MODULE MCFiatLedger ----------------------------
(***************************************************************************)
(* Small instances of FiatLedger for TLC.  Wallets 1 and 2 hold dollars of *)
(* two users, wallet 3 the euros of the first; wallet 9 does not exist.    *)
(***************************************************************************)
EXTENDS FiatLedger, TLC

CONSTANTS h1, h2

MCUsers == {"u1", "u2"}
MCOwner == 1 :> "u1" @@ 2 :> "u2" @@ 3 :> "u1"
MCCurrency == 1 :> "USD" @@ 2 :> "USD" @@ 3 :> "EUR"

Deposit(k, w, user, n) ==
    [op |-> "deposit", from |-> NoWallet, to |-> w, user |-> user,
     amount |-> n, key |-> k]

Withdraw(k, w, user, n) ==
    [op |-> "withdrawal", from |-> w, to |-> NoWallet, user |-> user,
     amount |-> n, key |-> k]

Transfer(k, v, w, user, n) ==
    [op |-> "transfer", from |-> v, to |-> w, user |-> user,
     amount |-> n, key |-> k]

\* Every operation, every refusal, an overflow (a transfer to a wallet
\* that holds 3 already), and the key "c" sent with three different requests.
AllRequests ==
    {Deposit("a", 1, "u1", 3), Deposit("b", 2, "u2", 2),
     Transfer("c", 1, 2, "u1", 1), Transfer("d", 2, 1, "u2", 1),
     Withdraw("c", 1, "u1", 2), Deposit("c", 3, "u1", 2),
     Transfer("d", 1, 3, "u1", 1), Transfer("d", 1, 9, "u1", 1),
     Withdraw("d", 2, "u1", 1), Transfer("d", 2, 2, "u2", 1)}

=============================================================================
