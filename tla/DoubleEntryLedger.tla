-------------------------- MODULE DoubleEntryLedger --------------------------
(***************************************************************************)
(* What the fiat tables promise a client: each idempotency key moves money *)
(* at most once, all at once, between wallets that may take part, and each *)
(* movement is recorded by one transaction and one ledger entry per wallet *)
(* (README, "Core principles").  There are no handlers, locks or retries   *)
(* here; module FiatLedger implements this one.                            *)
(***************************************************************************)
EXTENDS Integers, Sequences

CONSTANTS Wallets, Owner, Currency, Requests, MaxBigint

VARIABLES balance, ledger, transactions

vars == <<balance, ledger, transactions>>

\* The wallets a request moves money of: 0 stands for the outside world.
Parties(r) == {r.from, r.to} \ {0}

\* What a request adds to the balance of a wallet.
Effect(r, w) ==
    IF w \notin Parties(r) THEN 0
    ELSE IF w = r.from THEN -r.amount ELSE r.amount

\* The wallet its owner must ask for: the payer, or a deposit's receiver.
Authority(r) == IF r.from = 0 THEN r.to ELSE r.from

\* A request may be carried out: two distinct parties, wallets that exist and
\* have one currency, the right owner, and balances that stay in range.
Admissible(r) ==
    /\ r.from # r.to
    /\ Parties(r) \subseteq Wallets
    /\ Owner[Authority(r)] = r.user
    /\ \A v, w \in Parties(r) : Currency[v] = Currency[w]
    /\ \A w \in Parties(r) : balance[w] + Effect(r, w) \in 0..MaxBigint

Init ==
    /\ balance = [w \in Wallets |-> 0]
    /\ ledger = [w \in Wallets |-> <<>>]
    /\ transactions = {}

\* A request is carried out, once for its key.
Post(r) ==
    /\ \A t \in transactions : t.key # r.key
    /\ Admissible(r)
    /\ balance' = [w \in Wallets |-> balance[w] + Effect(r, w)]
    /\ ledger' = [w \in Wallets |->
                    IF w \in Parties(r)
                    THEN Append(ledger[w], [key |-> r.key,
                                            amount |-> Effect(r, w),
                                            after |-> balance[w] + Effect(r, w)])
                    ELSE ledger[w]]
    /\ transactions' = transactions \cup
          {[key |-> r.key, type |-> r.op, amount |-> r.amount,
            currency |-> Currency[Authority(r)],
            metadata |-> IF r.op = "transfer" THEN {r.from, r.to} ELSE {}]}

Next == \E r \in Requests : Post(r)

Spec == Init /\ [][Next]_vars

=============================================================================
