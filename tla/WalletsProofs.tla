---------------------------- MODULE WalletsProofs ----------------------------
(***************************************************************************)
(* Proofs about Wallets, for any number of clients, wallets and movements  *)
(* and pages of any size: the inductive invariant, and the properties that *)
(* follow from it.  The heart is Pagination: the position of a movement in *)
(* the history only ever grows, so a client that reads on from where it    *)
(* stopped cannot step over it.                                            *)
(***************************************************************************)
EXTENDS Wallets, FiniteSetTheorems, TLAPS

(* Counting *)

\* Sets of movements are finite, and a smaller one has no more elements.
LEMMA Finite ==
    ASSUME NEW S \in SUBSET Moves, NEW T \in SUBSET S
    PROVE  /\ Cardinality(S) \in Nat
           /\ Cardinality(T) \in Nat
           /\ Cardinality(T) <= Cardinality(S)
           /\ Cardinality(T) = Cardinality(S) => T = S
    <1>1. IsFiniteSet(S)
        BY FS_Subset, MovesAssumption
    <1>2. IsFiniteSet(T)
        BY <1>1, FS_Subset
    <1> QED BY <1>1, <1>2, FS_Subset, FS_CardinalityType

\* Two sets with nothing in common have as many elements together as one by one.
LEMMA Apart ==
    ASSUME NEW S \in SUBSET Moves, NEW T \in SUBSET Moves, S \cap T = {}
    PROVE  Cardinality(S \cup T) = Cardinality(S) + Cardinality(T)
    <1>1. IsFiniteSet(S) /\ IsFiniteSet(T)
        BY FS_Subset, MovesAssumption
    <1>2. Cardinality(S \cup T) = Cardinality(S) + Cardinality(T) - Cardinality({})
        BY <1>1, FS_Union
    <1> QED BY <1>1, <1>2, FS_EmptySet, FS_CardinalityType

\* If m is not among the first n rows of H, there are n before it, all of them
\* newer unless created at the same time.
LEMMA FirstRows ==
    ASSUME NEW H \in SUBSET Moves, NEW n \in Nat, NEW S, First(S, n, H),
           NEW m \in H \ S, \A k \in S : moves[k].at # moves[m].at,
           \A k \in H : moves[k].at \in Nat
    PROVE  Cardinality(S) = n /\ S \subseteq Newer(m, H)
    <1>1. S \subseteq H /\ S # H
        BY DEF First
    <1>2. Cardinality(S) \in Nat /\ Cardinality(H) \in Nat /\ Cardinality(S) # Cardinality(H)
        BY <1>1, Finite
    <1>3. Cardinality(S) = n
        BY <1>2 DEF First
    <1>4. ASSUME NEW k \in S PROVE moves[k].at > moves[m].at
        BY <1>1, <1>4 DEF First
    <1> QED BY <1>1, <1>3, <1>4 DEF Newer

\* A movement with at least o newer ones is on the page at o, or has at least o + n
\* newer ones.
LEMMA Pagination ==
    ASSUME NEW H \in SUBSET Moves, NEW o \in Nat, NEW n \in Nat, NEW S, NEW P,
           First(S, o, H), First(P, n, H \ S),
           NEW m \in H \ P, \A k \in H \ {m} : moves[k].at # moves[m].at,
           \A k \in H : moves[k].at \in Nat,
           Cardinality(Newer(m, H)) >= o
    PROVE  Cardinality(Newer(m, H)) >= o + n
    <1>0. S \subseteq H /\ P \subseteq H \ S /\ Newer(m, H) \subseteq H
        BY DEF First, Newer
    <1>1. m \notin S
        <2> SUFFICES ASSUME m \in S PROVE FALSE
            OBVIOUS
        <2>1. Newer(m, H) \subseteq S
            BY <1>0 DEF Newer, First
        <2>2. m \notin Newer(m, H)
            BY DEF Newer
        <2>3. Newer(m, H) # S
            BY <2>2
        <2>4. S \in SUBSET Moves
            BY <1>0
        <2>5. /\ Cardinality(S) \in Nat /\ Cardinality(Newer(m, H)) \in Nat
              /\ Cardinality(Newer(m, H)) <= Cardinality(S)
              /\ Cardinality(Newer(m, H)) # Cardinality(S)
            BY <2>1, <2>3, <2>4, Finite
        <2>6. Cardinality(S) <= o
            <3>1. Cardinality(H) \in Nat
                BY Finite
            <3> QED BY <3>1 DEF First
        <2> QED BY <2>5, <2>6
    <1>2. Cardinality(S) = o /\ S \subseteq Newer(m, H)
        <2>1. m \in H \ S
            BY <1>1
        <2>2. \A k \in S : moves[k].at # moves[m].at
            BY <1>0, <2>1
        <2> QED BY <2>1, <2>2, FirstRows
    <1>3. Cardinality(P) = n /\ P \subseteq Newer(m, H \ S)
        <2>1. H \ S \in SUBSET Moves /\ m \in (H \ S) \ P
            BY <1>1
        <2>2. \A k \in P : moves[k].at # moves[m].at
            BY <1>0
        <2> QED BY <2>1, <2>2, FirstRows
    <1>4. S \cup P \subseteq Newer(m, H) /\ Newer(m, H) \subseteq Moves
        BY <1>0, <1>2, <1>3 DEF Newer
    <1>5. Cardinality(S \cup P) = o + n
        <2>1. S \in SUBSET Moves /\ P \in SUBSET Moves /\ S \cap P = {}
            BY <1>0
        <2> QED BY <1>2, <1>3, <2>1, Apart
    <1>6. /\ Cardinality(S \cup P) <= Cardinality(Newer(m, H))
          /\ Cardinality(Newer(m, H)) \in Nat
        BY <1>4, Finite
    <1> QED BY <1>5, <1>6

\* A page that is not empty ends within the history.
LEMMA PageFits ==
    ASSUME NEW H \in SUBSET Moves, NEW o \in Nat, NEW n \in Nat, NEW S, NEW P,
           First(S, o, H), First(P, n, H \ S), P # {}
    PROVE  o + Cardinality(P) <= Cardinality(H)
    <1>1. S \subseteq H /\ P \subseteq H \ S /\ S # H
        BY DEF First
    <1>2. S \in SUBSET Moves /\ P \in SUBSET Moves /\ S \cap P = {} /\ S \cup P \in SUBSET H
        BY <1>1
    <1>3. /\ Cardinality(S) \in Nat /\ Cardinality(H) \in Nat /\ Cardinality(P) \in Nat
          /\ Cardinality(S) # Cardinality(H)
          /\ Cardinality(S \cup P) <= Cardinality(H)
        BY <1>1, <1>2, Finite
    <1>4. Cardinality(S) = o
        BY <1>3 DEF First
    <1> QED BY <1>2, <1>3, <1>4, Apart

-----------------------------------------------------------------------------
(* Steps that keep the movements *)

\* What a client may rely on as long as it does nothing itself.
Reads(c) ==
    /\ RequestFollowsCode(c)
    /\ ReadInOrder(c)
    /\ pc[c] = "answered" /\ req[c].op = "history" /\ ~MoreToRead(c) =>
          \A m \in before[c] : Alone(m, req[c].wallet) => m \in seen[c]
    /\ pc[c] = "answered" /\ page[c].items # {} =>
          page[c].total >= page[c].offset + Cardinality(page[c].items)

\* The invariant, client by client.
LEMMA ByClient ==
    Inductive <=> /\ TypeOK
                  /\ \A c \in Clients : Reads(c) /\ DraftIsOwn(c)
                  /\ CreateLeavesWallet
    BY DEF Inductive, Reads, PagesCoverHistory, TotalCoversPage

\* The same after a step.
LEMMA ByClientNext ==
    Inductive' <=> /\ TypeOK'
                   /\ \A c \in Clients : Reads(c)' /\ DraftIsOwn(c)'
                   /\ CreateLeavesWallet'
    BY DEF Inductive, Reads, PagesCoverHistory, TotalCoversPage

\* A request is one of its client's, and its fields are of their types.
LEMMA RequestFields ==
    ASSUME TypeOK, NEW c \in Clients
    PROVE  /\ req[c].op \in {"create", "history", "none"}
           /\ req[c].op = "create" => /\ Wanted(req[c]) \in [user : Users, currency : Spellings]
                                      /\ Wanted(req[c]) # NoWallet
           /\ req[c].op = "history" => /\ req[c].user \in Users
                                       /\ req[c].wallet \in Ids
                                       /\ req[c].limit \in Nat \ {0}
    <1>1. CASE req[c] = Nothing
        BY <1>1 DEF Nothing
    <1>2. CASE req[c] \in RequestType
        <2>1. req[c].op = "create" => req[c].user \in Users /\ Upper[req[c].currency] \in Spellings
            BY <1>2, UpperAssumption DEF RequestType
        <2> QED BY <1>2, <2>1, IdsAssumption DEF RequestType, Wanted, NoWallet
    <1> QED BY <1>1, <1>2 DEF TypeOK

\* The history of a wallet is a set of movements with a time each.
LEMMA HistoryIsFinite ==
    ASSUME TypeOK, NEW w
    PROVE  /\ History(w) \in SUBSET Moves
           /\ Cardinality(History(w)) \in Nat
           /\ \A m \in History(w) : moves[m].at \in Nat
           /\ \A m : /\ Newer(m, History(w)) \in SUBSET History(w)
                     /\ Cardinality(Newer(m, History(w))) \in Nat
                     /\ m \in History(w) =>
                           Cardinality(Newer(m, History(w))) < Cardinality(History(w))
    <1>1. History(w) \in SUBSET Moves /\ \A m \in History(w) : moves[m].at \in Nat
        BY DEF History, TypeOK
    <1>2. Cardinality(History(w)) \in Nat
        BY <1>1, Finite
    <1>3. ASSUME NEW m
          PROVE  /\ Newer(m, History(w)) \in SUBSET History(w)
                 /\ Cardinality(Newer(m, History(w))) \in Nat
                 /\ m \in History(w) =>
                       Cardinality(Newer(m, History(w))) < Cardinality(History(w))
        <2>1. Newer(m, History(w)) \in SUBSET History(w)
            BY DEF Newer
        <2>2. m \in History(w) => Newer(m, History(w)) # History(w)
            BY <1>1 DEF Newer
        <2>3. /\ Cardinality(Newer(m, History(w))) \in Nat
              /\ Cardinality(Newer(m, History(w))) <= Cardinality(History(w))
              /\ Cardinality(Newer(m, History(w))) = Cardinality(History(w))
                    => Newer(m, History(w)) = History(w)
            BY <1>1, <2>1, Finite
        <2> QED BY <1>2, <2>1, <2>2, <2>3
    <1> QED BY <1>1, <1>2, <1>3

\* A client that does nothing, while nothing is entered in the ledger, still knows
\* what it knew.
LEMMA IdleReads ==
    ASSUME NEW c \in Clients, Reads(c), UNCHANGED moves,
           pc'[c] = pc[c], req'[c] = req[c], page'[c] = page[c],
           before'[c] = before[c], seen'[c] = seen[c]
    PROVE  Reads(c)'
    BY DEF Reads, RequestFollowsCode, ReadInOrder, MoreToRead, Alone, History, Newer, Read

\* The same for its draft, when no wallet and no draft changes.
LEMMA IdleDraft ==
    ASSUME TypeOK, \A c \in Clients : DraftIsOwn(c) /\ RequestFollowsCode(c),
           UNCHANGED <<wallets, draft>>, NEW d \in Clients,
           \A c \in Clients \ {d} : pc'[c] = pc[c] /\ req'[c] = req[c],
           draft[d] = NoId, pc'[d] # "commit"
    PROVE  \A c \in Clients : DraftIsOwn(c)'
    BY DEF DraftIsOwn, Exists, Blocked

\* A client that starts, or has finished, knows nothing.
LEMMA ForgetKeeps ==
    ASSUME Inductive, NEW c \in Clients, Forget(c), UNCHANGED <<wallets, moves, now>>
    PROVE  Inductive'
    <1> USE ByClient
    <1>1. TypeOK'
        BY DEF TypeOK, Forget, Goto, Labels, NoPage
    <1>2. /\ pc'[c] = "idle" /\ req'[c] = Nothing /\ draft'[c] = NoId /\ page'[c] = NoPage
          /\ before'[c] = {}
          /\ \A d \in Clients \ {c} :
                /\ pc'[d] = pc[d] /\ req'[d] = req[d] /\ draft'[d] = draft[d]
                /\ page'[d] = page[d] /\ before'[d] = before[d] /\ seen'[d] = seen[d]
        BY DEF Forget, Goto, TypeOK
    <1>3. Reads(c)'
        BY <1>2 DEF Reads, RequestFollowsCode, ReadInOrder, Nothing, NoPage
    <1>4. \A d \in Clients \ {c} : Reads(d)'
        BY <1>2, IdleReads
    <1>5. \A d \in Clients : DraftIsOwn(d)'
        BY <1>2 DEF DraftIsOwn, Exists, Blocked
    <1>6. CreateLeavesWallet'
        BY <1>2 DEF CreateLeavesWallet, Exists
    <1> QED BY <1>1, <1>3, <1>4, <1>5, <1>6, ByClientNext

-----------------------------------------------------------------------------
(* One lemma for each kind of step *)

LEMMA InitInductive == Init => Inductive
    <1> SUFFICES ASSUME Init PROVE Inductive
        OBVIOUS
    <1>1. TypeOK
        BY DEF Init, TypeOK, Labels, NoMove, NoPage, Nothing
    <1>2. \A c \in Clients : Reads(c) /\ DraftIsOwn(c)
        BY DEF Init, Reads, RequestFollowsCode, ReadInOrder, DraftIsOwn, Nothing, NoPage
    <1>3. CreateLeavesWallet
        BY DEF Init, CreateLeavesWallet
    <1> QED BY <1>1, <1>2, <1>3, ByClient

\* A new request knows nothing yet.
LEMMA AskKeeps ==
    ASSUME Inductive, NEW c \in Clients, NEW r \in Requests[c], Ask(c, r)
    PROVE  Inductive'
    <1> USE ByClient DEF Ask
    <1>0. r \in RequestType /\ r.op \in {"create", "history"}
        BY RequestsAssumption DEF RequestType
    <1>1. /\ pc[c] = "idle" /\ req[c] = Nothing /\ page[c] = NoPage
          /\ pc'[c] = IF r.op = "create" THEN "find" ELSE "owner"
          /\ req'[c] = r /\ draft[c] = NoId
          /\ \A d \in Clients \ {c} : pc'[d] = pc[d] /\ req'[d] = req[d]
        BY DEF Goto, TypeOK, RequestFollowsCode, Reads, DraftIsOwn, Nothing
    <1>2. TypeOK'
        BY <1>0 DEF TypeOK, Goto, Labels
    <1>3. Reads(c)'
        <2>1. r # Nothing
            BY <1>0 DEF Nothing
        <2>2. before[c] = {}
            BY <1>1 DEF Reads, RequestFollowsCode, Nothing
        <2> QED BY <1>0, <1>1, <2>1, <2>2
                DEF Reads, RequestFollowsCode, ReadInOrder, NoPage
    <1>4. \A d \in Clients \ {c} : Reads(d)'
        BY <1>1, IdleReads
    <1>5. \A d \in Clients : DraftIsOwn(d)'
        BY <1>1, IdleDraft DEF Reads
    <1>6. CreateLeavesWallet'
        BY <1>1 DEF CreateLeavesWallet, Exists
    <1> QED BY <1>2, <1>3, <1>4, <1>5, <1>6, ByClientNext

\* create_wallet up to its INSERT, and the answer to one that came too late.
LEMMA CreateKeeps ==
    ASSUME Inductive, NEW c \in Clients, Find(c) \/ Insert(c) \/ Collide(c)
    PROVE  Inductive'
    <1> USE ByClient
    <1>1. /\ pc[c] \in {"find", "insert"} /\ req[c].op = "create" /\ draft[c] = NoId
          /\ page[c] = NoPage /\ before[c] = {}
          /\ pc'[c] \in {"insert", "commit", "answered"}
          /\ UNCHANGED <<wallets, moves, now, req, page, before, seen>>
          /\ \A d \in Clients \ {c} : pc'[d] = pc[d] /\ draft'[d] = draft[d]
        BY DEF Find, Insert, Collide, Goto, TypeOK, Reads, RequestFollowsCode, DraftIsOwn
    <1>2. TypeOK'
        BY DEF TypeOK, Find, Insert, Collide, Goto, Labels, Unused
    <1>3. Reads(c)'
        BY <1>1 DEF Reads, RequestFollowsCode, ReadInOrder, NoPage, Nothing
    <1>4. \A d \in Clients \ {c} : Reads(d)'
        BY <1>1, IdleReads
    <1>5. \A d \in Clients : DraftIsOwn(d)'
        <2>1. CASE Find(c) \/ Collide(c)
            <3>1. UNCHANGED draft /\ pc'[c] # "commit"
                BY <2>1 DEF Find, Collide, Goto, TypeOK
            <3> QED BY <1>1, <3>1, IdleDraft DEF Reads
        <2>2. CASE Insert(c)
            <3>1. /\ draft'[c] \in Unused /\ ~Blocked(c) /\ ~Exists(Wanted(req[c]))
                  /\ pc'[c] = "commit"
                BY <2>2 DEF Insert, Goto, TypeOK
            <3>2. draft'[c] # NoId /\ wallets[draft'[c]] = NoWallet
                BY <3>1, IdsAssumption DEF Unused
            <3>3. \A d \in Clients \ {c} :
                     draft[d] # NoId => Wanted(req[d]) # Wanted(req[c]) /\ draft[d] # draft'[c]
                BY <3>1 DEF Blocked, Unused
            <3>4. DraftIsOwn(c)'
                BY <1>1, <3>1, <3>2, <3>3 DEF DraftIsOwn, Exists, Blocked
            <3>5. \A d \in Clients \ {c} : DraftIsOwn(d)'
                BY <1>1, <3>2, <3>3 DEF DraftIsOwn, Exists, Blocked
            <3> QED BY <3>4, <3>5
        <2> QED BY <2>1, <2>2
    <1>6. CreateLeavesWallet'
        <2>1. pc'[c] = "answered" => Exists(Wanted(req[c]))
            BY <1>1 DEF Find, Insert, Collide, Goto, TypeOK
        <2> QED BY <1>1, <2>1 DEF CreateLeavesWallet, Exists
    <1> QED BY <1>2, <1>3, <1>4, <1>5, <1>6, ByClientNext

\* The wallet is there, and nobody else had drafted the row or its id.
LEMMA CommitKeeps ==
    ASSUME Inductive, NEW c \in Clients, Commit(c)
    PROVE  Inductive'
    <1> USE ByClient
    <1> DEFINE row == Wanted(req[c])
    <1>1. /\ pc[c] = "commit" /\ req[c].op = "create" /\ draft[c] \in Ids /\ draft[c] # NoId
          /\ page[c] = NoPage /\ before[c] = {}
          /\ pc'[c] = "answered" /\ draft'[c] = NoId
          /\ UNCHANGED <<moves, now, req, page, before, seen>>
          /\ \A d \in Clients \ {c} : pc'[d] = pc[d] /\ draft'[d] = draft[d]
        BY DEF Commit, Goto, TypeOK, Reads, RequestFollowsCode, DraftIsOwn
    <1>2. /\ wallets[draft[c]] = NoWallet /\ ~Exists(row)
          /\ \A d \in Clients \ {c} :
                draft[d] # NoId => Wanted(req[d]) # row /\ draft[d] # draft[c]
        BY <1>1 DEF DraftIsOwn, Blocked
    <1>3. row \in [user : Users, currency : Spellings] /\ row # NoWallet
        BY <1>1, RequestFields
    <1>4. wallets' = [wallets EXCEPT ![draft[c]] = row]
        BY DEF Commit
    <1>5. /\ wallets'[draft[c]] = row
          /\ \A w \in Ids \ {draft[c]} : wallets'[w] = wallets[w]
        BY <1>1, <1>4 DEF TypeOK
    <1>6. TypeOK'
        BY <1>1, <1>3, <1>4 DEF TypeOK, Commit, Goto, Labels
    <1>7. Reads(c)'
        BY <1>1 DEF Reads, RequestFollowsCode, ReadInOrder, NoPage, Nothing
    <1>8. \A d \in Clients \ {c} : Reads(d)'
        BY <1>1, IdleReads
    <1> HIDE DEF row
    <1>9. \A d \in Clients : DraftIsOwn(d)'
        <2>1. DraftIsOwn(c)'
            BY <1>1 DEF DraftIsOwn
        <2>2. ASSUME NEW d \in Clients \ {c} PROVE DraftIsOwn(d)'
            <3>1. draft[d] # NoId => /\ draft[d] \in Ids \ {draft[c]}
                                     /\ \A w \in Ids : wallets'[w] # Wanted(req[d])
                BY <1>2, <1>5, <2>2 DEF DraftIsOwn, Exists, TypeOK
            <3> QED BY <1>1, <1>5, <2>2, <3>1 DEF DraftIsOwn, Exists, Blocked
        <2> QED BY <2>1, <2>2
    <1>10. CreateLeavesWallet'
        <2>1. \A v, w \in Ids : wallets'[v] = wallets'[w] /\ wallets'[v] # NoWallet => v = w
            BY <1>2, <1>3, <1>5 DEF CreateLeavesWallet, Exists
        <2>2. Exists(Wanted(req[c]))'
            BY <1>1, <1>5 DEF Exists, row
        <2>3. ASSUME NEW d \in Clients \ {c}, pc[d] = "answered", req[d].op = "create"
              PROVE  Exists(Wanted(req[d]))'
            <3>1. PICK w \in Ids : wallets[w] = Wanted(req[d])
                BY <2>3 DEF CreateLeavesWallet, Exists
            <3>2. Wanted(req[d]) # NoWallet
                BY <2>3, RequestFields
            <3> QED BY <1>1, <1>2, <1>5, <3>1, <3>2 DEF Exists
        <2> QED BY <1>1, <2>1, <2>2, <2>3 DEF CreateLeavesWallet
    <1> QED BY <1>6, <1>7, <1>8, <1>9, <1>10, ByClientNext

\* list_transactions up to its first page and on to the next one: the offset grows
\* by what has been read.
LEMMA TurnKeeps ==
    ASSUME Inductive, NEW c \in Clients,
           (CheckOwner(c) /\ ~Forget(c)) \/ NextPage(c)
    PROVE  Inductive'
    <1> USE ByClient
    <1>0. /\ req[c].op = "history" /\ req[c].limit \in Nat \ {0}
          /\ page[c].offset \in Nat
        BY RequestFields DEF CheckOwner, NextPage, MoreToRead, TypeOK, Reads, RequestFollowsCode
    <1>1. /\ pc[c] \in {"owner", "answered"} /\ draft[c] = NoId
          /\ pc'[c] = IF pc[c] = "owner" THEN "items" ELSE "owner"
          /\ UNCHANGED <<wallets, draft, moves, now, req, before, seen>>
          /\ \A d \in Clients \ {c} : pc'[d] = pc[d] /\ page'[d] = page[d]
        BY DEF CheckOwner, NextPage, Goto, TypeOK, DraftIsOwn
    <1>2. page'[c].offset = IF pc[c] = "owner" THEN page[c].offset
                            ELSE page[c].offset + req[c].limit
        BY <1>0 DEF CheckOwner, NextPage, TypeOK
    <1>3. TypeOK'
        <2>1. page' \in [Clients -> [offset : Nat, items : SUBSET Moves, total : Nat]]
            <3>1. page[c].offset + req[c].limit \in Nat
                BY <1>0
            <3>2. [page[c] EXCEPT !.offset = @ + req[c].limit]
                      \in [offset : Nat, items : SUBSET Moves, total : Nat]
                BY <3>1 DEF TypeOK
            <3>3. CASE NextPage(c)
                BY <3>2, <3>3 DEF TypeOK, NextPage
            <3>4. CASE CheckOwner(c) /\ ~Forget(c)
                BY <3>4 DEF TypeOK, CheckOwner
            <3> QED BY <3>3, <3>4
        <2>2. pc' \in [Clients -> Labels]
            BY DEF TypeOK, CheckOwner, NextPage, Goto, Labels
        <2> QED BY <1>1, <2>1, <2>2 DEF TypeOK
    <1>4. Reads(c)'
        <2>1. Read(c)' = Read(c)
            BY <1>0, <1>1, <1>2 DEF Read
        <2>2. ReadInOrder(c)'
            <3>1. \A m : Newer(m, History(req[c].wallet))' = Newer(m, History(req[c].wallet))
                BY <1>1 DEF Newer, History
            <3>2. History(req[c].wallet)' = History(req[c].wallet)
                BY <1>1 DEF History
            <3>3. \A m : Alone(m, req[c].wallet)' <=> Alone(m, req[c].wallet)
                BY <1>1 DEF Alone, History
            <3> QED BY <1>0, <1>1, <2>1, <3>1, <3>2, <3>3 DEF Reads, ReadInOrder
        <2>3. RequestFollowsCode(c)'
            BY <1>0, <1>1 DEF Reads, RequestFollowsCode
        <2> QED BY <1>1, <2>2, <2>3 DEF Reads
    <1>5. \A d \in Clients \ {c} : Reads(d)'
        BY <1>1, IdleReads
    <1>6. \A d \in Clients : DraftIsOwn(d)'
        BY <1>1, IdleDraft DEF Reads
    <1>7. CreateLeavesWallet'
        BY <1>1 DEF CreateLeavesWallet, Exists
    <1> QED BY <1>3, <1>4, <1>5, <1>6, <1>7, ByClientNext

\* A page is read: Pagination.
LEMMA ReadItemsKeeps ==
    ASSUME Inductive, NEW c \in Clients, ReadItems(c)
    PROVE  Inductive'
    <1> USE ByClient
    <1>0. PICK H : H = History(req[c].wallet)
        OBVIOUS
    <1>1. /\ pc[c] = "items" /\ req[c].op = "history" /\ req[c].limit \in Nat \ {0}
          /\ page[c].offset \in Nat /\ draft[c] = NoId /\ pc'[c] = "total"
          /\ UNCHANGED <<wallets, draft, moves, now, req>>
          /\ \A d \in Clients \ {c} : /\ pc'[d] = pc[d] /\ page'[d] = page[d]
                                      /\ before'[d] = before[d] /\ seen'[d] = seen[d]
        BY RequestFields DEF ReadItems, Goto, TypeOK, DraftIsOwn, Reads, RequestFollowsCode
    <1>2. PICK skipped \in SUBSET H, items \in SUBSET H :
             /\ First(skipped, page[c].offset, H)
             /\ First(items, req[c].limit, H \ skipped)
             /\ page' = [page EXCEPT ![c].items = items]
             /\ seen' = [seen EXCEPT ![c] = @ \cup items]
        BY <1>0 DEF ReadItems
    <1>3. /\ page'[c].offset = page[c].offset /\ page'[c].items = items
          /\ seen'[c] = seen[c] \cup items
          /\ before'[c] = IF page[c].offset = 0 THEN H ELSE before[c]
        BY <1>0, <1>2 DEF ReadItems, TypeOK
    <1>4. /\ H \in SUBSET Moves /\ \A k \in H : moves[k].at \in Nat
          /\ \A m : Cardinality(Newer(m, H)) \in Nat
        BY <1>0, HistoryIsFinite
    <1>5. TypeOK'
        BY <1>0, <1>1, <1>2, <1>4 DEF TypeOK, ReadItems, Goto, Labels
    <1>6. before'[c] \subseteq H
        BY <1>0, <1>1, <1>3 DEF Reads, ReadInOrder
    <1>7. ASSUME NEW m \in before'[c], m \notin seen'[c],
                 \A k \in H \ {m} : moves[k].at # moves[m].at
          PROVE  Cardinality(Newer(m, H)) >= page[c].offset + req[c].limit
        <2>1. Cardinality(Newer(m, H)) >= page[c].offset
            <3>1. CASE page[c].offset = 0
                BY <1>4, <3>1
            <3>2. CASE page[c].offset # 0
                <4>1. m \in before[c] /\ m \notin seen[c]
                    BY <1>3, <1>7, <3>2
                <4>2. Alone(m, req[c].wallet)
                    BY <1>0, <1>7 DEF Alone
                <4>3. Read(c) = page[c].offset
                    BY <1>1 DEF Read
                <4> QED BY <1>0, <1>1, <4>1, <4>2, <4>3 DEF Reads, ReadInOrder
            <3> QED BY <3>1, <3>2
        <2>2. m \in H \ items
            BY <1>3, <1>6, <1>7
        <2> QED BY <1>1, <1>2, <1>4, <1>7, <2>1, <2>2, Pagination
    <1>8. items # {} => page[c].offset + Cardinality(items) <= Cardinality(H)
        BY <1>1, <1>2, <1>4, PageFits
    <1>9. Reads(c)'
        <2>1. Read(c)' = page[c].offset + req[c].limit
            BY <1>1, <1>3 DEF Read
        <2>2. H = History(req[c].wallet)'
            BY <1>0, <1>1 DEF History
        <2>3. \A m : Newer(m, H)' = Newer(m, H)
            BY <1>1 DEF Newer
        <2>4. ReadInOrder(c)'
            BY <1>1, <1>3, <1>6, <1>7, <1>8, <2>1, <2>2, <2>3 DEF ReadInOrder, Alone
        <2>5. RequestFollowsCode(c)'
            BY <1>1 DEF RequestFollowsCode, Nothing
        <2> QED BY <1>1, <2>4, <2>5 DEF Reads
    <1>10. \A d \in Clients \ {c} : Reads(d)'
        BY <1>1, IdleReads
    <1>11. \A d \in Clients : DraftIsOwn(d)'
        BY <1>1, IdleDraft DEF Reads
    <1>12. CreateLeavesWallet'
        BY <1>1 DEF CreateLeavesWallet, Exists
    <1> QED BY <1>5, <1>9, <1>10, <1>11, <1>12, ByClientNext

\* The total counts the history as it is now: what has been read of it, and, if
\* there is no more, everything that was in it before.
LEMMA ReadTotalKeeps ==
    ASSUME Inductive, NEW c \in Clients, ReadTotal(c)
    PROVE  Inductive'
    <1> USE ByClient
    <1>0. PICK H : H = History(req[c].wallet)
        OBVIOUS
    <1>1. /\ pc[c] = "total" /\ req[c].op = "history" /\ req[c].limit \in Nat \ {0}
          /\ page[c].offset \in Nat /\ draft[c] = NoId /\ pc'[c] = "answered"
          /\ UNCHANGED <<wallets, draft, moves, now, req, before, seen>>
          /\ \A d \in Clients \ {c} : pc'[d] = pc[d] /\ page'[d] = page[d]
        BY RequestFields DEF ReadTotal, Goto, TypeOK, DraftIsOwn, Reads, RequestFollowsCode
    <1>2. /\ H \in SUBSET Moves /\ Cardinality(H) \in Nat
          /\ \A m : Cardinality(Newer(m, H)) \in Nat
          /\ \A m \in H : Cardinality(Newer(m, H)) < Cardinality(H)
        BY <1>0, HistoryIsFinite
    <1>3. page' = [page EXCEPT ![c].total = Cardinality(H)]
        BY <1>0 DEF ReadTotal, Count
    <1>4. /\ page'[c].offset = page[c].offset /\ page'[c].items = page[c].items
          /\ page'[c].total = Cardinality(H)
        BY <1>3 DEF TypeOK
    <1>5. TypeOK'
        BY <1>1, <1>2, <1>3 DEF TypeOK, ReadTotal, Goto, Labels
    <1>6. Reads(c)'
        <2>1. Read(c)' = Read(c) /\ Read(c) = page[c].offset + req[c].limit
            BY <1>1, <1>4 DEF Read
        <2>2. /\ History(req[c].wallet)' = H
              /\ \A m : Newer(m, H)' = Newer(m, H)
              /\ \A m : Alone(m, req[c].wallet)' <=> Alone(m, req[c].wallet)
            BY <1>0, <1>1 DEF History, Newer, Alone
        <2>3. ReadInOrder(c)'
            BY <1>0, <1>1, <1>4, <2>1, <2>2 DEF Reads, ReadInOrder
        <2>4. RequestFollowsCode(c)'
            BY <1>1 DEF RequestFollowsCode, Nothing
        <2>5. ASSUME NEW m \in before[c], ~MoreToRead(c)', Alone(m, req[c].wallet)
              PROVE  m \in seen[c]
            <3>1. page[c].offset + req[c].limit >= Cardinality(H)
                BY <1>1, <1>2, <1>4, <2>5 DEF MoreToRead
            <3>2. m \in H
                BY <1>0, <1>1 DEF Reads, ReadInOrder
            <3>3. m \notin seen[c] => Cardinality(Newer(m, H)) >= Read(c)
                BY <1>0, <1>1, <2>5 DEF Reads, ReadInOrder
            <3> QED BY <1>1, <1>2, <2>1, <3>1, <3>2, <3>3
        <2>6. page[c].items # {} => Cardinality(H) >= page[c].offset + Cardinality(page[c].items)
            <3>1. page[c].items \in SUBSET Moves
                BY DEF TypeOK
            <3>2. Cardinality(page[c].items) \in Nat
                BY <3>1, Finite
            <3>3. page[c].items # {} =>
                     page[c].offset + Cardinality(page[c].items) <= Cardinality(H)
                BY <1>0, <1>1 DEF Reads, ReadInOrder
            <3> QED BY <1>1, <1>2, <3>2, <3>3
        <2> QED BY <1>1, <1>4, <2>2, <2>3, <2>4, <2>5, <2>6 DEF Reads
    <1>7. \A d \in Clients \ {c} : Reads(d)'
        BY <1>1, IdleReads
    <1>8. \A d \in Clients : DraftIsOwn(d)'
        BY <1>1, IdleDraft DEF Reads
    <1>9. CreateLeavesWallet'
        BY <1>1 DEF CreateLeavesWallet, Exists
    <1> QED BY <1>5, <1>6, <1>7, <1>8, <1>9, ByClientNext

\* A movement that begins or ends, early or late: no position in the history shrinks.
LEMMA LedgerKeeps ==
    ASSUME Inductive, NEW m \in Moves, Ledger(m)
    PROVE  Inductive'
    <1> USE ByClient
    <1>1. /\ moves[m].state # "committed"
          /\ UNCHANGED <<wallets, draft, now, pc, req, page, before, seen>>
          /\ \A k \in Moves \ {m} : moves'[k] = moves[k]
        BY DEF Ledger, EndMove, BeginMove, TypeOK
    <1>2. TypeOK'
        <2>1. moves' \in [Moves -> [state : {"none", "open", "committed"},
                                    wallets : SUBSET Ids, at : Nat]]
            <3>1. CASE EndMove(m)
                <4>1. {NoMove, [moves[m] EXCEPT !.state = "committed"]}
                          \subseteq [state : {"none", "open", "committed"},
                                     wallets : SUBSET Ids, at : Nat]
                    BY DEF TypeOK, NoMove
                <4> QED BY <3>1, <4>1 DEF EndMove, TypeOK
            <3>2. ASSUME NEW v \in Ids, NEW w \in Ids, BeginMove(m, {v, w})
                  PROVE  moves' \in [Moves -> [state : {"none", "open", "committed"},
                                               wallets : SUBSET Ids, at : Nat]]
                <4>1. {v, w} \in SUBSET Ids /\ now \in Nat
                    BY DEF TypeOK
                <4>2. [state |-> "open", wallets |-> {v, w}, at |-> now]
                          \in [state : {"none", "open", "committed"},
                               wallets : SUBSET Ids, at : Nat]
                    BY <4>1
                <4> QED BY <3>2, <4>2 DEF BeginMove, TypeOK
            <3> QED BY <3>1, <3>2 DEF Ledger
        <2> QED BY <1>1, <2>1 DEF TypeOK
    <1>3. \A w : \A k \in History(w) : k \in History(w)' /\ moves'[k] = moves[k]
        BY <1>1 DEF History
    <1>4. ASSUME NEW c \in Clients PROVE Reads(c)'
        <2>0. PICK w, H, G : /\ w = req[c].wallet /\ H = History(w)
                             /\ G = {k \in Moves : moves'[k].state = "committed"
                                                   /\ w \in moves'[k].wallets}
            OBVIOUS
        <2>1. History(req[c].wallet)' = G /\ H \subseteq G /\ G \subseteq Moves
            BY <1>1, <1>3, <2>0 DEF History
        <2>2. Cardinality(H) \in Nat /\ Cardinality(G) \in Nat
              /\ Cardinality(H) <= Cardinality(G)
            BY <2>1, Finite
        <2>3. ASSUME NEW k \in H
              PROVE  /\ Alone(k, req[c].wallet)' => Alone(k, req[c].wallet)
                     /\ Cardinality(Newer(k, G)') \in Nat
                     /\ Cardinality(Newer(k, H)) \in Nat
                     /\ Cardinality(Newer(k, G)') >= Cardinality(Newer(k, H))
            <3>1. Newer(k, H) \subseteq Newer(k, G)' /\ Newer(k, G)' \subseteq Moves
                BY <1>3, <2>0, <2>1, <2>3 DEF Newer
            <3>2. Alone(k, req[c].wallet)' => Alone(k, req[c].wallet)
                BY <1>1, <1>3, <2>0, <2>1, <2>3 DEF Alone
            <3> QED BY <3>1, <3>2, Finite
        <2>4. Read(c)' = Read(c) /\ (req[c].op = "history" => Read(c) \in Nat)
            BY <1>1, RequestFields DEF Read, TypeOK
        <2>5. Cardinality(page[c].items) \in Nat /\ page[c].offset \in Nat
            <3>1. page[c].items \in SUBSET Moves /\ page[c].offset \in Nat
                BY DEF TypeOK
            <3> QED BY <3>1, Finite
        <2>6. ReadInOrder(c)'
            <3> SUFFICES ASSUME req[c].op = "history" PROVE ReadInOrder(c)'
                BY <1>1 DEF ReadInOrder
            <3>1. /\ before[c] \subseteq H
                  /\ Read(c) = 0 => before[c] = {}
                  /\ \A k \in before[c] : Alone(k, req[c].wallet) /\ k \notin seen[c]
                        => Cardinality(Newer(k, H)) >= Read(c)
                  /\ pc[c] \in {"total", "answered"} /\ page[c].items # {} =>
                        page[c].offset + Cardinality(page[c].items) <= Cardinality(H)
                BY <2>0 DEF Reads, ReadInOrder
            <3>2. \A k \in before[c] : Alone(k, req[c].wallet)' /\ k \notin seen[c]
                     => Cardinality(Newer(k, G)') >= Read(c)
                BY <2>3, <2>4, <3>1
            <3>3. pc[c] \in {"total", "answered"} /\ page[c].items # {} =>
                     page[c].offset + Cardinality(page[c].items) <= Cardinality(G)
                BY <2>2, <2>5, <3>1
            <3> QED BY <1>1, <2>1, <2>4, <3>1, <3>2, <3>3 DEF ReadInOrder
        <2>7. RequestFollowsCode(c)'
            BY <1>1 DEF Reads, RequestFollowsCode
        <2>8. ~MoreToRead(c)' => ~MoreToRead(c)
            BY <1>1 DEF MoreToRead
        <2>9. req[c].op = "history" => before[c] \subseteq H
            BY <2>0 DEF Reads, ReadInOrder
        <2> QED BY <1>1, <2>3, <2>6, <2>7, <2>8, <2>9 DEF Reads
    <1>5. \A c \in Clients : DraftIsOwn(c)'
        BY <1>1 DEF DraftIsOwn, Exists, Blocked
    <1>6. CreateLeavesWallet'
        BY <1>1 DEF CreateLeavesWallet, Exists
    <1> QED BY <1>2, <1>4, <1>5, <1>6, ByClientNext

LEMMA TickKeeps ==
    ASSUME Inductive, Tick
    PROVE  Inductive'
    <1> USE ByClient DEF Tick
    <1>1. TypeOK'
        BY DEF TypeOK
    <1>2. \A c \in Clients : Reads(c)'
        BY IdleReads
    <1>3. \A c \in Clients : DraftIsOwn(c)'
        BY DEF DraftIsOwn, Exists, Blocked
    <1>4. CreateLeavesWallet'
        BY DEF CreateLeavesWallet, Exists
    <1> QED BY <1>1, <1>2, <1>3, <1>4, ByClientNext

-----------------------------------------------------------------------------
(* The theorems *)

\* The inductive invariant holds in every reachable state, whatever wallets are
\* created and whatever money moves while pages are read.
THEOREM InductiveInvariant == Spec => []Inductive
    <1>1. Inductive /\ [Next]_vars => Inductive'
        <2> SUFFICES ASSUME Inductive, [Next]_vars PROVE Inductive'
            OBVIOUS
        <2>1. CASE UNCHANGED vars
            <3> USE <2>1 DEF vars
            <3>1. TypeOK'
                BY DEF Inductive, TypeOK
            <3>2. \A c \in Clients : Reads(c)'
                BY ByClient, IdleReads
            <3>3. \A c \in Clients : DraftIsOwn(c)'
                BY DEF Inductive, DraftIsOwn, Exists, Blocked
            <3>4. CreateLeavesWallet'
                BY DEF Inductive, CreateLeavesWallet, Exists
            <3> QED BY <3>1, <3>2, <3>3, <3>4, ByClientNext
        <2>2. ASSUME NEW c \in Clients, Create(c) PROVE Inductive'
            BY <2>2, CreateKeeps, CommitKeeps DEF Create
        <2>3. ASSUME NEW c \in Clients, ListTransactions(c) PROVE Inductive'
            <3>1. CASE CheckOwner(c) /\ Forget(c)
                BY <3>1, ForgetKeeps DEF CheckOwner
            <3> QED BY <2>3, <3>1, TurnKeeps, ReadItemsKeeps, ReadTotalKeeps
                    DEF ListTransactions
        <2>4. ASSUME NEW c \in Clients, Client(c) PROVE Inductive'
            BY <2>4, TurnKeeps, ForgetKeeps, AskKeeps DEF Client, Done, Lose
        <2> QED BY <2>1, <2>2, <2>3, <2>4, LedgerKeeps, TickKeeps DEF Next
    <1> QED BY <1>1, InitInductive, PTL DEF Spec

\* Whoever is answered by create_wallet has the wallet, and has it once.
THEOREM WalletCreated == Spec => []CreateLeavesWallet
    <1>1. Inductive => CreateLeavesWallet
        BY DEF Inductive
    <1> QED BY <1>1, InductiveInvariant, PTL

\* Reading page after page misses no movement that was there when it began, for
\* any number of movements and any page size.
THEOREM HistoryCovered == Spec => []PagesCoverHistory
    <1>1. Inductive => PagesCoverHistory
        BY DEF Inductive
    <1> QED BY <1>1, InductiveInvariant, PTL

\* No page is answered with a total that is smaller than the rows it accounts for.
THEOREM TotalCovered == Spec => []TotalCoversPage
    <1>1. Inductive => TotalCoversPage
        BY DEF Inductive
    <1> QED BY <1>1, InductiveInvariant, PTL

=============================================================================
