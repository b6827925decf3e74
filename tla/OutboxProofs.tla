----------------------------- MODULE OutboxProofs -----------------------------
(***************************************************************************)
(* Proofs about Outbox, for any number of workers and events, any batch    *)
(* and attempt limits, and any bound on crashes.                           *)
(***************************************************************************)
EXTENDS Outbox, WellFoundedInduction, TLAPS

\* The oldest event of a non-empty set is one of its members.
LEMMA OldestIsMember ==
    ASSUME NEW S \in SUBSET Events, S # {}
    PROVE  Oldest(S) \in S /\ Oldest(S) \in Events
    <1>1. S \subseteq Nat
        BY EventsAssumption
    <1>2. PICK e \in S : \A f \in S : ~(<<f, e>> \in OpToRel(<, Nat))
        BY <1>1, NatLessThanWellFounded, WFMin
    <1>3. \A f \in S : ~(f < e)
        BY <1>1, <1>2 DEF OpToRel
    <1>4. \A f \in S : e <= f
        BY <1>1, <1>3
    <1> QED BY <1>4 DEF Oldest

\* Nothing is enqueued, claimed or sent at first.
LEMMA InitInductive == Init => Inductive
    <1> SUFFICES ASSUME Init PROVE Inductive
        OBVIOUS
    <1> USE DEF Init
    <1>1. TypeOK
        BY LimitsAssumption DEF TypeOK, Unmarked, Statuses, Marks
    <1>2. HandsAreLocked
        BY LimitsAssumption DEF HandsAreLocked, InHand, Unmarked
    <1>3. MarksAreTrue /\ AttemptsWereMade /\ FailedWasEarned
        BY DEF MarksAreTrue, AttemptsWereMade, FailedWasEarned, Unmarked
    <1> QED BY <1>1, <1>2, <1>3 DEF Inductive

\* An event comes to exist.
LEMMA EnqueueKeepsInductive ==
    ASSUME Inductive, NEW e \in Events, Enqueue(e)
    PROVE  Inductive'
    <1> USE DEF Inductive, Enqueue, world
    <1>1. TypeOK'
        BY DEF TypeOK, Statuses
    <1>2. status'[e] = "pending" /\ \A f \in Events : f # e => status'[f] = status[f]
        BY DEF TypeOK
    <1>3. HandsAreLocked'
        BY <1>2 DEF HandsAreLocked, InHand
    <1>4. MarksAreTrue' /\ AttemptsWereMade'
        BY <1>2 DEF MarksAreTrue, AttemptsWereMade, Current, Handled
    <1>5. FailedWasEarned'
        BY <1>2 DEF FailedWasEarned, Handled
    <1> QED BY <1>1, <1>3, <1>4, <1>5

\* A worker claims rows nobody holds.
LEMMA FetchKeepsInductive ==
    ASSUME Inductive, NEW w \in Workers, FetchPending(w)
    PROVE  Inductive'
    <1> USE DEF Inductive
    <1>1. PICK S \in SUBSET Claimable :
             /\ batch' = [batch EXCEPT ![w] = S]
             /\ lockedBy' = [e \in Events |-> IF e \in S THEN w ELSE lockedBy[e]]
        BY DEF FetchPending
    <1>2. /\ UNCHANGED <<status, attempts, marked, tries, sent, ambiguous, crashes>>
          /\ pc[w] = "poll" /\ pc' = [pc EXCEPT ![w] = "process"]
        BY DEF FetchPending, world
    <1>3. \A e \in S : e \in Events /\ status[e] = "pending" /\ lockedBy[e] = NoWorker
        BY <1>1 DEF Claimable
    <1>4. TypeOK'
        BY <1>1, <1>2, <1>3 DEF TypeOK
    <1>5. /\ batch'[w] = S /\ pc'[w] = "process"
          /\ \A v \in Workers : v # w => batch'[v] = batch[v] /\ pc'[v] = pc[v]
        BY <1>1, <1>2 DEF TypeOK
    <1>6. \A e \in S : \A v \in Workers : marked[v][e] = "none" /\ e \notin batch[v]
        BY <1>3, WorkersAssumption DEF HandsAreLocked, InHand
    <1>7. HandsAreLocked'
        <2>1. \A v \in Workers : \A e \in InHand(v)' : lockedBy'[e] = v
            <3>1. ASSUME NEW v \in Workers, NEW e \in Events, e \in InHand(v)'
                  PROVE  e \in InHand(v) \/ (v = w /\ e \in S)
                BY <1>2, <1>5, <3>1 DEF InHand
            <3>2. ASSUME NEW v \in Workers, NEW e \in Events, e \in InHand(v)
                  PROVE  lockedBy[e] = v /\ e \notin S
                BY <1>3, <3>2, WorkersAssumption DEF HandsAreLocked
            <3>3. \A v \in Workers : InHand(v)' \subseteq Events
                BY <1>4 DEF InHand, TypeOK
            <3> QED BY <1>1, <3>1, <3>2, <3>3
        <2>2. \A v \in Workers : \A e \in batch'[v] : marked'[v][e] = "none"
            BY <1>2, <1>5, <1>6 DEF HandsAreLocked
        <2>3. \A e \in Events : lockedBy'[e] # NoWorker => status'[e] = "pending"
            BY <1>1, <1>2, <1>3 DEF HandsAreLocked
        <2>4. \A v \in Workers : pc'[v] = "mark" => batch'[v] # {}
            BY <1>5 DEF HandsAreLocked
        <2>5. \A e \in Events : status'[e] \in {"absent", "pending"} => attempts'[e] < MaxAttempts
            BY <1>2 DEF HandsAreLocked
        <2> QED BY <2>1, <2>2, <2>3, <2>4, <2>5 DEF HandsAreLocked
    <1>8. MarksAreTrue' /\ AttemptsWereMade' /\ FailedWasEarned'
        BY <1>2, <1>5 DEF MarksAreTrue, AttemptsWereMade, FailedWasEarned, Current, Handled
    <1> QED BY <1>4, <1>7, <1>8

\* A worker that ends its transaction without committing leaves the rows as
\* they were.
LEMMA ReleaseKeepsInductive ==
    ASSUME Inductive, NEW w \in Workers, Release(w),
           UNCHANGED <<status, attempts, tries, sent, ambiguous>>,
           crashes' \in 0..MaxCrashes
    PROVE  Inductive'
    <1> USE DEF Inductive
    <1>1. /\ lockedBy' = [e \in Events |-> IF lockedBy[e] = w THEN NoWorker ELSE lockedBy[e]]
          /\ batch' = [batch EXCEPT ![w] = {}]
          /\ marked' = [marked EXCEPT ![w] = Unmarked]
          /\ pc' = [pc EXCEPT ![w] = "poll"]
        BY DEF Release
    <1>2. TypeOK'
        <2>1. Unmarked \in [Events -> Marks]
            BY DEF Unmarked, Marks
        <2> QED BY <1>1, <2>1 DEF TypeOK
    <1>3. /\ batch'[w] = {} /\ pc'[w] = "poll" /\ \A e \in Events : marked'[w][e] = "none"
          /\ \A v \in Workers : v # w =>
                batch'[v] = batch[v] /\ pc'[v] = pc[v] /\ marked'[v] = marked[v]
        BY <1>1 DEF TypeOK, Unmarked
    <1>4. HandsAreLocked'
        <2>1. ASSUME NEW v \in Workers, NEW e \in InHand(v)'
              PROVE  lockedBy'[e] = v
            <3>1. v # w /\ e \in InHand(v) /\ e \in Events
                BY <1>2, <1>3 DEF InHand, TypeOK
            <3> QED BY <1>1, <3>1 DEF HandsAreLocked
        <2>2. \A e \in Events : lockedBy'[e] # NoWorker => status'[e] = "pending"
            BY <1>1 DEF HandsAreLocked
        <2>3. \A v \in Workers : \A e \in batch'[v] : marked'[v][e] = "none"
            BY <1>3 DEF HandsAreLocked
        <2>4. \A v \in Workers : pc'[v] = "mark" => batch'[v] # {}
            BY <1>3 DEF HandsAreLocked
        <2>5. \A e \in Events : status'[e] \in {"absent", "pending"} => attempts'[e] < MaxAttempts
            BY DEF HandsAreLocked
        <2> QED BY <2>1, <2>2, <2>3, <2>4, <2>5 DEF HandsAreLocked
    <1>5. MarksAreTrue'
        BY <1>3 DEF MarksAreTrue, Current, Handled
    <1>6. AttemptsWereMade'
        BY <1>3 DEF AttemptsWereMade, Handled
    <1>7. FailedWasEarned'
        BY DEF FailedWasEarned, Handled
    <1> QED BY <1>2, <1>4, <1>5, <1>6, <1>7

\* A mark keeps the invariant when it is true of what was tried and sent.
LEMMA MarkKeepsInductive ==
    ASSUME Inductive, NEW w \in Workers, NEW mark \in {"done", "failed", "retry"},
           pc[w] # "poll", batch[w] # {}, Mark(w, mark),
           UNCHANGED <<status, attempts, lockedBy, crashes>>,
           tries' \in [Events -> Nat], sent' \in [Events -> Nat],
           ambiguous' \in [Events -> Nat],
           \A e \in Events : tries'[e] >= tries[e] /\ sent'[e] >= sent[e],
           \A e \in Events : ~Handled(e) => tries'[e] = 0,
           mark = "done" => sent'[Current(w)] > 0,
           mark = "retry" => Handled(Current(w)) /\ attempts[Current(w)] + 1 < MaxAttempts,
           mark = "failed" /\ Handled(Current(w)) => attempts[Current(w)] + 1 = MaxAttempts,
           mark # "done" /\ Handled(Current(w)) =>
               attempts[Current(w)] + 1 <= tries'[Current(w)]
    PROVE  Inductive'
    <1> USE DEF Inductive
    <1> DEFINE c == Current(w)
    <1>1. c \in batch[w] /\ c \in Events
        BY OldestIsMember DEF Current, TypeOK
    <1>2. /\ marked' = [marked EXCEPT ![w][c] = mark]
          /\ batch' = [batch EXCEPT ![w] = @ \ {c}]
          /\ pc' = [pc EXCEPT ![w] = "process"]
        BY DEF Mark
    <1>3. /\ mark = "done" => sent'[c] > 0
          /\ mark = "retry" => Handled(c) /\ attempts[c] + 1 < MaxAttempts
          /\ mark = "failed" /\ Handled(c) => attempts[c] + 1 = MaxAttempts
          /\ mark # "done" /\ Handled(c) => attempts[c] + 1 <= tries'[c]
        OBVIOUS
    <1> HIDE DEF c
    <1>4. TypeOK'
        BY <1>1, <1>2 DEF TypeOK, Marks
    <1>5. /\ batch'[w] = batch[w] \ {c} /\ pc'[w] = "process" /\ marked'[w][c] = mark
          /\ \A e \in Events : e # c => marked'[w][e] = marked[w][e]
          /\ \A v \in Workers : v # w =>
                batch'[v] = batch[v] /\ pc'[v] = pc[v] /\ marked'[v] = marked[v]
        BY <1>1, <1>2 DEF TypeOK
    <1>6. \A v \in Workers : InHand(v)' = InHand(v)
        BY <1>1, <1>5 DEF InHand
    <1>7. HandsAreLocked'
        <2>1. \A v \in Workers : \A e \in InHand(v)' : lockedBy'[e] = v
            BY <1>6 DEF HandsAreLocked
        <2>2. \A v \in Workers : \A e \in batch'[v] : marked'[v][e] = "none"
            <3>1. \A e \in batch[w] : e \in Events /\ marked[w][e] = "none"
                BY DEF HandsAreLocked, TypeOK
            <3>2. \A e \in batch'[w] : marked'[w][e] = "none"
                BY <1>5, <3>1
            <3>3. ASSUME NEW v \in Workers, v # w
                  PROVE  \A e \in batch'[v] : marked'[v][e] = "none"
                BY <1>5, <3>3 DEF HandsAreLocked
            <3> QED BY <3>2, <3>3
        <2>3. \A v \in Workers : pc'[v] = "mark" => batch'[v] # {}
            BY <1>5 DEF HandsAreLocked
        <2> QED BY <2>1, <2>2, <2>3 DEF HandsAreLocked
    <1>8. MarksAreTrue'
        <2>1. \A v \in Workers : \A e \in Events : marked'[v][e] = "done" => sent'[e] > 0
            <3>1. ASSUME NEW v \in Workers, NEW e \in Events, marked'[v][e] = "done"
                  PROVE  sent'[e] > 0
                <4>1. CASE marked[v][e] = "done"
                    BY <4>1 DEF MarksAreTrue, TypeOK
                <4>2. CASE marked[v][e] # "done"
                    BY <1>3, <1>5, <3>1, <4>2
                <4> QED BY <4>1, <4>2
            <3> QED BY <3>1
        <2>2. ASSUME NEW v \in Workers, pc'[v] = "mark"
              PROVE  sent'[Current(v)'] > 0 /\ Handled(Current(v))'
            <3>1. v # w /\ pc[v] = "mark" /\ batch'[v] = batch[v]
                BY <1>5, <2>2
            <3>2. Current(v)' = Current(v)
                BY <3>1 DEF Current
            <3>3. Current(v) \in Events
                BY <3>1, OldestIsMember DEF Current, HandsAreLocked, TypeOK
            <3> QED BY <3>1, <3>2, <3>3 DEF MarksAreTrue, Handled, TypeOK
        <2>3. \A e \in Events : status'[e] = "done" => sent'[e] > 0
            BY DEF MarksAreTrue, TypeOK
        <2> QED BY <2>1, <2>2, <2>3 DEF MarksAreTrue
    <1>9. AttemptsWereMade'
        <2>1. \A e \in Events : attempts[e] \in Nat /\ tries[e] \in Nat
            BY LimitsAssumption DEF TypeOK
        <2>2. ASSUME NEW e \in Events
              PROVE  /\ Handled(e)' => attempts'[e] <= tries'[e]
                     /\ ~Handled(e)' => tries'[e] = 0
            BY <2>1 DEF AttemptsWereMade, Handled
        <2>3. ASSUME NEW v \in Workers, NEW e \in Events
              PROVE  /\ marked'[v][e] = "retry" => Handled(e) /\ attempts[e] + 1 < MaxAttempts
                     /\ marked'[v][e] = "failed" /\ Handled(e) => attempts[e] + 1 = MaxAttempts
                     /\ marked'[v][e] \in {"retry", "failed"} /\ Handled(e) =>
                           attempts[e] + 1 <= tries'[e]
            <3>1. CASE v = w /\ e = c
                BY <1>3, <1>5, <3>1
            <3>2. CASE ~(v = w /\ e = c)
                <4>1. marked'[v][e] = marked[v][e]
                    BY <1>5, <3>2
                <4> QED BY <2>1, <4>1 DEF AttemptsWereMade
            <3> QED BY <3>1, <3>2
        <2> QED BY <2>2, <2>3 DEF AttemptsWereMade, Handled
    <1>10. FailedWasEarned'
        BY LimitsAssumption DEF FailedWasEarned, Handled, TypeOK
    <1> QED BY <1>4, <1>7, <1>8, <1>9, <1>10

\* The email leaves; the event stays in hand, to be marked.
LEMMA SendKeepsInductive ==
    ASSUME Inductive, NEW w \in Workers, Send(w)
    PROVE  Inductive'
    <1> USE DEF Inductive
    <1> DEFINE c == Current(w)
    <1>1. c \in batch[w] /\ c \in Events
        BY OldestIsMember DEF Current, TypeOK, Send
    <1>2. /\ tries' = [tries EXCEPT ![c] = @ + 1]
          /\ sent' = [sent EXCEPT ![c] = @ + 1]
          /\ pc' = [pc EXCEPT ![w] = "mark"]
          /\ UNCHANGED <<status, attempts, lockedBy, batch, marked, ambiguous, crashes>>
          /\ Handled(c)
        BY DEF Send
    <1>3. c = Current(w) /\ \A v \in Workers : Current(v)' = Current(v)
        BY <1>2 DEF Current
    <1> HIDE DEF c
    <1>4. TypeOK'
        BY <1>1, <1>2 DEF TypeOK
    <1>5. /\ pc'[w] = "mark" /\ \A v \in Workers : v # w => pc'[v] = pc[v]
          /\ \A e \in Events : tries'[e] >= tries[e] /\ sent'[e] >= sent[e]
          /\ \A e \in Events : e # c => tries'[e] = tries[e]
          /\ sent'[c] > 0
        BY <1>1, <1>2 DEF TypeOK
    <1>6. HandsAreLocked'
        BY <1>1, <1>2, <1>5 DEF HandsAreLocked, InHand
    <1>7. MarksAreTrue'
        <2>1. \A e \in Events : sent[e] > 0 => sent'[e] > 0
            BY <1>1, <1>2 DEF TypeOK
        <2>2. ASSUME NEW v \in Workers, pc'[v] = "mark"
              PROVE  sent'[Current(v)'] > 0 /\ Handled(Current(v))'
            <3>1. CASE v = w
                BY <1>2, <1>3, <1>5, <3>1 DEF Handled
            <3>2. CASE v # w
                <4>1. pc[v] = "mark" /\ batch[v] # {}
                    BY <1>5, <2>2, <3>2 DEF HandsAreLocked
                <4>2. Current(v) \in Events
                    BY <4>1, OldestIsMember DEF Current, TypeOK
                <4> QED BY <1>3, <2>1, <4>1, <4>2 DEF MarksAreTrue, Handled
            <3> QED BY <3>1, <3>2
        <2> QED BY <1>2, <2>1, <2>2 DEF MarksAreTrue
    <1>8. AttemptsWereMade' /\ FailedWasEarned'
        <2>1. \A e \in Events : attempts[e] \in Nat /\ tries[e] \in Nat /\ tries'[e] \in Nat
            BY <1>4, LimitsAssumption DEF TypeOK
        <2>2. AttemptsWereMade'
            BY <1>2, <1>5, <2>1, LimitsAssumption DEF AttemptsWereMade, Handled
        <2>3. FailedWasEarned'
            BY <1>2, <1>5, <2>1, LimitsAssumption DEF FailedWasEarned, Handled
        <2> QED BY <2>2, <2>3
    <1> QED BY <1>4, <1>6, <1>7, <1>8

\* What a commit does to one event: nothing unless the worker marked it, and
\* nothing anyway to an event in the hands of another worker.
LEMMA CommitFacts ==
    ASSUME Inductive, NEW w \in Workers, Commit(w)
    PROVE  /\ \A e \in Events : marked[w][e] = "none" =>
                  status'[e] = status[e] /\ attempts'[e] = attempts[e]
           /\ \A e \in Events : marked[w][e] = "done" =>
                  status'[e] = "done" /\ attempts'[e] = attempts[e]
           /\ \A e \in Events : marked[w][e] = "failed" =>
                  status'[e] = "failed" /\ attempts'[e] = attempts[e] + 1
           /\ \A e \in Events : marked[w][e] = "retry" =>
                  status'[e] = "pending" /\ attempts'[e] = attempts[e] + 1
           /\ \A e \in Events : marked[w][e] \in Marks
           /\ \A e \in Events : marked[w][e] # "none" =>
                  status[e] = "pending" /\ lockedBy[e] = w /\ attempts[e] < MaxAttempts
           /\ status' \in [Events -> Statuses]
    <1>0. /\ \A e \in Events : marked[w][e] \in Marks
          /\ status \in [Events -> Statuses]
        BY DEF Inductive, TypeOK
    <1>1. ASSUME NEW e \in Events
          PROVE  /\ status'[e] =
                      IF marked[w][e] \in {"done", "failed"} THEN marked[w][e]
                      ELSE IF marked[w][e] = "retry" THEN "pending" ELSE status[e]
                 /\ attempts'[e] = IF marked[w][e] \in {"failed", "retry"}
                                   THEN attempts[e] + 1 ELSE attempts[e]
        BY DEF Commit
    <1>2. ASSUME NEW e \in Events, marked[w][e] # "none"
          PROVE  status[e] = "pending" /\ lockedBy[e] = w /\ attempts[e] < MaxAttempts
        <2>1. e \in InHand(w)
            BY <1>2 DEF InHand
        <2>2. lockedBy[e] = w /\ w # NoWorker
            BY <2>1, WorkersAssumption DEF Inductive, HandsAreLocked
        <2> QED BY <2>2 DEF Inductive, HandsAreLocked
    <1>3. status' \in [Events -> Statuses]
        <2>1. \A e \in Events : status'[e] \in Statuses
            BY <1>0, <1>1 DEF Marks, Statuses
        <2>2. status' = [e \in Events |-> status'[e]]
            BY DEF Commit
        <2> QED BY <2>1, <2>2
    <1> QED BY <1>0, <1>1, <1>2, <1>3

\* The commit publishes the marks of one worker.
LEMMA CommitKeepsInductive ==
    ASSUME Inductive, NEW w \in Workers, Commit(w)
    PROVE  Inductive'
    <1> USE DEF Inductive
    <1>1. /\ lockedBy' = [e \in Events |-> IF lockedBy[e] = w THEN NoWorker ELSE lockedBy[e]]
          /\ batch' = [batch EXCEPT ![w] = {}]
          /\ marked' = [marked EXCEPT ![w] = Unmarked]
          /\ pc' = [pc EXCEPT ![w] = "poll"]
          /\ UNCHANGED <<tries, sent, ambiguous, crashes>>
        BY DEF Commit, Release, world
    <1>2. \A e \in Events : attempts[e] \in Nat /\ attempts[e] <= MaxAttempts /\ tries[e] \in Nat
        BY LimitsAssumption DEF TypeOK
    <1>3. TypeOK'
        <2>1. Unmarked \in [Events -> Marks]
            BY DEF Unmarked, Marks
        <2>2. attempts' \in [Events -> 0..MaxAttempts]
            <3>1. \A e \in Events : attempts'[e] \in 0..MaxAttempts
                BY <1>2, LimitsAssumption, CommitFacts DEF Marks
            <3>2. attempts' = [e \in Events |-> attempts'[e]]
                BY DEF Commit
            <3> QED BY <3>1, <3>2
        <2> QED BY <1>1, <2>1, <2>2, CommitFacts DEF TypeOK
    <1>4. /\ batch'[w] = {} /\ pc'[w] = "poll" /\ \A e \in Events : marked'[w][e] = "none"
          /\ \A v \in Workers : v # w =>
                batch'[v] = batch[v] /\ pc'[v] = pc[v] /\ marked'[v] = marked[v]
        BY <1>1 DEF TypeOK, Unmarked
    <1>5. ASSUME NEW v \in Workers, v # w, NEW e \in InHand(v)
          PROVE  /\ e \in Events /\ marked[w][e] = "none" /\ lockedBy[e] = v
                 /\ status'[e] = status[e] /\ attempts'[e] = attempts[e]
        <2>1. e \in Events /\ lockedBy[e] = v
            BY <1>5 DEF InHand, HandsAreLocked, TypeOK
        <2>2. marked[w][e] = "none"
            BY <1>5, <2>1, CommitFacts
        <2> QED BY <2>1, <2>2, CommitFacts
    <1>6. HandsAreLocked'
        <2>1. ASSUME NEW v \in Workers, NEW e \in InHand(v)'
              PROVE  lockedBy'[e] = v
            <3>1. v # w /\ e \in InHand(v)
                BY <1>3, <1>4 DEF InHand, TypeOK
            <3> QED BY <1>1, <1>5, <3>1
        <2>2. ASSUME NEW e \in Events, lockedBy'[e] # NoWorker
              PROVE  status'[e] = "pending"
            <3>1. lockedBy[e] # w /\ lockedBy[e] # NoWorker
                BY <1>1, <2>2
            <3>2. marked[w][e] = "none" /\ status[e] = "pending"
                BY <3>1, CommitFacts DEF HandsAreLocked
            <3> QED BY <3>2, CommitFacts
        <2>3. \A v \in Workers : \A e \in batch'[v] : marked'[v][e] = "none"
            BY <1>4 DEF HandsAreLocked
        <2>4. \A v \in Workers : pc'[v] = "mark" => batch'[v] # {}
            BY <1>4 DEF HandsAreLocked
        <2>5. ASSUME NEW e \in Events, status'[e] \in {"absent", "pending"}
              PROVE  attempts'[e] < MaxAttempts
            BY <1>2, <2>5, LimitsAssumption, CommitFacts
               DEF HandsAreLocked, AttemptsWereMade, Marks
        <2> QED BY <2>1, <2>2, <2>3, <2>4, <2>5 DEF HandsAreLocked
    <1>7. MarksAreTrue'
        <2>1. \A e \in Events : status'[e] = "done" => sent'[e] > 0
            BY <1>1, CommitFacts DEF MarksAreTrue, Marks
        <2>2. \A v \in Workers : pc'[v] = "mark" =>
                 sent'[Current(v)'] > 0 /\ Handled(Current(v))'
            BY <1>1, <1>4 DEF MarksAreTrue, Current, Handled
        <2>3. \A v \in Workers : \A e \in Events : marked'[v][e] = "done" => sent'[e] > 0
            BY <1>1, <1>4 DEF MarksAreTrue
        <2> QED BY <2>1, <2>2, <2>3 DEF MarksAreTrue
    <1>8. AttemptsWereMade'
        <2>1. \A e \in Events : Handled(e) => attempts'[e] <= tries[e]
            BY <1>2, CommitFacts DEF AttemptsWereMade, Marks
        <2>2. ASSUME NEW v \in Workers, NEW e \in Events, marked'[v][e] # "none"
              PROVE  marked'[v][e] = marked[v][e] /\ attempts'[e] = attempts[e]
            <3>1. v # w /\ marked'[v] = marked[v]
                BY <1>4, <2>2
            <3>2. e \in InHand(v)
                BY <2>2, <3>1 DEF InHand
            <3> QED BY <1>5, <3>1, <3>2
        <2> QED BY <1>1, <2>1, <2>2 DEF AttemptsWereMade, Handled
    <1>9. FailedWasEarned'
        <2>1. ASSUME NEW e \in Events, status'[e] = "failed"
              PROVE  \/ Handled(e) /\ attempts'[e] = MaxAttempts /\ tries[e] >= MaxAttempts
                     \/ ~Handled(e) /\ tries[e] = 0
            <3>1. CASE marked[w][e] = "none"
                BY <2>1, <3>1, CommitFacts DEF FailedWasEarned
            <3>2. CASE marked[w][e] = "failed"
                BY <1>2, <3>2, CommitFacts DEF AttemptsWereMade
            <3>3. CASE marked[w][e] \in {"done", "retry"}
                BY <2>1, <3>3, CommitFacts
            <3> QED BY <3>1, <3>2, <3>3, CommitFacts DEF Marks
        <2> QED BY <1>1, <2>1 DEF FailedWasEarned, Handled
    <1> QED BY <1>3, <1>6, <1>7, <1>8, <1>9

\* Every step keeps the invariant.
LEMMA NextKeepsInductive == Inductive /\ [Next]_vars => Inductive'
    <1> SUFFICES ASSUME Inductive, [Next]_vars PROVE Inductive'
        OBVIOUS
    <1>1. CASE UNCHANGED vars
        BY <1>1 DEF vars, world, Inductive, TypeOK, HandsAreLocked, MarksAreTrue,
                    AttemptsWereMade, FailedWasEarned, InHand, Current, Handled
    <1>2. ASSUME NEW e \in Events, Enqueue(e)
          PROVE  Inductive'
        BY <1>2, EnqueueKeepsInductive
    <1>3. ASSUME NEW w \in Workers, FetchPending(w)
          PROVE  Inductive'
        BY <1>3, FetchKeepsInductive
    <1>4. ASSUME NEW w \in Workers, batch[w] # {}
          PROVE  Current(w) \in Events /\ Current(w) \in batch[w]
        BY <1>4, OldestIsMember DEF Current, Inductive, TypeOK
    <1>5. ASSUME NEW w \in Workers, RejectUnknownType(w)
          PROVE  Inductive'
        <2>1. /\ Mark(w, "failed") /\ pc[w] = "process" /\ batch[w] # {}
              /\ UNCHANGED <<status, attempts, lockedBy, tries, sent, ambiguous, crashes>>
              /\ ~Handled(Current(w))
            BY <1>5 DEF RejectUnknownType, world
        <2>2. /\ \A e \in Events : tries'[e] >= tries[e] /\ sent'[e] >= sent[e]
              /\ \A e \in Events : ~Handled(e) => tries'[e] = 0
              /\ tries' \in [Events -> Nat] /\ sent' \in [Events -> Nat]
              /\ ambiguous' \in [Events -> Nat]
            BY <2>1 DEF Inductive, TypeOK, AttemptsWereMade
        <2> QED BY <2>1, <2>2, MarkKeepsInductive
    <1>6. ASSUME NEW w \in Workers, Send(w)
          PROVE  Inductive'
        BY <1>6, SendKeepsInductive
    <1>7. ASSUME NEW w \in Workers, MarkDone(w)
          PROVE  Inductive'
        <2>1. /\ Mark(w, "done") /\ pc[w] = "mark" /\ batch[w] # {}
              /\ UNCHANGED <<status, attempts, lockedBy, tries, sent, ambiguous, crashes>>
              /\ sent[Current(w)] > 0
            BY <1>7 DEF MarkDone, world, Inductive, HandsAreLocked, MarksAreTrue
        <2>2. /\ \A e \in Events : tries'[e] >= tries[e] /\ sent'[e] >= sent[e]
              /\ \A e \in Events : ~Handled(e) => tries'[e] = 0
              /\ tries' \in [Events -> Nat] /\ sent' \in [Events -> Nat]
              /\ ambiguous' \in [Events -> Nat]
            BY <2>1 DEF Inductive, TypeOK, AttemptsWereMade
        <2> QED BY <2>1, <2>2, MarkKeepsInductive
    <1>8. ASSUME NEW w \in Workers, HandlerRaises(w)
          PROVE  Inductive'
        <2> DEFINE c == Current(w)
        <2>1. /\ Mark(w, AfterFailure(c)) /\ pc[w] = "process" /\ batch[w] # {}
              /\ UNCHANGED <<status, attempts, lockedBy, crashes>>
              /\ Handled(c)
              /\ tries' = [tries EXCEPT ![c] = @ + 1]
              /\ sent' = sent \/ sent' = [sent EXCEPT ![c] = @ + 1]
              /\ ambiguous' = ambiguous \/ ambiguous' = [ambiguous EXCEPT ![c] = @ + 1]
            BY <1>8 DEF HandlerRaises
        <2>2. c \in Events /\ c \in batch[w]
            BY <1>4, <2>1
        <2>3. /\ attempts[c] \in Nat /\ attempts[c] < MaxAttempts /\ attempts[c] <= tries[c]
              /\ tries[c] \in Nat
            <3>1. lockedBy[c] = w /\ w # NoWorker
                BY <2>2, WorkersAssumption DEF Inductive, HandsAreLocked, InHand
            <3>2. status[c] = "pending"
                BY <2>2, <3>1 DEF Inductive, HandsAreLocked
            <3> QED BY <2>1, <2>2, <3>2, LimitsAssumption
                    DEF Inductive, TypeOK, HandsAreLocked, AttemptsWereMade
        <2>4. /\ AfterFailure(c) \in {"failed", "retry"}
              /\ AfterFailure(c) = "retry" => attempts[c] + 1 < MaxAttempts
              /\ AfterFailure(c) = "failed" => attempts[c] + 1 = MaxAttempts
            BY <2>3, LimitsAssumption DEF AfterFailure
        <2> DEFINE m == AfterFailure(c)
        <2> HIDE DEF c, m
        <2>5. /\ \A e \in Events : tries'[e] >= tries[e] /\ sent'[e] >= sent[e]
              /\ \A e \in Events : ~Handled(e) => tries'[e] = 0
              /\ tries' \in [Events -> Nat] /\ sent' \in [Events -> Nat]
              /\ ambiguous' \in [Events -> Nat]
              /\ attempts[c] + 1 <= tries'[c]
            <3>1. /\ tries \in [Events -> Nat] /\ sent \in [Events -> Nat]
                  /\ ambiguous \in [Events -> Nat]
                  /\ \A e \in Events : ~Handled(e) => tries[e] = 0
                BY DEF Inductive, TypeOK, AttemptsWereMade
            <3>2. /\ tries'[c] = tries[c] + 1
                  /\ \A e \in Events : e # c => tries'[e] = tries[e]
                  /\ tries' \in [Events -> Nat]
                BY <2>1, <2>2, <3>1
            <3>3. /\ \A e \in Events : sent'[e] >= sent[e]
                  /\ sent' \in [Events -> Nat]
                BY <2>1, <2>2, <3>1
            <3>4. ambiguous' \in [Events -> Nat]
                BY <2>1, <2>2, <3>1
            <3>5. \A e \in Events : tries'[e] >= tries[e]
                BY <2>3, <3>1, <3>2
            <3>6. \A e \in Events : ~Handled(e) => tries'[e] = 0
                BY <2>1, <3>1, <3>2
            <3> QED BY <2>3, <3>2, <3>3, <3>4, <3>5, <3>6
        <2> USE DEF c
        <2> QED BY <2>1, <2>4, <2>5, MarkKeepsInductive
    <1>9. ASSUME NEW w \in Workers, Commit(w)
          PROVE  Inductive'
        BY <1>9, CommitKeepsInductive
    <1>10. ASSUME NEW w \in Workers, Crash(w)
           PROVE  Inductive'
        <2>1. crashes' \in 0..MaxCrashes
            BY <1>10, LimitsAssumption DEF Crash, Inductive, TypeOK
        <2> QED BY <1>10, <2>1, ReleaseKeepsInductive DEF Crash, world
    <1> QED BY <1>1, <1>2, <1>3, <1>5, <1>6, <1>7, <1>8, <1>9, <1>10 DEF Next, Work

\* The inductive invariant holds in every reachable state.
THEOREM InductiveInvariant == Spec => []Inductive
    <1> QED BY InitInductive, NextKeepsInductive, PTL DEF Spec

\* Type correctness; the attempts column never exceeds MaxAttempts.
THEOREM TypeCorrectness == Spec => []TypeOK
    <1>1. Inductive => TypeOK
        BY DEF Inductive
    <1> QED BY <1>1, InductiveInvariant, PTL

\* No event is marked done whose email was not sent.
THEOREM DoneMeansSent == Spec => []DoneWasSent
    <1>1. Inductive => DoneWasSent
        BY DEF Inductive, MarksAreTrue, DoneWasSent
    <1> QED BY <1>1, InductiveInvariant, PTL

\* No event is given up before its attempts are used up.
THEOREM FailureMeansExhausted == Spec => []FailedWasEarned
    <1>1. Inductive => FailedWasEarned
        BY DEF Inductive
    <1> QED BY <1>1, InductiveInvariant, PTL

\* Two workers never have the same event in hand.
THEOREM ClaimsAreExclusive == Spec => []ExclusiveClaim
    <1>1. Inductive => ExclusiveClaim
        <2> SUFFICES ASSUME Inductive PROVE ExclusiveClaim
            OBVIOUS
        <2>1. \A w \in Workers : \A e \in InHand(w) : e \in Events /\ lockedBy[e] = w
            BY DEF Inductive, HandsAreLocked, InHand, TypeOK
        <2>2. \A w \in Workers : \A e \in InHand(w) : status[e] = "pending"
            BY <2>1, WorkersAssumption DEF Inductive, HandsAreLocked
        <2> QED BY <2>1, <2>2 DEF ExclusiveClaim
    <1> QED BY <1>1, InductiveInvariant, PTL

\* What is settled stays settled, and committed attempts are never forgotten.
THEOREM OutcomesAreFinal == Spec => OutcomeIsFinal
    <1> DEFINE Final ==
           \A e \in Events :
              /\ status[e] \in {"done", "failed"} => status'[e] = status[e]
              /\ attempts'[e] >= attempts[e]
    <1>1. Inductive /\ [Next]_vars => Final
        <2> SUFFICES ASSUME Inductive, [Next]_vars PROVE Final
            OBVIOUS
        <2>0. \A e \in Events : attempts[e] \in Nat
            BY LimitsAssumption DEF Inductive, TypeOK
        <2>1. CASE UNCHANGED <<status, attempts>>
            BY <2>0, <2>1
        <2>2. ASSUME NEW e \in Events, Enqueue(e)
              PROVE  Final
            BY <2>0, <2>2 DEF Enqueue, Inductive, TypeOK
        <2>3. ASSUME NEW w \in Workers, Commit(w)
              PROVE  Final
            BY <2>0, <2>3, CommitFacts DEF Marks
        <2> QED BY <2>1, <2>2, <2>3
                DEF Next, Work, vars, FetchPending, RejectUnknownType, Send, MarkDone,
                    HandlerRaises, Crash
    <1> HIDE DEF Final
    <1>2. Spec => [][Final]_vars
        BY <1>1, InductiveInvariant, PTL DEF Spec
    <1> QED BY <1>2 DEF OutcomeIsFinal, Final

\* The workers implement the promise of delivery: sending is a delivery of a
\* pending event, committing a batch settles its events, nothing else shows.
THEOREM ImplementsPromise == Spec => Implements
    <1>1. Init => Promise!Init
        BY DEF Init, Promise!Init
    <1>2. Inductive /\ [Next]_vars => [Promise!Next]_(Promise!vars)
        <2> SUFFICES ASSUME Inductive, [Next]_vars
                     PROVE  [Promise!Next]_(Promise!vars)
            OBVIOUS
        <2>1. CASE UNCHANGED <<status, sent>>
            BY <2>1 DEF Promise!vars
        <2>2. ASSUME NEW e \in Events, Enqueue(e)
              PROVE  Promise!Next
            BY <2>2 DEF Enqueue, world, Promise!Next, Promise!Publish
        <2>3. ASSUME NEW w \in Workers, batch[w] # {},
                     sent' = [sent EXCEPT ![Current(w)] = @ + 1], UNCHANGED status
              PROVE  Promise!Next
            <3>1. Current(w) \in Events /\ Current(w) \in batch[w]
                BY <2>3, OldestIsMember DEF Current, Inductive, TypeOK
            <3>2. lockedBy[Current(w)] = w
                BY <3>1 DEF Inductive, HandsAreLocked, InHand
            <3>3. status[Current(w)] = "pending"
                BY <3>1, <3>2, WorkersAssumption DEF Inductive, HandsAreLocked
            <3> QED BY <2>3, <3>1, <3>3 DEF Promise!Next, Promise!Deliver
        <2>4. ASSUME NEW w \in Workers, Commit(w)
              PROVE  Promise!Settle
            <3> DEFINE done == {e \in Events : marked[w][e] = "done"}
                       failed == {e \in Events : marked[w][e] = "failed"}
            <3>1. /\ done \in SUBSET {e \in Events : status[e] = "pending"}
                  /\ failed \in SUBSET {e \in Events : status[e] = "pending"}
                BY <2>4, CommitFacts
            <3>2. done \cap failed = {} /\ \A e \in done : sent[e] > 0
                BY DEF Inductive, MarksAreTrue
            <3>3. status' = [e \in Events |->
                               IF e \in done THEN "done"
                               ELSE IF e \in failed THEN "failed" ELSE status[e]]
                <4>1. status' = [e \in Events |->
                         IF marked[w][e] \in {"done", "failed"} THEN marked[w][e]
                         ELSE IF marked[w][e] = "retry" THEN "pending" ELSE status[e]]
                    BY <2>4 DEF Commit
                <4>2. \A e \in Events : marked[w][e] = "retry" => status[e] = "pending"
                    BY <2>4, CommitFacts
                <4> QED BY <4>1, <4>2
            <3>4. sent' = sent
                BY <2>4 DEF Commit, world
            <3> HIDE DEF done, failed
            <3> QED BY <3>1, <3>2, <3>3, <3>4 DEF Promise!Settle
        <2>5. ASSUME NEW w \in Workers, Send(w)
              PROVE  Promise!Next
            BY <2>3, <2>5 DEF Send
        <2>6. ASSUME NEW w \in Workers, HandlerRaises(w), sent' # sent
              PROVE  Promise!Next
            BY <2>3, <2>6 DEF HandlerRaises
        <2>7. ASSUME NEW w \in Workers, HandlerRaises(w), sent' = sent
              PROVE  UNCHANGED <<status, sent>>
            BY <2>7 DEF HandlerRaises
        <2>8. ASSUME NEW w \in Workers,
                     FetchPending(w) \/ RejectUnknownType(w) \/ MarkDone(w) \/ Crash(w)
              PROVE  UNCHANGED <<status, sent>>
            BY <2>8 DEF FetchPending, RejectUnknownType, MarkDone, Crash, world
        <2> QED BY <2>1, <2>2, <2>4, <2>5, <2>6, <2>7, <2>8
                DEF Next, Work, vars, Promise!Next, Promise!vars
    <1> QED BY <1>1, <1>2, InductiveInvariant, PTL DEF Spec, Implements, Promise!Spec

-----------------------------------------------------------------------------
(* Copies of an email *)

\* The email of e was taken by the server in the batch w has in hand.
Delivered(w, e) == marked[w][e] = "done" \/ (pc[w] = "mark" /\ e = Current(w))

Settled(e) == status[e] = "done" \/ \E w \in Workers : Delivered(w, e)

\* Every copy has its excuse, and all but one as long as no worker has the event
\* down as sent.
CopiesAreCounted ==
    \A e \in Events :
        /\ sent[e] <= 1 + ambiguous[e] + crashes
        /\ ~Settled(e) => sent[e] <= ambiguous[e] + crashes

\* A step that sends nothing keeps the count if it forgets nothing that was sent,
\* unless it is a crash.
LEMMA SilentStepKeepsCount ==
    ASSUME Inductive, CopiesAreCounted, UNCHANGED <<sent, ambiguous>>,
           crashes' \in Nat, crashes' >= crashes,
           \A e \in Events : Settled(e) => Settled(e)' \/ crashes' = crashes + 1
    PROVE  CopiesAreCounted'
    <1>1. \A e \in Events : sent[e] \in Nat /\ ambiguous[e] \in Nat /\ crashes \in Nat
        BY DEF Inductive, TypeOK
    <1>2. ASSUME NEW e \in Events
          PROVE  /\ sent'[e] <= 1 + ambiguous'[e] + crashes'
                 /\ ~Settled(e)' => sent'[e] <= ambiguous'[e] + crashes'
        <2>1. sent[e] <= 1 + ambiguous[e] + crashes
            BY DEF CopiesAreCounted
        <2>2. ~Settled(e) => sent[e] <= ambiguous[e] + crashes
            BY DEF CopiesAreCounted
        <2>3. Settled(e) => Settled(e)' \/ crashes' = crashes + 1
            OBVIOUS
        <2> HIDE DEF Settled
        <2> QED BY <1>1, <2>1, <2>2, <2>3
    <1> QED BY <1>2 DEF CopiesAreCounted

\* What a worker is about to handle, nobody has down as sent.
LEMMA InHandIsUnsettled ==
    ASSUME Inductive, NEW w \in Workers, pc[w] = "process", batch[w] # {}
    PROVE  Current(w) \in Events /\ ~Settled(Current(w))
    <1> DEFINE c == Current(w)
    <1>1. c \in batch[w] /\ c \in Events
        BY OldestIsMember DEF Current, Inductive, TypeOK
    <1>2. lockedBy[c] = w /\ marked[w][c] = "none"
        BY <1>1 DEF Inductive, HandsAreLocked, InHand
    <1>3. status[c] = "pending"
        BY <1>1, <1>2, WorkersAssumption DEF Inductive, HandsAreLocked
    <1>4. ASSUME NEW v \in Workers, Delivered(v, c)
          PROVE  FALSE
        <2>1. CASE marked[v][c] = "done"
            BY <1>1, <1>2, <2>1 DEF Inductive, HandsAreLocked, InHand
        <2>2. CASE pc[v] = "mark" /\ c = Current(v)
            <3>1. batch[v] # {}
                BY <2>2 DEF Inductive, HandsAreLocked
            <3>2. c \in batch[v]
                BY <2>2, <3>1, OldestIsMember DEF Current, Inductive, TypeOK
            <3> QED BY <1>2, <2>2, <3>2 DEF Inductive, HandsAreLocked, InHand
        <2> QED BY <1>4, <2>1, <2>2 DEF Delivered
    <1> QED BY <1>1, <1>3, <1>4 DEF Settled

\* Marking the current event leaves the others as they are.
LEMMA MarkKeepsSettled ==
    ASSUME Inductive, NEW w \in Workers, NEW mark \in Marks, batch[w] # {}, Mark(w, mark),
           UNCHANGED status, NEW e \in Events, Settled(e),
           e # Current(w) \/ mark = "done"
    PROVE  Settled(e)'
    <1>1. Current(w) \in Events
        BY OldestIsMember DEF Current, Inductive, TypeOK
    <1>2. /\ marked' = [marked EXCEPT ![w][Current(w)] = mark]
          /\ batch' = [batch EXCEPT ![w] = @ \ {Current(w)}]
          /\ pc' = [pc EXCEPT ![w] = "process"]
        BY DEF Mark
    <1>3. \A v \in Workers : v # w => Current(v)' = Current(v)
        BY <1>2 DEF Current
    <1>4. CASE status[e] = "done"
        BY <1>4 DEF Settled
    <1>5. CASE e = Current(w) /\ mark = "done"
        <2>1. marked'[w][e] = "done"
            BY <1>1, <1>2, <1>5 DEF Inductive, TypeOK
        <2> QED BY <2>1 DEF Settled, Delivered
    <1>6. ASSUME e # Current(w), NEW v \in Workers, Delivered(v, e)
          PROVE  Delivered(v, e)'
        <2>1. CASE v = w
            BY <1>1, <1>2, <1>6, <2>1 DEF Delivered, Inductive, TypeOK
        <2>2. CASE v # w
            BY <1>1, <1>2, <1>3, <1>6, <2>2 DEF Delivered, Inductive, TypeOK
        <2> QED BY <2>1, <2>2
    <1>7. CASE e # Current(w) /\ \E v \in Workers : Delivered(v, e)
        <2>1. PICK v \in Workers : Delivered(v, e)
            BY <1>7
        <2>2. Delivered(v, e)'
            BY <1>6, <1>7, <2>1
        <2> QED BY <2>2 DEF Settled
    <1> QED BY <1>4, <1>5, <1>7 DEF Settled

LEMMA NextKeepsCount == Inductive /\ CopiesAreCounted /\ [Next]_vars => CopiesAreCounted'
    <1> SUFFICES ASSUME Inductive, CopiesAreCounted, [Next]_vars
                 PROVE  CopiesAreCounted'
        OBVIOUS
    <1>0. \A e \in Events : sent[e] \in Nat /\ ambiguous[e] \in Nat /\ crashes \in Nat
        BY LimitsAssumption DEF Inductive, TypeOK
    <1>1. CASE UNCHANGED vars
        BY <1>1 DEF vars, world, CopiesAreCounted, Settled, Delivered, Current
    <1>2. ASSUME NEW e \in Events, Enqueue(e)
          PROVE  CopiesAreCounted'
        <2>1. \A f \in Events : status[f] = "done" => status'[f] = "done"
            BY <1>2 DEF Enqueue, Inductive, TypeOK
        <2>2. \A f \in Events : Settled(f) => Settled(f)'
            BY <1>2, <2>1 DEF Enqueue, Settled, Delivered, Current
        <2>3. UNCHANGED <<sent, ambiguous, crashes>>
            BY <1>2 DEF Enqueue, world
        <2> QED BY <1>0, <2>2, <2>3, SilentStepKeepsCount DEF CopiesAreCounted
    <1>3. ASSUME NEW w \in Workers, FetchPending(w)
          PROVE  CopiesAreCounted'
        <2>1. /\ \A v \in Workers : v # w => batch'[v] = batch[v] /\ pc'[v] = pc[v]
              /\ UNCHANGED <<status, marked, sent, ambiguous, crashes>> /\ pc[w] = "poll"
            BY <1>3 DEF FetchPending, world, Inductive, TypeOK
        <2>2. ASSUME NEW v \in Workers, NEW f \in Events, Delivered(v, f)
              PROVE  Delivered(v, f)'
            <3>1. CASE v = w
                BY <2>1, <2>2, <3>1 DEF Delivered
            <3>2. CASE v # w
                BY <2>1, <2>2, <3>2 DEF Delivered, Current
            <3> QED BY <3>1, <3>2
        <2>3. \A f \in Events : Settled(f) => Settled(f)'
            BY <2>1, <2>2 DEF Settled
        <2> QED BY <1>0, <2>1, <2>3, SilentStepKeepsCount DEF CopiesAreCounted
    <1>4. ASSUME NEW w \in Workers, RejectUnknownType(w)
          PROVE  CopiesAreCounted'
        <2>1. \A f \in Events : Settled(f) => Settled(f)'
            BY <1>4, InHandIsUnsettled, MarkKeepsSettled DEF RejectUnknownType, Marks
        <2>2. UNCHANGED <<sent, ambiguous, crashes>>
            BY <1>4 DEF RejectUnknownType, world
        <2> QED BY <1>0, <2>1, <2>2, SilentStepKeepsCount DEF CopiesAreCounted
    <1>5. ASSUME NEW w \in Workers, Send(w)
          PROVE  CopiesAreCounted'
        <2>1. PICK c \in Events : c = Current(w) /\ ~Settled(c)
            BY <1>5, InHandIsUnsettled DEF Send
        <2>2. /\ sent'[c] = sent[c] + 1 /\ \A f \in Events \ {c} : sent'[f] = sent[f]
              /\ pc'[w] = "mark" /\ \A v \in Workers : v # w => pc'[v] = pc[v]
              /\ UNCHANGED <<status, batch, marked, ambiguous, crashes>>
              /\ pc[w] = "process"
            BY <1>5, <2>1 DEF Send, Inductive, TypeOK
        <2>3. \A v \in Workers : Current(v)' = Current(v)
            BY <2>2 DEF Current
        <2>4. Settled(c)'
            <3>1. pc'[w] = "mark" /\ c = Current(w)'
                BY <2>1, <2>2, <2>3
            <3> QED BY <3>1 DEF Settled, Delivered
        <2>5. \A v \in Workers, f \in Events : Delivered(v, f) => Delivered(v, f)'
            BY <2>2, <2>3 DEF Delivered
        <2>6. \A f \in Events : Settled(f) => Settled(f)'
            BY <2>2, <2>5 DEF Settled
        <2>7. ASSUME NEW f \in Events
              PROVE  /\ sent'[f] <= 1 + ambiguous'[f] + crashes'
                     /\ ~Settled(f)' => sent'[f] <= ambiguous'[f] + crashes'
            <3>1. /\ sent[f] <= 1 + ambiguous[f] + crashes
                  /\ ~Settled(f) => sent[f] <= ambiguous[f] + crashes
                BY DEF CopiesAreCounted
            <3>2. CASE f = c
                <4>1. sent[f] <= ambiguous[f] + crashes /\ Settled(f)'
                    BY <2>1, <2>4, <3>1, <3>2
                <4>2. sent'[f] = sent[f] + 1 /\ UNCHANGED <<ambiguous, crashes>>
                    BY <2>2, <3>2
                <4> HIDE DEF Settled
                <4> QED BY <1>0, <4>1, <4>2
            <3>3. CASE f # c
                BY <1>0, <2>2, <2>6, <3>1, <3>3
            <3> QED BY <3>2, <3>3
        <2> QED BY <2>7 DEF CopiesAreCounted
    <1>6. ASSUME NEW w \in Workers, MarkDone(w)
          PROVE  CopiesAreCounted'
        <2>1. batch[w] # {}
            BY <1>6 DEF MarkDone, Inductive, HandsAreLocked
        <2>2. \A f \in Events : Settled(f) => Settled(f)'
            BY <1>6, <2>1, MarkKeepsSettled DEF MarkDone, Marks
        <2>3. UNCHANGED <<sent, ambiguous, crashes>>
            BY <1>6 DEF MarkDone, world
        <2> QED BY <1>0, <2>2, <2>3, SilentStepKeepsCount DEF CopiesAreCounted
    <1>7. ASSUME NEW w \in Workers, HandlerRaises(w)
          PROVE  CopiesAreCounted'
        <2> DEFINE c == Current(w)
        <2>1. c \in Events /\ ~Settled(c)
            BY <1>7, InHandIsUnsettled DEF HandlerRaises
        <2>2. AfterFailure(c) \in Marks
            BY DEF AfterFailure, Marks
        <2>3. \A f \in Events \ {c} : Settled(f) => Settled(f)'
            BY <1>7, <2>2, MarkKeepsSettled DEF HandlerRaises
        <2>4. /\ \A f \in Events \ {c} : sent'[f] = sent[f] /\ ambiguous'[f] = ambiguous[f]
              /\ \/ sent'[c] = sent[c] /\ ambiguous'[c] = ambiguous[c]
                 \/ sent'[c] = sent[c] + 1 /\ ambiguous'[c] = ambiguous[c] + 1
              /\ crashes' = crashes
            BY <1>7, <2>1 DEF HandlerRaises, Inductive, TypeOK
        <2>5. ASSUME NEW f \in Events
              PROVE  /\ sent'[f] <= 1 + ambiguous'[f] + crashes'
                     /\ ~Settled(f)' => sent'[f] <= ambiguous'[f] + crashes'
            <3>1. /\ sent[f] <= 1 + ambiguous[f] + crashes
                  /\ ~Settled(f) => sent[f] <= ambiguous[f] + crashes
                BY DEF CopiesAreCounted
            <3> HIDE DEF c
            <3>2. CASE f = c
                BY <1>0, <2>1, <2>4, <3>1, <3>2
            <3>3. CASE f # c
                BY <1>0, <2>3, <2>4, <3>1, <3>3
            <3> QED BY <3>2, <3>3
        <2> QED BY <2>5 DEF CopiesAreCounted
    <1>8. ASSUME NEW w \in Workers, Commit(w)
          PROVE  CopiesAreCounted'
        <2>1. /\ \A v \in Workers : v # w =>
                    batch'[v] = batch[v] /\ pc'[v] = pc[v] /\ marked'[v] = marked[v]
              /\ UNCHANGED <<sent, ambiguous, crashes>> /\ pc[w] = "process"
            BY <1>8 DEF Commit, Release, world, Inductive, TypeOK
        <2>2. ASSUME NEW f \in Events, marked[w][f] = "done"
              PROVE  status'[f] = "done"
            BY <1>8, <2>2 DEF Commit
        <2>3. ASSUME NEW f \in Events, status[f] = "done"
              PROVE  status'[f] = "done"
            <3>1. lockedBy[f] = NoWorker
                BY <2>3 DEF Inductive, HandsAreLocked
            <3>2. marked[w][f] = "none"
                BY <3>1, WorkersAssumption DEF Inductive, HandsAreLocked, InHand
            <3> QED BY <1>8, <2>3, <3>2 DEF Commit
        <2>4. \A v \in Workers, f \in Events : v # w /\ Delivered(v, f) => Delivered(v, f)'
            BY <2>1 DEF Delivered, Current
        <2>5. \A f \in Events : Settled(f) => Settled(f)'
            BY <2>1, <2>2, <2>3, <2>4 DEF Settled, Delivered
        <2> QED BY <1>0, <2>1, <2>5, SilentStepKeepsCount DEF CopiesAreCounted
    <1>9. ASSUME NEW w \in Workers, Crash(w)
          PROVE  CopiesAreCounted'
        <2>1. UNCHANGED <<sent, ambiguous>> /\ crashes' = crashes + 1
            BY <1>9 DEF Crash, world
        <2>2. crashes \in Nat
            BY LimitsAssumption DEF Inductive, TypeOK
        <2> QED BY <2>1, <2>2, SilentStepKeepsCount
    <1> QED BY <1>1, <1>2, <1>3, <1>4, <1>5, <1>6, <1>7, <1>8, <1>9 DEF Next, Work

-----------------------------------------------------------------------------
(* Calls of a handler *)

\* A worker has called the handler of e, or refused e, and not committed that yet.
Called(w, e) == marked[w][e] # "none" \/ (pc[w] = "mark" /\ e = Current(w))

\* A call that succeeded counts no attempt.
Uncounted(e) == status[e] = "done" \/ \E w \in Workers : Called(w, e)

\* Calls are counted as attempts, but for those that were rolled back, the one
\* that succeeded and the one that has yet to be committed.
CallsAreCounted ==
    \A e \in Events :
        /\ tries[e] <= attempts[e] + 1 + crashes
        /\ ~Uncounted(e) => tries[e] <= attempts[e] + crashes
        /\ status[e] = "done" => attempts[e] < MaxAttempts

\* Whose call has yet to be committed is not given up.
LEMMA UncountedHasAttempts ==
    ASSUME Inductive, CallsAreCounted, NEW e \in Events, Uncounted(e)
    PROVE  attempts[e] < MaxAttempts
    <1>1. CASE status[e] = "done"
        BY <1>1 DEF CallsAreCounted
    <1>2. ASSUME NEW w \in Workers, Called(w, e) PROVE attempts[e] < MaxAttempts
        <2>1. e \in InHand(w)
            <3>1. CASE pc[w] = "mark" /\ e = Current(w)
                <4>1. batch[w] # {} /\ batch[w] \subseteq Events
                    BY <3>1 DEF Inductive, HandsAreLocked, TypeOK
                <4> QED BY <3>1, <4>1, OldestIsMember DEF Current, InHand
            <3> QED BY <1>2, <3>1 DEF Called, InHand
        <2>2. lockedBy[e] = w
            BY <2>1 DEF Inductive, HandsAreLocked
        <2> QED BY <2>2, WorkersAssumption DEF Inductive, HandsAreLocked
    <1> QED BY <1>1, <1>2 DEF Uncounted

LEMMA CountBoundsCalls == Inductive /\ CallsAreCounted => \A e \in Events : tries[e] <= MaxAttempts + crashes
    <1> SUFFICES ASSUME Inductive, CallsAreCounted, NEW e \in Events
                 PROVE  tries[e] <= MaxAttempts + crashes
        OBVIOUS
    <1>1. attempts[e] \in 0..MaxAttempts /\ tries[e] \in Nat /\ crashes \in Nat /\ MaxAttempts \in Nat
        BY LimitsAssumption DEF Inductive, TypeOK
    <1>2. /\ tries[e] <= attempts[e] + 1 + crashes
          /\ ~Uncounted(e) => tries[e] <= attempts[e] + crashes
          /\ Uncounted(e) => attempts[e] < MaxAttempts
        BY UncountedHasAttempts DEF CallsAreCounted
    <1> HIDE DEF Uncounted
    <1> QED BY <1>1, <1>2

\* A step that calls nothing keeps the count if it commits no attempt short and
\* forgets no call, unless it is a crash.
LEMMA QuietStepKeepsCalls ==
    ASSUME Inductive, CallsAreCounted, UNCHANGED tries, crashes' \in Nat, crashes' >= crashes,
           \A e \in Events :
              /\ attempts'[e] \in Nat /\ attempts'[e] >= attempts[e]
              /\ Uncounted(e) => Uncounted(e)' \/ crashes' = crashes + 1 \/ attempts'[e] = attempts[e] + 1
              /\ status'[e] = "done" => attempts'[e] < MaxAttempts
    PROVE  CallsAreCounted'
    <1>1. \A e \in Events : attempts[e] \in Nat /\ tries[e] \in Nat /\ crashes \in Nat
        BY DEF Inductive, TypeOK
    <1>2. ASSUME NEW e \in Events
          PROVE  /\ tries'[e] <= attempts'[e] + 1 + crashes'
                 /\ ~Uncounted(e)' => tries'[e] <= attempts'[e] + crashes'
        <2>1. /\ tries[e] <= attempts[e] + 1 + crashes
              /\ ~Uncounted(e) => tries[e] <= attempts[e] + crashes
            BY DEF CallsAreCounted
        <2>2. /\ attempts'[e] \in Nat /\ attempts'[e] >= attempts[e]
              /\ Uncounted(e) => Uncounted(e)' \/ crashes' = crashes + 1 \/ attempts'[e] = attempts[e] + 1
            OBVIOUS
        <2> HIDE DEF Uncounted
        <2> QED BY <1>1, <2>1, <2>2
    <1> QED BY <1>2 DEF CallsAreCounted

\* What a worker is about to handle, nobody has called.
LEMMA InHandIsUncalled ==
    ASSUME Inductive, NEW w \in Workers, pc[w] = "process", batch[w] # {}
    PROVE  /\ Current(w) \in Events /\ Current(w) \in batch[w]
           /\ ~Uncounted(Current(w))
           /\ marked[w][Current(w)] = "none"
    <1> DEFINE c == Current(w)
    <1>1. c \in batch[w] /\ c \in Events
        BY OldestIsMember DEF Current, Inductive, TypeOK
    <1>2. lockedBy[c] = w /\ marked[w][c] = "none"
        BY <1>1 DEF Inductive, HandsAreLocked, InHand
    <1>3. status[c] = "pending"
        BY <1>1, <1>2, WorkersAssumption DEF Inductive, HandsAreLocked
    <1>4. ASSUME NEW v \in Workers, Called(v, c) PROVE FALSE
        <2>1. v = w
            <3>1. CASE marked[v][c] # "none"
                BY <1>1, <1>2, <3>1 DEF Inductive, HandsAreLocked, InHand
            <3>2. CASE pc[v] = "mark" /\ c = Current(v)
                <4>1. batch[v] # {} /\ batch[v] \subseteq Events
                    BY <3>2 DEF Inductive, HandsAreLocked, TypeOK
                <4>2. c \in batch[v]
                    BY <3>2, <4>1, OldestIsMember DEF Current
                <4> QED BY <1>2, <4>2 DEF Inductive, HandsAreLocked, InHand
            <3> QED BY <1>4, <3>1, <3>2 DEF Called
        <2> QED BY <1>2, <1>4, <2>1 DEF Called
    <1> QED BY <1>1, <1>2, <1>3, <1>4 DEF Uncounted

\* The event that is marked is called, and the others are as they were.
LEMMA MarkKeepsCalls ==
    ASSUME Inductive, NEW w \in Workers, NEW mark \in Marks \ {"none"}, batch[w] # {},
           Mark(w, mark), UNCHANGED status
    PROVE  /\ \A e \in Events : Uncounted(e) => Uncounted(e)'
           /\ \A e \in Events : e = Current(w) => Uncounted(e)'
    <1>1. PICK c \in Events : c = Current(w)
        BY OldestIsMember DEF Current, Inductive, TypeOK
    <1>2. /\ marked'[w][c] = mark
          /\ \A e \in Events : e # c => marked'[w][e] = marked[w][e]
          /\ \A v \in Workers : v # w =>
                marked'[v] = marked[v] /\ batch'[v] = batch[v] /\ pc'[v] = pc[v]
        BY <1>1 DEF Mark, Inductive, TypeOK
    <1>3. \A v \in Workers : v # w => Current(v)' = Current(v)
        BY <1>2 DEF Current
    <1>4. Called(w, c)'
        BY <1>2 DEF Called
    <1>5. ASSUME NEW e \in Events, e # c, NEW v \in Workers, Called(v, e)
          PROVE  \E x \in Workers : Called(x, e)'
        <2>1. CASE v = w
            <3>1. marked[w][e] # "none"
                BY <1>1, <1>5, <2>1 DEF Called
            <3>2. Called(w, e)'
                BY <1>2, <1>5, <3>1 DEF Called
            <3> QED BY <3>2
        <2>2. CASE v # w
            BY <1>2, <1>3, <1>5, <2>2 DEF Called
        <2> QED BY <2>1, <2>2
    <1>6. ASSUME NEW e \in Events, Uncounted(e)
          PROVE  Uncounted(e)'
        BY <1>4, <1>5, <1>6 DEF Uncounted
    <1>7. \A e \in Events : e = c => Uncounted(e)'
        BY <1>4 DEF Uncounted
    <1> QED BY <1>1, <1>6, <1>7

LEMMA NextKeepsCalls == Inductive /\ CallsAreCounted /\ [Next]_vars => CallsAreCounted'
    <1> SUFFICES ASSUME Inductive, CallsAreCounted, [Next]_vars
                 PROVE  CallsAreCounted'
        OBVIOUS
    <1>0. /\ \A e \in Events : attempts[e] \in Nat /\ attempts[e] >= attempts[e] /\ tries[e] \in Nat
          /\ crashes \in Nat /\ crashes >= crashes
        BY LimitsAssumption DEF Inductive, TypeOK
    <1>1. CASE UNCHANGED vars
        BY <1>1 DEF vars, world, CallsAreCounted, Uncounted, Called, Current
    <1>2. ASSUME NEW e \in Events, Enqueue(e)
          PROVE  CallsAreCounted'
        <2>1. \A f \in Events : status[f] = "done" <=> status'[f] = "done"
            BY <1>2 DEF Enqueue, Inductive, TypeOK
        <2>2. \A f \in Events : Uncounted(f) => Uncounted(f)'
            BY <1>2, <2>1 DEF Enqueue, Uncounted, Called, Current
        <2>3. UNCHANGED <<tries, attempts, crashes>>
            BY <1>2 DEF Enqueue, world
        <2>4. \A f \in Events : status'[f] = "done" => attempts'[f] < MaxAttempts
            BY <2>1, <2>3 DEF CallsAreCounted
        <2> QED BY <1>0, <2>2, <2>3, <2>4, QuietStepKeepsCalls
    <1>3. ASSUME NEW w \in Workers, FetchPending(w)
          PROVE  CallsAreCounted'
        <2>1. /\ \A v \in Workers : v # w => batch'[v] = batch[v] /\ pc'[v] = pc[v]
              /\ UNCHANGED <<status, attempts, marked, tries, crashes>> /\ pc[w] = "poll"
            BY <1>3 DEF FetchPending, world, Inductive, TypeOK
        <2>2. ASSUME NEW v \in Workers, NEW f \in Events, Called(v, f)
              PROVE  Called(v, f)'
            <3>1. CASE v = w
                BY <2>1, <2>2, <3>1 DEF Called
            <3>2. CASE v # w
                BY <2>1, <2>2, <3>2 DEF Called, Current
            <3> QED BY <3>1, <3>2
        <2>3. \A f \in Events : Uncounted(f) => Uncounted(f)'
            BY <2>1, <2>2 DEF Uncounted
        <2>4. \A f \in Events : status'[f] = "done" => attempts'[f] < MaxAttempts
            BY <2>1 DEF CallsAreCounted
        <2> QED BY <1>0, <2>1, <2>3, <2>4, QuietStepKeepsCalls
    <1>4. ASSUME NEW w \in Workers, NEW mark \in Marks \ {"none"}, batch[w] # {}, Mark(w, mark),
                 UNCHANGED <<status, attempts, tries, crashes>>
          PROVE  CallsAreCounted'
        <2>1. \A f \in Events : Uncounted(f) => Uncounted(f)'
            BY <1>4, MarkKeepsCalls
        <2>2. \A f \in Events : status'[f] = "done" => attempts'[f] < MaxAttempts
            BY <1>4 DEF CallsAreCounted
        <2> QED BY <1>0, <1>4, <2>1, <2>2, QuietStepKeepsCalls
    <1>5. ASSUME NEW w \in Workers, RejectUnknownType(w)
          PROVE  CallsAreCounted'
        BY <1>4, <1>5 DEF RejectUnknownType, Marks, world
    <1>6. ASSUME NEW w \in Workers, MarkDone(w)
          PROVE  CallsAreCounted'
        <2>1. batch[w] # {}
            BY <1>6 DEF MarkDone, Inductive, HandsAreLocked
        <2> QED BY <1>4, <1>6, <2>1 DEF MarkDone, Marks, world
    \* The handler is called, and what it has in hand was not called before.
    <1>7. ASSUME NEW c \in Events, ~Uncounted(c),
                 tries'[c] = tries[c] + 1, \A f \in Events : f # c => tries'[f] = tries[f],
                 UNCHANGED <<status, attempts, crashes>>,
                 \A f \in Events : Uncounted(f) => Uncounted(f)', Uncounted(c)'
          PROVE  CallsAreCounted'
        <2>1. ASSUME NEW f \in Events
              PROVE  /\ tries'[f] <= attempts'[f] + 1 + crashes'
                     /\ ~Uncounted(f)' => tries'[f] <= attempts'[f] + crashes'
            <3>1. /\ tries[f] <= attempts[f] + 1 + crashes
                  /\ ~Uncounted(f) => tries[f] <= attempts[f] + crashes
                BY DEF CallsAreCounted
            <3>2. CASE f = c
                <4>1. tries[f] <= attempts[f] + crashes /\ Uncounted(f)'
                    BY <1>7, <3>1, <3>2
                <4>2. tries'[f] = tries[f] + 1 /\ UNCHANGED <<attempts, crashes>>
                    BY <1>7, <3>2
                <4> HIDE DEF Uncounted
                <4> QED BY <1>0, <4>1, <4>2
            <3>3. CASE f # c
                <4>1. tries'[f] = tries[f] /\ UNCHANGED <<attempts, crashes>>
                    BY <1>7, <3>3
                <4>2. ~Uncounted(f)' => ~Uncounted(f)
                    BY <1>7
                <4> HIDE DEF Uncounted
                <4> QED BY <3>1, <4>1, <4>2
            <3> QED BY <3>2, <3>3
        <2>2. \A f \in Events : status'[f] = "done" => attempts'[f] < MaxAttempts
            BY <1>7 DEF CallsAreCounted
        <2> QED BY <2>1, <2>2 DEF CallsAreCounted
    <1>8. ASSUME NEW w \in Workers, Send(w)
          PROVE  CallsAreCounted'
        <2>1. PICK c \in Events : c = Current(w) /\ ~Uncounted(c)
            BY <1>8, InHandIsUncalled DEF Send
        <2>2. /\ tries'[c] = tries[c] + 1 /\ \A f \in Events : f # c => tries'[f] = tries[f]
              /\ pc'[w] = "mark" /\ \A v \in Workers : v # w => pc'[v] = pc[v]
              /\ UNCHANGED <<status, attempts, batch, marked, crashes>>
              /\ pc[w] = "process"
            BY <1>8, <2>1 DEF Send, Inductive, TypeOK
        <2>3. \A v \in Workers : Current(v)' = Current(v)
            BY <2>2 DEF Current
        <2>4. Uncounted(c)'
            <3>1. pc'[w] = "mark" /\ c = Current(w)'
                BY <2>1, <2>2, <2>3
            <3> QED BY <3>1 DEF Uncounted, Called
        <2>5. \A v \in Workers, f \in Events : Called(v, f) => Called(v, f)'
            BY <2>2, <2>3 DEF Called
        <2>6. \A f \in Events : Uncounted(f) => Uncounted(f)'
            BY <2>2, <2>5 DEF Uncounted
        <2> QED BY <1>7, <2>1, <2>2, <2>4, <2>6
    <1>9. ASSUME NEW w \in Workers, HandlerRaises(w)
          PROVE  CallsAreCounted'
        <2>1. PICK c \in Events : c = Current(w) /\ ~Uncounted(c)
            BY <1>9, InHandIsUncalled DEF HandlerRaises
        <2>2. PICK mark \in Marks \ {"none"} : mark = AfterFailure(c)
            BY DEF AfterFailure, Marks
        <2>3. /\ tries'[c] = tries[c] + 1 /\ \A f \in Events : f # c => tries'[f] = tries[f]
              /\ UNCHANGED <<status, attempts, crashes>>
              /\ batch[w] # {} /\ Mark(w, mark)
            BY <1>9, <2>1, <2>2 DEF HandlerRaises, Inductive, TypeOK
        <2>4. /\ \A f \in Events : Uncounted(f) => Uncounted(f)'
              /\ Uncounted(c)'
            BY <2>1, <2>3, MarkKeepsCalls
        <2> QED BY <1>7, <2>1, <2>3, <2>4
    <1>10. ASSUME NEW w \in Workers, Commit(w)
           PROVE  CallsAreCounted'
        <2>1. /\ \A v \in Workers : v # w =>
                    batch'[v] = batch[v] /\ pc'[v] = pc[v] /\ marked'[v] = marked[v]
              /\ UNCHANGED <<tries, crashes>> /\ pc[w] = "process"
            BY <1>10 DEF Commit, Release, world, Inductive, TypeOK
        <2>2. \A f \in Events : marked[w][f] \in Marks
            BY DEF Inductive, TypeOK
        <2>3. ASSUME NEW f \in Events, status[f] = "done"
              PROVE  marked[w][f] = "none"
            <3>1. lockedBy[f] = NoWorker
                BY <2>3 DEF Inductive, HandsAreLocked
            <3> QED BY <3>1, WorkersAssumption DEF Inductive, HandsAreLocked, InHand
        <2>4. ASSUME NEW f \in Events
              PROVE  /\ marked[w][f] = "none" => status'[f] = status[f] /\ attempts'[f] = attempts[f]
                     /\ marked[w][f] = "done" => status'[f] = "done" /\ attempts'[f] = attempts[f]
                     /\ marked[w][f] \in {"failed", "retry"}
                           => status'[f] # "done" /\ attempts'[f] = attempts[f] + 1
            BY <1>10 DEF Commit
        <2>5. \A v \in Workers, f \in Events : v # w /\ Called(v, f) => Called(v, f)'
            BY <2>1 DEF Called, Current
        <2>6. ASSUME NEW f \in Events, Uncounted(f)
              PROVE  Uncounted(f)' \/ attempts'[f] = attempts[f] + 1
            <3>1. CASE status[f] = "done"
                BY <2>3, <2>4, <3>1 DEF Uncounted
            <3>2. CASE marked[w][f] # "none"
                BY <2>2, <2>4, <3>2 DEF Uncounted, Marks
            <3>3. ASSUME NEW v \in Workers, v # w, Called(v, f) PROVE Uncounted(f)'
                BY <2>5, <3>3 DEF Uncounted
            <3>4. Called(w, f) => marked[w][f] # "none"
                BY <2>1 DEF Called
            <3> QED BY <2>6, <3>1, <3>2, <3>3, <3>4 DEF Uncounted
        <2>7. ASSUME NEW f \in Events, status'[f] = "done"
              PROVE  attempts'[f] < MaxAttempts
            <3>1. CASE marked[w][f] = "done"
                <4>1. Uncounted(f)
                    BY <3>1 DEF Uncounted, Called
                <4> QED BY <2>4, <3>1, <4>1, UncountedHasAttempts
            <3>2. CASE marked[w][f] = "none"
                BY <2>4, <2>7, <3>2 DEF CallsAreCounted
            <3> QED BY <2>2, <2>4, <2>7, <3>1, <3>2 DEF Marks
        <2>8. \A f \in Events : attempts'[f] \in Nat /\ attempts'[f] >= attempts[f]
            BY <1>0, <2>2, <2>4 DEF Marks
        <2> QED BY <1>0, <2>1, <2>6, <2>7, <2>8, QuietStepKeepsCalls
    <1>11. ASSUME NEW w \in Workers, Crash(w)
           PROVE  CallsAreCounted'
        <2>1. UNCHANGED <<status, tries, attempts>> /\ crashes' = crashes + 1
            BY <1>11 DEF Crash, world
        <2>2. \A f \in Events : status'[f] = "done" => attempts'[f] < MaxAttempts
            BY <2>1 DEF CallsAreCounted
        <2>3. crashes' \in Nat /\ crashes' >= crashes
            BY <1>0, <2>1
        <2> QED BY <1>0, <2>1, <2>2, <2>3, QuietStepKeepsCalls
    <1> QED BY <1>1, <1>2, <1>3, <1>5, <1>6, <1>8, <1>9, <1>10, <1>11 DEF Next, Work

-----------------------------------------------------------------------------
(* Theorem *)

\* What is done again has an excuse, whatever workers, batches and limits: a second
\* copy of an email a rolled-back batch or a server that took the email and let the
\* call fail, and a call beyond MaxAttempts a rolled-back batch.
THEOREM CopiesAreExplained == Spec => []DuplicatesExplained
    <1>1. Init => CopiesAreCounted /\ CallsAreCounted
        <2>1. Init => Inductive
            BY InitInductive
        <2> QED BY LimitsAssumption DEF Init, CopiesAreCounted, CallsAreCounted
    <1>2. Inductive /\ CopiesAreCounted /\ CallsAreCounted => DuplicatesExplained
        BY CountBoundsCalls DEF CopiesAreCounted, DuplicatesExplained
    <1> QED BY <1>1, <1>2, NextKeepsCount, NextKeepsCalls, InductiveInvariant, PTL DEF Spec

=============================================================================
