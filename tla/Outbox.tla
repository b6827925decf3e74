-------------------------------- MODULE Outbox --------------------------------
(***************************************************************************)
(* The transactional outbox (src/app/core/outbox.py) and the notification  *)
(* workers that poll it (src/app/notifications/worker.py).                 *)
(*                                                                         *)
(* A worker handles a whole batch inside one database transaction: it      *)
(* locks the rows it fetched (FOR UPDATE SKIP LOCKED), sends the emails as *)
(* it goes, and commits all the marks at the end.  What was sent cannot be *)
(* rolled back; the marks and the attempt counters can.                    *)
(*                                                                         *)
(* An event is a positive integer, its place in the order of created_at:   *)
(* the start of the transaction that enqueued it, so that an older event   *)
(* may well be committed after a newer one.                                *)
(***************************************************************************)
EXTENDS Integers, FiniteSets

CONSTANTS
    Workers,       \* notification_worker processes
    NoWorker,
    Events,        \* the rows outbox_events may come to hold
    EmailEvents,   \* those of event_type "email", the only type with a handler
    BatchLimit,    \* fetch_pending's limit (50)
    MaxAttempts,   \* MAX_ATTEMPTS (5)
    MaxCrashes     \* bound of the model: how often workers die mid-batch

ASSUME WorkersAssumption == NoWorker \notin Workers

ASSUME EventsAssumption ==
    /\ Events \subseteq Nat \ {0}
    /\ EmailEvents \subseteq Events

ASSUME LimitsAssumption ==
    /\ BatchLimit \in Nat \ {0}
    /\ MaxAttempts \in Nat \ {0}
    /\ MaxCrashes \in Nat

VARIABLES
    status,     \* per event: "absent" or its committed status column
    attempts,   \* its committed attempts column
    lockedBy,   \* the worker whose transaction holds the row
    pc,         \* where each worker is
    batch,      \* the fetched events a worker has still to process
    marked,     \* what the worker's transaction wrote, not yet committed
    tries,      \* history: how often the handler of an event was called
    sent,       \* history: how often the mail server took its email
    ambiguous,  \* history: how often it took it and the call failed all the same
    crashes     \* history: rolled back batches

vars == <<status, attempts, lockedBy, pc, batch, marked, tries, sent, ambiguous, crashes>>
world == <<tries, sent, ambiguous>>

-----------------------------------------------------------------------------
(* Definitions *)

Handled(e) == e \in EmailEvents

ClaimableLocked == {e \in Events : status[e] = "pending"}  \* mutant: no FOR UPDATE
ClaimableDone ==  \* mutant: the status filter lets settled events through
    {e \in Events : status[e] \in {"pending", "done"} /\ lockedBy[e] = NoWorker}
Claimable == {e \in Events : status[e] = "pending" /\ lockedBy[e] = NoWorker}

Oldest(S) == CHOOSE e \in S : \A f \in S : e <= f

\* A batch: the oldest claimable events, at most BatchLimit of them.
Claims(S) ==
    /\ S \subseteq Claimable
    /\ \A e \in S, f \in Claimable \ S : e < f
    /\ Cardinality(S) <= BatchLimit
    /\ S # Claimable => Cardinality(S) = BatchLimit

Unmarked == [e \in Events |-> "none"]

\* The mark of a handler that raised: failed for good, or pending again.
AfterFailureLate(e) ==  \* mutant: ">" for ">="
    IF attempts[e] + 1 > MaxAttempts THEN "failed" ELSE "retry"
AfterFailureEarly(e) ==  \* mutant: one attempt too few
    IF attempts[e] + 2 >= MaxAttempts THEN "failed" ELSE "retry"
AfterFailure(e) == IF attempts[e] + 1 >= MaxAttempts THEN "failed" ELSE "retry"

\* The event a worker is at.
Current(w) == Oldest(batch[w])

\* The mark is written and the loop goes on to the next event of the batch.
Mark(w, mark) ==
    /\ marked' = [marked EXCEPT ![w][Current(w)] = mark]
    /\ batch' = [batch EXCEPT ![w] = @ \ {Current(w)}]
    /\ pc' = [pc EXCEPT ![w] = "process"]

\* The transaction of a worker is over, one way or the other.
ReleaseHolding(w) ==  \* mutant: the transaction is never ended
    /\ UNCHANGED lockedBy
    /\ batch' = [batch EXCEPT ![w] = {}]
    /\ marked' = [marked EXCEPT ![w] = Unmarked]
    /\ pc' = [pc EXCEPT ![w] = "poll"]
Release(w) ==
    /\ lockedBy' = [e \in Events |-> IF lockedBy[e] = w THEN NoWorker ELSE lockedBy[e]]
    /\ batch' = [batch EXCEPT ![w] = {}]
    /\ marked' = [marked EXCEPT ![w] = Unmarked]
    /\ pc' = [pc EXCEPT ![w] = "poll"]

-----------------------------------------------------------------------------
(* Actions *)

Init ==
    /\ status = [e \in Events |-> "absent"]
    /\ attempts = [e \in Events |-> 0]
    /\ lockedBy = [e \in Events |-> NoWorker]
    /\ pc = [w \in Workers |-> "poll"]
    /\ batch = [w \in Workers |-> {}]
    /\ marked = [w \in Workers |-> Unmarked]
    /\ tries = [e \in Events |-> 0]
    /\ sent = [e \in Events |-> 0]
    /\ ambiguous = [e \in Events |-> 0]
    /\ crashes = 0

\* The transaction that called enqueue commits, and the event with it.
Enqueue(e) ==
    /\ status[e] = "absent"
    /\ status' = [status EXCEPT ![e] = "pending"]
    /\ UNCHANGED <<attempts, lockedBy, pc, batch, marked, world, crashes>>

\* A poll begins a transaction and claims a batch, perhaps an empty one.
FetchPending(w) ==
    /\ pc[w] = "poll"
    /\ \E S \in SUBSET Claimable :
          /\ Claims(S)
          /\ batch' = [batch EXCEPT ![w] = S]
          /\ lockedBy' = [e \in Events |-> IF e \in S THEN w ELSE lockedBy[e]]
    /\ pc' = [pc EXCEPT ![w] = "process"]
    /\ UNCHANGED <<status, attempts, marked, world, crashes>>

\* No handler for the event_type: failed at once.
SkipUnknownType(w) ==  \* mutant: an event without a handler is taken as done
    /\ pc[w] = "process"
    /\ batch[w] # {}
    /\ ~Handled(Current(w))
    /\ Mark(w, "done")
    /\ UNCHANGED <<status, attempts, lockedBy, world, crashes>>
RejectUnknownType(w) ==
    /\ pc[w] = "process"
    /\ batch[w] # {}
    /\ ~Handled(Current(w))
    /\ Mark(w, "failed")
    /\ UNCHANGED <<status, attempts, lockedBy, world, crashes>>

\* The handler returns: the mail server took the email.
Send(w) ==
    /\ pc[w] = "process"
    /\ batch[w] # {}
    /\ Handled(Current(w))
    /\ tries' = [tries EXCEPT ![Current(w)] = @ + 1]
    /\ sent' = [sent EXCEPT ![Current(w)] = @ + 1]
    /\ pc' = [pc EXCEPT ![w] = "mark"]
    /\ UNCHANGED <<status, attempts, lockedBy, batch, marked, ambiguous, crashes>>

\* mark_done, a second statement after the handler.
MarkDone(w) ==
    /\ pc[w] = "mark"
    /\ Mark(w, "done")
    /\ UNCHANGED <<status, attempts, lockedBy, world, crashes>>

\* The handler raises, without the email having left or although it has (the
\* reply of the server was lost): the event is retried or given up.
HandlerRaises(w) ==
    /\ pc[w] = "process"
    /\ batch[w] # {}
    /\ Handled(Current(w))
    /\ tries' = [tries EXCEPT ![Current(w)] = @ + 1]
    /\ \/ UNCHANGED <<sent, ambiguous>>
       \/ /\ sent' = [sent EXCEPT ![Current(w)] = @ + 1]
          /\ ambiguous' = [ambiguous EXCEPT ![Current(w)] = @ + 1]
    /\ Mark(w, AfterFailure(Current(w)))
    /\ UNCHANGED <<status, attempts, lockedBy, crashes>>

\* The batch is done: its marks become visible together.
Commit(w) ==
    /\ pc[w] = "process"
    /\ batch[w] = {}
    /\ status' = [e \in Events |->
                    IF marked[w][e] \in {"done", "failed"} THEN marked[w][e]
                    ELSE IF marked[w][e] = "retry" THEN "pending" ELSE status[e]]
    /\ attempts' = [e \in Events |->
                    IF marked[w][e] \in {"failed", "retry"} THEN attempts[e] + 1
                    ELSE attempts[e]]
    /\ Release(w)
    /\ UNCHANGED <<world, crashes>>

\* A statement fails, the connection drops or the process is killed before the
\* commit: every mark of the batch is rolled back; the container restarts the
\* worker, which polls again.
Crash(w) ==
    /\ pc[w] # "poll"
    /\ crashes < MaxCrashes
    /\ crashes' = crashes + 1
    /\ Release(w)
    /\ UNCHANGED <<status, attempts, world>>

Work(w) ==
    \/ FetchPending(w)
    \/ RejectUnknownType(w)
    \/ Send(w)
    \/ MarkDone(w)
    \/ HandlerRaises(w)
    \/ Commit(w)

Next ==
    \/ \E e \in Events : Enqueue(e)
    \/ \E w \in Workers : Work(w) \/ Crash(w)

Spec == Init /\ [][Next]_vars

\* A worker keeps polling and working through its batch; nothing obliges an
\* event to be enqueued or a worker to crash.
FairSpec == Spec /\ \A w \in Workers : WF_vars(Work(w))

-----------------------------------------------------------------------------
(* Properties *)

Statuses == {"absent", "pending", "done", "failed"}
Marks == {"none", "done", "failed", "retry"}

\* Type invariant; the attempts column never exceeds MaxAttempts.
TypeOK ==
    /\ status \in [Events -> Statuses]
    /\ attempts \in [Events -> 0..MaxAttempts]
    /\ lockedBy \in [Events -> Workers \cup {NoWorker}]
    /\ pc \in [Workers -> {"poll", "process", "mark"}]
    /\ batch \in [Workers -> SUBSET Events]
    /\ marked \in [Workers -> [Events -> Marks]]
    /\ tries \in [Events -> Nat]
    /\ sent \in [Events -> Nat]
    /\ ambiguous \in [Events -> Nat]
    /\ crashes \in 0..MaxCrashes

\* The events in the hands of a worker.
InHand(w) == batch[w] \cup {e \in Events : marked[w][e] # "none"}

\* SKIP LOCKED: two workers never work on one event at the same time, and
\* nobody works on an event that is not pending.
ExclusiveClaim ==
    /\ \A v, w \in Workers : v # w => InHand(v) \cap InHand(w) = {}
    /\ \A w \in Workers : \A e \in InHand(w) : status[e] = "pending"

\* An event is done only if its email was really sent, whatever crashed or
\* rolled back before.
DoneWasSent == \A e \in Events : status[e] = "done" => sent[e] > 0

\* An event is given up only after MaxAttempts calls of its handler, or because
\* its type has none; then it was never sent.
FailedWasEarned ==
    \A e \in Events :
        status[e] = "failed" =>
            \/ Handled(e) /\ attempts[e] = MaxAttempts /\ tries[e] >= MaxAttempts
            \/ ~Handled(e) /\ tries[e] = 0

\* What is done again has an excuse.  For a second copy of an email it is a batch
\* that was rolled back, or a server that took the email and let the call fail; for
\* a call of the handler beyond MaxAttempts only a batch that was rolled back.
DuplicatesExplained ==
    \A e \in Events :
        /\ sent[e] <= 1 + ambiguous[e] + crashes
        /\ tries[e] <= MaxAttempts + crashes

\* The outcome of an event is final, and its attempts are never forgotten once
\* they are committed.
OutcomeIsFinal ==
    [][\A e \in Events :
          /\ status[e] \in {"done", "failed"} => status'[e] = status[e]
          /\ attempts'[e] >= attempts[e]]_vars

\* Every event is settled in the end: no worker starves it, and one that keeps
\* failing does not hold up the others.
EventuallySettled ==
    \A e \in Events : status[e] = "pending" ~> status[e] \in {"done", "failed"}

\* ARCHITECTURE, "Outbox Pattern": "Max 5 attempts before permanent failure".
AtMostMaxAttempts == \A e \in Events : tries[e] <= MaxAttempts

-----------------------------------------------------------------------------
(* The inductive invariant *)

\* What a worker has in hand it has locked, what is locked is pending and not
\* yet tried MaxAttempts times, and an idle worker has nothing in hand.
HandsAreLocked ==
    /\ \A w \in Workers : \A e \in InHand(w) : lockedBy[e] = w
    /\ \A w \in Workers : \A e \in batch[w] : marked[w][e] = "none"
    /\ \A e \in Events : lockedBy[e] # NoWorker => status[e] = "pending"
    /\ \A e \in Events : status[e] \in {"absent", "pending"} => attempts[e] < MaxAttempts
    /\ \A w \in Workers : pc[w] = "mark" => batch[w] # {}

\* Marks, committed or not, tell the truth about the mail server.
MarksAreTrue ==
    /\ \A w \in Workers : \A e \in Events : marked[w][e] = "done" => sent[e] > 0
    /\ \A w \in Workers : pc[w] = "mark" => sent[Current(w)] > 0 /\ Handled(Current(w))
    /\ \A e \in Events : status[e] = "done" => sent[e] > 0

\* The attempts counted, with the one a worker is about to commit, were made.
AttemptsWereMade ==
    /\ \A e \in Events : Handled(e) => attempts[e] <= tries[e]
    /\ \A e \in Events : ~Handled(e) => tries[e] = 0
    /\ \A w \in Workers : \A e \in Events :
          /\ marked[w][e] = "retry" => Handled(e) /\ attempts[e] + 1 < MaxAttempts
          /\ marked[w][e] = "failed" /\ Handled(e) => attempts[e] + 1 = MaxAttempts
          /\ marked[w][e] \in {"retry", "failed"} /\ Handled(e) => attempts[e] + 1 <= tries[e]

Inductive ==
    /\ TypeOK
    /\ HandsAreLocked
    /\ MarksAreTrue
    /\ AttemptsWereMade
    /\ FailedWasEarned

-----------------------------------------------------------------------------
\* What a producer may rely on, with no worker, batch or lock in sight.
Promise == INSTANCE EventDelivery WITH status <- status, sent <- sent

\* Every step of a worker or a producer is one of the producer's promise, or
\* changes neither an event's status nor what was sent.
Implements == Promise!Spec

=============================================================================
