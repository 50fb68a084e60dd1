--------------------------- MODULE EventProcessing ---------------------------
(***************************************************************************)
(* The database transactions that move an event through its life:          *)
(* ingestion (api/events.py), process_one_event and fail_event             *)
(* (workers/event_worker.py) and replay_dlq (api/system.py), statement by  *)
(* statement, on PostgreSQL row locks.                                     *)
(*                                                                         *)
(* A session is one open transaction: a worker's or a replay request's.    *)
(* The stream delivers at least once, in any order and to any worker, so   *)
(* any session may start processing or failing any id at any time, however *)
(* often; EventPipeline models when it really does.                        *)
(*                                                                         *)
(* Every transaction takes its row locks with SELECT ... FOR UPDATE and    *)
(* reads the locked row at that moment (READ COMMITTED), so LockX both     *)
(* acquires and reads. Writes become visible, and locks are released, at   *)
(* the commit. An early return, a validation error, an exception, a lost   *)
(* connection and a crash all roll back: that is Close.                    *)
(***************************************************************************)
EXTENDS Integers, Sequences, FiniteSets, FiniteSetsExt

CONSTANTS
    Events, Foreign, Customers, CustomerOf,   \* as in EventLifecycle
    KindOf,         \* events.event_type
    ChannelOf,      \* events.channel
    TimeOf,         \* events.timestamp, in decay periods since some origin
    WeightOf,       \* base weight times channel weight, as an integer
    Horizon,        \* the latest timestamp
    Decay,          \* Decay[d]: the factor a contribution loses in d periods
    Channels,       \* the channels a customer can opt out of, and "web"
    Sessions,       \* concurrent database sessions
    MaxDeadLetters  \* bound: rows of dlq_events

Ids == Events \cup Foreign
Times == 0 .. Horizon
Never == -1
Kinds == {"purchase", "unsubscribe", "complaint", "other"}

ASSUME ProcessingAssumption ==
    /\ IsFiniteSet(Events)
    /\ Events \cap Foreign = {}
    /\ CustomerOf \in [Events -> Customers]
    /\ KindOf \in [Events -> Kinds]
    /\ ChannelOf \in [Events -> Channels]
    /\ Horizon \in Nat
    /\ TimeOf \in [Events -> Times]
    /\ WeightOf \in [Events -> Int]
    /\ MaxDeadLetters \in Nat

\* The decay is exponential: it multiplies over consecutive intervals.
ASSUME DecayAssumption ==
    /\ Decay \in [Times -> Nat \ {0}]
    /\ Decay[0] = 1
    /\ \A a, b \in Times : a + b \in Times => Decay[a + b] = Decay[a] * Decay[b]

VARIABLES
    status,       \* events.status, "absent" while there is no row
    engagement,   \* engagement_scores: score, last_updated, contributions
    profile,      \* customers: last_active, has_converted, opted-out channels
    dlq,          \* dlq_events, in id order
    held,         \* the row locks of each session
    txn           \* what each session is doing and has read

vars == <<status, engagement, profile, dlq, held, txn>>

EventRow(e) == <<"event", e>>
CustomerRow(c) == <<"customer", c>>
DlqRow(i) == <<"dlq", i>>
Locks == {EventRow(e) : e \in Events}
            \cup {CustomerRow(c) : c \in Customers}
            \cup {DlqRow(i) : i \in 1 .. MaxDeadLetters}
Free(lock) == \A s \in Sessions : lock \notin held[s]

Statuses == {"absent", "pending", "processed", "failed"}
Terminal == {"processed", "failed"}
Engagements == [score : Int, clock : Times \cup {Never}, count : Nat]
Profiles == [lastActive : Times \cup {Never}, converted : BOOLEAN,
             optedOut : SUBSET Channels]
NoEngagement == [score |-> 0, clock |-> Never, count |-> 0]

\* The status that SELECT ... WHERE event_id = id finds.
StatusOf(id) == IF id \in Events THEN status[id] ELSE "absent"
Durable(id) == StatusOf(id) # "absent"

\* What the stream can deliver: the outbox publishes committed events only.
Deliverable == {id \in Ids : id \in Events => Durable(id)}

Idle == [op |-> "idle", at |-> "idle", id |-> "none", row |-> 0,
         seen |-> "absent", active |-> Never, read |-> NoEngagement]

\* The engagement and customer fields hold what the session read.
Txns == [op : {"idle", "process", "fail", "replay"},
         at : {"idle", "begun", "event", "customer", "score", "dlq"},
         id : Ids \cup {"none"}, row : 0 .. MaxDeadLetters, seen : Statuses,
         active : Times \cup {Never}, read : Engagements]

Init ==
    /\ status = [e \in Events |-> "absent"]
    /\ engagement = [c \in Customers |-> NoEngagement]
    /\ profile = [c \in Customers |->
                    [lastActive |-> Never, converted |-> FALSE, optedOut |-> {}]]
    /\ dlq = <<>>
    /\ held = [s \in Sessions |-> {}]
    /\ txn = [s \in Sessions |-> Idle]

----------------------------------------------------------------------------
(* domain/scoring/engagement_score.py                                      *)

\* A contribution at its own timestamp, in units that decay exactly.
FullWeight(e) == WeightOf[e] * Decay[Horizon]

\* Mutant: scores in arrival order, as if no event were ever late.
NewScoreInArrivalOrder(eng, e) ==
    IF eng.clock = Never
    THEN FullWeight(e)
    ELSE LET gap == IF TimeOf[e] < eng.clock THEN eng.clock - TimeOf[e]
                                             ELSE TimeOf[e] - eng.clock
         IN (eng.score \div Decay[gap]) + FullWeight(e)

\* An event older than the accumulator decays into it; a newer one decays it.
NewScore(eng, e) ==
    IF eng.clock = Never
    THEN FullWeight(e)
    ELSE IF TimeOf[e] < eng.clock
         THEN eng.score + (FullWeight(e) \div Decay[eng.clock - TimeOf[e]])
         ELSE (eng.score \div Decay[TimeOf[e] - eng.clock]) + FullWeight(e)

Later(t, u) == IF t < u THEN u ELSE t

----------------------------------------------------------------------------
(* Transactions                                                            *)

\* The transaction ends: its locks go and its session is free again.
End(s) ==
    /\ held' = [held EXCEPT ![s] = {}]
    /\ txn' = [txn EXCEPT ![s] = Idle]

\* A new event row. The foreign key takes a KEY SHARE lock on the customer,
\* which FOR UPDATE excludes.
Ingest(e) ==
    /\ status[e] = "absent"
    /\ Free(CustomerRow(CustomerOf[e]))
    /\ status' = [status EXCEPT ![e] = "pending"]
    /\ UNCHANGED <<engagement, profile, dlq, held, txn>>

Begin(s, op, id, row) ==
    /\ txn[s].op = "idle"
    /\ txn' = [txn EXCEPT ![s] = [Idle EXCEPT !.op = op, !.at = "begun",
                                              !.id = id, !.row = row]]
    /\ UNCHANGED <<status, engagement, profile, dlq, held>>

BeginProcess(s, id) == Begin(s, "process", id, 0)
BeginFail(s, id) == Begin(s, "fail", id, 0)

\* The unlocked first read of replay_dlq finds the dead letter's event id.
BeginReplay(s, i) == Begin(s, "replay", dlq[i].event, i)

\* Mutant: the event is selected without FOR UPDATE.
LockEventWithoutForUpdate(s) ==
    /\ txn[s].at = "begun"
    /\ txn' = [txn EXCEPT ![s].at = "event", ![s].seen = StatusOf(txn[s].id)]
    /\ UNCHANGED <<status, engagement, profile, dlq, held>>

\* SELECT events ... FOR UPDATE. No row, no lock.
LockEvent(s) ==
    LET id == txn[s].id IN
    /\ txn[s].at = "begun"
    /\ Durable(id) => Free(EventRow(id))
    /\ held' = [held EXCEPT ![s] = IF Durable(id) THEN @ \cup {EventRow(id)} ELSE @]
    /\ txn' = [txn EXCEPT ![s].at = "event", ![s].seen = StatusOf(id)]
    /\ UNCHANGED <<status, engagement, profile, dlq>>

\* Mutant: the customer is selected without FOR UPDATE.
LockCustomerWithoutForUpdate(s) ==
    /\ txn[s].op = "process"
    /\ txn[s].at = "event"
    /\ txn[s].seen \notin Terminal \cup {"absent"}
    /\ txn' = [txn EXCEPT ![s].at = "customer",
                          ![s].active = profile[CustomerOf[txn[s].id]].lastActive]
    /\ UNCHANGED <<status, engagement, profile, dlq, held>>

\* SELECT customers ... FOR UPDATE, once the event is known to be pending.
LockCustomer(s) ==
    LET c == CustomerOf[txn[s].id] IN
    /\ txn[s].op = "process"
    /\ txn[s].at = "event"
    /\ txn[s].seen \notin Terminal \cup {"absent"}
    /\ Free(CustomerRow(c))
    /\ held' = [held EXCEPT ![s] = @ \cup {CustomerRow(c)}]
    /\ txn' = [txn EXCEPT ![s].at = "customer",
                          ![s].active = profile[c].lastActive]
    /\ UNCHANGED <<status, engagement, profile, dlq>>

\* EngagementRepo.get: a plain SELECT, without a lock of its own.
ReadScore(s) ==
    /\ txn[s].op = "process"
    /\ txn[s].at = "customer"
    /\ txn' = [txn EXCEPT ![s].at = "score",
                          ![s].read = engagement[CustomerOf[txn[s].id]]]
    /\ UNCHANGED <<status, engagement, profile, dlq, held>>

\* update_channel_breakdown: one event more, whatever its channel and weight.
Counted(read) == read.count + 1

\* The aggregate as process_one_event writes it, from what it read.
Scored(e, read) == [score |-> NewScore(read, e),
                    clock |-> Later(TimeOf[e], read.clock),
                    count |-> Counted(read)]

\* Mutant: last_active follows the event being processed, however late it is.
ProfiledLastWriterWins(e, active, old) ==
    [lastActive |-> TimeOf[e],
     converted |-> old.converted \/ KindOf[e] = "purchase",
     optedOut |-> IF KindOf[e] \in {"unsubscribe", "complaint"}
                       /\ ChannelOf[e] # "web"
                  THEN old.optedOut \cup {ChannelOf[e]}
                  ELSE old.optedOut]

\* The profile columns process_one_event writes; the ORM leaves the others.
Profiled(e, active, old) ==
    [lastActive |-> Later(TimeOf[e], active),
     converted |-> old.converted \/ KindOf[e] = "purchase",
     optedOut |-> IF KindOf[e] \in {"unsubscribe", "complaint"}
                       /\ ChannelOf[e] # "web"
                  THEN old.optedOut \cup {ChannelOf[e]}
                  ELSE old.optedOut]

CommitProcess(s) ==
    LET e == txn[s].id
        c == CustomerOf[e]
    IN
    /\ txn[s].op = "process"
    /\ txn[s].at = "score"
    /\ engagement' = [engagement EXCEPT ![c] = Scored(e, txn[s].read)]
    /\ profile' = [profile EXCEPT ![c] = Profiled(e, txn[s].active, @)]
    /\ status' = [status EXCEPT ![e] = "processed"]
    /\ End(s)
    /\ UNCHANGED dlq

\* fail_event: an id without a row still gets its dead letter.
CommitFail(s) ==
    LET id == txn[s].id IN
    /\ txn[s].op = "fail"
    /\ txn[s].at = "event"
    /\ txn[s].seen \notin Terminal
    /\ Len(dlq) < MaxDeadLetters
    /\ dlq' = Append(dlq, [event |-> id, replayed |-> FALSE])
    /\ status' = IF txn[s].seen = "absent"
                 THEN status
                 ELSE [status EXCEPT ![id] = "failed"]
    /\ End(s)
    /\ UNCHANGED <<engagement, profile>>

\* SELECT dlq_events ... FOR UPDATE, after the event and never before it.
LockDlq(s) ==
    /\ txn[s].op = "replay"
    /\ txn[s].at = "event"
    /\ Free(DlqRow(txn[s].row))
    /\ held' = [held EXCEPT ![s] = @ \cup {DlqRow(txn[s].row)}]
    /\ txn' = [txn EXCEPT ![s].at = "dlq"]
    /\ UNCHANGED <<status, engagement, profile, dlq>>

\* Mutant: a dead letter can be replayed again once its event fails again.
CommitReplayAnyRow(s) ==
    LET e == txn[s].id IN
    /\ txn[s].op = "replay"
    /\ txn[s].at = "dlq"
    /\ txn[s].seen = "failed"
    /\ status' = [status EXCEPT ![e] = "pending"]
    /\ dlq' = [dlq EXCEPT ![txn[s].row].replayed = TRUE]
    /\ End(s)
    /\ UNCHANGED <<engagement, profile>>

\* Mutant: the event takes the status the endpoint answers with.
CommitReplayAsRequeued(s) ==
    LET e == txn[s].id IN
    /\ txn[s].op = "replay"
    /\ txn[s].at = "dlq"
    /\ ~dlq[txn[s].row].replayed
    /\ txn[s].seen = "failed"
    /\ status' = [status EXCEPT ![e] = "requeued"]
    /\ dlq' = [dlq EXCEPT ![txn[s].row].replayed = TRUE]
    /\ End(s)
    /\ UNCHANGED <<engagement, profile>>

CommitReplay(s) ==
    LET e == txn[s].id IN
    /\ txn[s].op = "replay"
    /\ txn[s].at = "dlq"
    /\ ~dlq[txn[s].row].replayed
    /\ txn[s].seen = "failed"
    /\ status' = [status EXCEPT ![e] = "pending"]
    /\ dlq' = [dlq EXCEPT ![txn[s].row].replayed = TRUE]
    /\ End(s)
    /\ UNCHANGED <<engagement, profile>>

\* Mutant: an error path returns the connection without a rollback.
CloseWithoutRollback(s) ==
    /\ txn[s].op # "idle"
    /\ txn' = [txn EXCEPT ![s] = Idle]
    /\ UNCHANGED <<status, engagement, profile, dlq, held>>

\* Nothing to do, a conflict, an error or a crash: the transaction rolls back.
Close(s) ==
    /\ txn[s].op # "idle"
    /\ End(s)
    /\ UNCHANGED <<status, engagement, profile, dlq>>

Next ==
    \/ \E e \in Events : Ingest(e)
    \/ \E s \in Sessions :
        \/ \E id \in Deliverable : BeginProcess(s, id) \/ BeginFail(s, id)
        \/ \E i \in 1 .. Len(dlq) : BeginReplay(s, i)
        \/ LockEvent(s)
        \/ LockCustomer(s)
        \/ ReadScore(s)
        \/ CommitProcess(s)
        \/ CommitFail(s)
        \/ LockDlq(s)
        \/ CommitReplay(s)
        \/ Close(s)

Spec == Init /\ [][Next]_vars

----------------------------------------------------------------------------
(* Properties                                                              *)

TypeOK ==
    /\ status \in [Events -> Statuses]
    /\ engagement \in [Customers -> Engagements]
    /\ profile \in [Customers -> Profiles]
    /\ dlq \in Seq([event : Ids, replayed : BOOLEAN])
    /\ Len(dlq) <= MaxDeadLetters
    /\ held \in [Sessions -> SUBSET Locks]
    /\ txn \in [Sessions -> Txns]

Processed(c) == {e \in Events : CustomerOf[e] = c /\ status[e] = "processed"}
OpenRows(id) == {i \in 1 .. Len(dlq) : dlq[i].event = id /\ ~dlq[i].replayed}

\* SYSTEM_DESIGN 2.B: processing side effects occur strictly once. Each
\* aggregate counts exactly the processed events of its customer, whatever
\* was delivered twice, processed concurrently, retried, failed or replayed.
ExactlyOnce ==
    \A c \in Customers : engagement[c].count = Cardinality(Processed(c))

\* The score accumulator is the decayed sum of the processed events,
\* referred to the latest of their timestamps: it does not depend on the
\* order of delivery, and no concurrent worker's contribution is lost.
ScoreMatchesLedger ==
    \A c \in Customers :
        Processed(c) # {} =>
            LET clock == Max({TimeOf[e] : e \in Processed(c)})
                decayed == [e \in Processed(c) |-> FullWeight(e) \div Decay[clock - TimeOf[e]]]
            IN engagement[c].clock = clock /\ engagement[c].score = SumFunction(decayed)

\* last_active, has_converted and the opt-outs are what the processed events
\* say, so a consent withdrawn by one event survives every other event.
ProfileMatchesHistory ==
    \A c \in Customers :
        profile[c] = [
            lastActive |-> Max({TimeOf[e] : e \in Processed(c)} \cup {Never}),
            converted |-> \E e \in Processed(c) : KindOf[e] = "purchase",
            optedOut |-> {ChannelOf[e] : e \in
                {x \in Processed(c) : /\ KindOf[x] \in {"unsubscribe", "complaint"}
                                      /\ ChannelOf[x] # "web"}}]

\* A failed event has exactly one dead letter left to replay, and no other
\* event has any: what an operator can replay is what did fail.
OneOpenDeadLetter ==
    \A e \in Events :
        /\ OpenRows(e) # {} <=> status[e] = "failed"
        /\ \A i, j \in OpenRows(e) : i = j

\* Processing is final: no retry, late failure, duplicate or replay moves a
\* processed event to another status, so none can apply it again.
ProcessedIsFinal ==
    [][\A e \in Events : status[e] = "processed" => status'[e] = "processed"]_vars

\* The row locks a session's next statement needs.
Wanted(s) ==
    CASE txn[s].at = "begun" /\ Durable(txn[s].id) -> {EventRow(txn[s].id)}
      [] txn[s].at = "event" /\ txn[s].op = "process" /\ txn[s].seen = "pending" ->
            {CustomerRow(CustomerOf[txn[s].id])}
      [] txn[s].at = "event" /\ txn[s].op = "replay" -> {DlqRow(txn[s].row)}
      [] OTHER -> {}

WaitsFor(s, t) == s # t /\ Wanted(s) \cap held[t] # {}

\* event_worker.py, system.py: all writers lock the event first. No set of
\* sessions ever waits in a circle, so the database never has to abort one.
NoLockCycle ==
    \A waiting \in SUBSET Sessions :
        waiting # {} => \E s \in waiting : \A t \in waiting : ~WaitsFor(s, t)

\* Seen from outside, the transactions are the one-step actions of
\* EventLifecycle: partial work and lost updates never show.
Lifecycle == INSTANCE EventLifecycle WITH
    tally <- [c \in Customers |-> engagement[c].count],
    dead <- [id \in Ids |-> Cardinality(OpenRows(id))]
RefinesLifecycle == Lifecycle!LifecycleSpec
=============================================================================
