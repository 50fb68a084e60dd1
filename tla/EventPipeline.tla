---------------------------- MODULE EventPipeline ----------------------------
(***************************************************************************)
(* How accepted events travel: the transactional outbox (queue/outbox.py), *)
(* the Redis stream with its consumer group (queue/redis_streams.py), the  *)
(* loop of each worker (reconcile_outbox and run_worker in                 *)
(* workers/event_worker.py), and the dead-letter replay of api/system.py.  *)
(*                                                                         *)
(* The transactions on one event are atomic here, as the actions of        *)
(* EventLifecycle; EventProcessing justifies that. What is interleaved is  *)
(* everything else: the outbox transaction of a worker holds row locks     *)
(* while it talks to Redis, whose effects no rollback undoes; a message    *)
(* that stays unacknowledged too long is claimed by another worker while   *)
(* the first still works on it; workers stop anywhere; Redis may lose its  *)
(* state.                                                                  *)
(*                                                                         *)
(* Time is abstract: a publication turns stale after the two minutes of    *)
(* claim_unpublished, a delivery turns idle after WORKER_CLAIM_IDLE_MS,    *)
(* an outbox row turns old after OUTBOX_RETENTION_DAYS, each at any moment.*)
(***************************************************************************)
EXTENDS EventLifecycle, Integers, Sequences, FiniteSetsExt

CONSTANTS
    Workers,       \* worker processes
    Unstorable,    \* foreign ids whose payload dlq_events cannot hold
    Demo,          \* foreign ids of the entries seed-live adds
    DemoLength,    \* the maxlen it adds them with
    OutboxBatch,   \* OUTBOX_BATCH_SIZE
    WorkerBatch,   \* WORKER_BATCH_SIZE
    MaxRetries,    \* WORKER_MAX_RETRIES
    ScanFactor,    \* entries XAUTOCLAIM looks at for each it may return
    MaxRows,       \* bound: outbox rows ever written
    MaxMessages,   \* bound: stream entries ever added
    MaxFaults,     \* bound: interrupted workers and losses of Redis
    MaxOld         \* bound: outbox rows past their retention at a time

ASSUME PipelineAssumption ==
    /\ Unstorable \subseteq Foreign
    /\ Demo \subseteq Foreign
    /\ DemoLength \in Nat \ {0}
    /\ OutboxBatch \in Nat \ {0}
    /\ WorkerBatch \in Nat \ {0}
    /\ MaxRetries \in Nat
    /\ ScanFactor \in Nat \ {0}
    /\ MaxRows \in Nat
    /\ MaxMessages \in Nat
    /\ MaxFaults \in Nat
    /\ MaxOld \in Nat

VARIABLES
    outbox,      \* event_outbox: the rows by id
    nextRow,     \* the next id of event_outbox
    log,         \* the id carried by every message ever added to the stream
    stream,      \* the messages the stream still holds
    group,       \* does the consumer group exist?
    lastId,      \* the group's last delivered message
    delivered,   \* the group's pending entries list
    idle,        \* pending entries that another consumer may claim
    pc,          \* where each worker is in its loop
    claimed,     \* the outbox rows each worker locked, with their new message
    targets,     \* the rows the worker's cleanup statement found
    batch,       \* the messages each worker has yet to acknowledge, in id order
    attempt,     \* attempts made on the first of them
    cursor,      \* RedisStreamsQueue.claim_cursor
    faults       \* faults so far

outboxVars == <<outbox, nextRow>>
groupVars == <<group, lastId, delivered, idle>>
redisVars == <<log, stream, groupVars>>
reconcileVars == <<claimed, targets>>
consumeVars == <<batch, attempt, cursor>>
vars == <<lifecycleVars, outboxVars, redisVars, pc, reconcileVars, consumeVars, faults>>

Terminal == {"processed", "failed"}
Rows == 1 .. MaxRows
Messages == 1 .. MaxMessages
NoMessage == 0

\* A new outbox row: not published, no message, young.
NewRow(e) == [event |-> e, published |-> "no", message |-> NoMessage, old |-> FALSE]

\* The n smallest of a set of numbers: ORDER BY id LIMIT n.
FirstN(S, n) == {x \in S : Cardinality({y \in S : y < x}) < n}

LockedByOther(r, w) == \E v \in Workers \ {w} : r \in DOMAIN claimed[v]

Init ==
    /\ LifecycleInit
    /\ outbox = [r \in {} |-> NewRow(r)]
    /\ nextRow = 1
    /\ log = <<>>
    /\ stream = {}
    /\ group = FALSE
    /\ lastId = 0
    /\ delivered = {}
    /\ idle = {}
    /\ pc = [w \in Workers |-> "begin"]
    /\ claimed = [w \in Workers |-> <<>>]
    /\ targets = [w \in Workers |-> {}]
    /\ batch = [w \in Workers |-> {}]
    /\ attempt = [w \in Workers |-> 0]
    /\ cursor = [w \in Workers |-> 0]
    /\ faults = 0

----------------------------------------------------------------------------
(* The API                                                                 *)

AddRow(e) ==
    /\ nextRow <= MaxRows
    /\ outbox' = [r \in DOMAIN outbox \cup {nextRow} |->
                    IF r = nextRow THEN NewRow(e) ELSE outbox[r]]
    /\ nextRow' = nextRow + 1

\* POST /events and each item of POST /events/batch: event and outbox row in
\* one transaction. A duplicate changes nothing.
Ingest(e) ==
    /\ Accept(e)
    /\ AddRow(e)
    /\ UNCHANGED <<redisVars, pc, reconcileVars, consumeVars, faults>>

\* POST /dlq/{id}/replay: pending again, with an outbox row of its own. The
\* event's earlier row is still there until its retention ends.
Replay(e) ==
    /\ Requeue(e)
    /\ AddRow(e)
    /\ UNCHANGED <<redisVars, pc, reconcileVars, consumeVars, faults>>

----------------------------------------------------------------------------
(* reconcile_outbox: one database transaction with Redis calls inside      *)

\* Mutant: only rows never published are claimed.
NeverPublished(r) ==
    /\ status[outbox[r].event] = "pending"
    /\ outbox[r].published = "no"

\* Pending events whose row is unpublished, or was published long ago.
Publishable(r) ==
    /\ status[outbox[r].event] = "pending"
    /\ outbox[r].published # "fresh"

\* Mutant: the rows are selected without FOR UPDATE SKIP LOCKED.
ClaimWithoutLocks(w) ==
    LET rows == FirstN({r \in DOMAIN outbox : Publishable(r)}, OutboxBatch) IN
    /\ pc[w] = "begin"
    /\ group' = TRUE
    /\ claimed' = [claimed EXCEPT ![w] = [r \in rows |-> NoMessage]]
    /\ pc' = [pc EXCEPT ![w] = "publish"]
    /\ UNCHANGED <<lifecycleVars, outboxVars, log, stream, lastId, delivered, idle,
                   targets, consumeVars, faults>>

\* ensure_group, then claim_unpublished with FOR UPDATE SKIP LOCKED.
Claim(w) ==
    LET rows == FirstN({r \in DOMAIN outbox : Publishable(r) /\ ~LockedByOther(r, w)},
                       OutboxBatch)
    IN
    /\ pc[w] = "begin"
    /\ group' = TRUE
    /\ claimed' = [claimed EXCEPT ![w] = [r \in rows |-> NoMessage]]
    /\ pc' = [pc EXCEPT ![w] = "publish"]
    /\ UNCHANGED <<lifecycleVars, outboxVars, log, stream, lastId, delivered, idle,
                   targets, consumeVars, faults>>

Unhandled(w) == {r \in DOMAIN claimed[w] : claimed[w][r] = NoMessage}

\* A message still in the stream is only confirmed; a lost one, or none yet,
\* makes a new one. XADD takes effect whether or not the transaction commits.
PublishRow(w) ==
    LET r == Min(Unhandled(w))
        known == outbox[r].message
    IN
    /\ pc[w] = "publish"
    /\ Unhandled(w) # {}
    /\ IF known # NoMessage /\ known \in stream
       THEN /\ claimed' = [claimed EXCEPT ![w][r] = known]
            /\ UNCHANGED <<log, stream>>
       ELSE /\ Len(log) < MaxMessages
            /\ log' = Append(log, outbox[r].event)
            /\ stream' = stream \cup {Len(log) + 1}
            /\ claimed' = [claimed EXCEPT ![w][r] = Len(log) + 1]
    /\ UNCHANGED <<lifecycleVars, outboxVars, groupVars, pc, targets, consumeVars, faults>>

\* Mutant: the DELETE looks at the age of a row only.
StartCleanupByAge(w) ==
    /\ pc[w] = "publish"
    /\ Unhandled(w) = {}
    /\ targets' = [targets EXCEPT ![w] = {r \in DOMAIN outbox : outbox[r].old}]
    /\ pc' = [pc EXCEPT ![w] = "delete"]
    /\ UNCHANGED <<lifecycleVars, outboxVars, redisVars, claimed, consumeVars, faults>>

\* Mutant: the DELETE forgets the rows of failed events.
StartCleanupProcessedOnly(w) ==
    /\ pc[w] = "publish"
    /\ Unhandled(w) = {}
    /\ targets' = [targets EXCEPT ![w] =
            {r \in DOMAIN outbox : outbox[r].old /\ status[outbox[r].event] = "processed"}]
    /\ pc' = [pc EXCEPT ![w] = "delete"]
    /\ UNCHANGED <<lifecycleVars, outboxVars, redisVars, claimed, consumeVars, faults>>

\* cleanup_outbox starts: its DELETE finds the old rows of settled events.
StartCleanup(w) ==
    /\ pc[w] = "publish"
    /\ Unhandled(w) = {}
    /\ targets' = [targets EXCEPT ![w] =
            {r \in DOMAIN outbox : outbox[r].old /\ status[outbox[r].event] \in Terminal}]
    /\ pc' = [pc EXCEPT ![w] = "delete"]
    /\ UNCHANGED <<lifecycleVars, outboxVars, redisVars, claimed, consumeVars, faults>>

Blocked(w) ==
    /\ pc[w] = "delete"
    /\ \E r \in targets[w] : LockedByOther(r, w)

\* Mutant: mark_published does not store the message id.
CommitReconcileWithoutId(w) ==
    /\ pc[w] = "delete"
    /\ ~Blocked(w)
    /\ outbox' = [r \in DOMAIN outbox \ targets[w] |->
                    IF r \in DOMAIN claimed[w]
                    THEN [outbox[r] EXCEPT !.published = "fresh"]
                    ELSE outbox[r]]
    /\ claimed' = [claimed EXCEPT ![w] = <<>>]
    /\ targets' = [targets EXCEPT ![w] = {}]
    /\ pc' = [pc EXCEPT ![w] = "consume"]
    /\ UNCHANGED <<lifecycleVars, nextRow, redisVars, consumeVars, faults>>

\* The DELETE waits for rows another worker locked, then the transaction
\* commits: claimed rows are marked published, found rows are gone.
CommitReconcile(w) ==
    /\ pc[w] = "delete"
    /\ ~Blocked(w)
    /\ outbox' = [r \in DOMAIN outbox \ targets[w] |->
                    IF r \in DOMAIN claimed[w]
                    THEN [outbox[r] EXCEPT !.published = "fresh",
                                           !.message = claimed[w][r]]
                    ELSE outbox[r]]
    /\ claimed' = [claimed EXCEPT ![w] = <<>>]
    /\ targets' = [targets EXCEPT ![w] = {}]
    /\ pc' = [pc EXCEPT ![w] = "consume"]
    /\ UNCHANGED <<lifecycleVars, nextRow, redisVars, consumeVars, faults>>

----------------------------------------------------------------------------
(* RedisStreamsQueue.consume, and the handling of what it returns          *)

Take(w, messages) ==
    /\ batch' = [batch EXCEPT ![w] = messages]
    /\ attempt' = [attempt EXCEPT ![w] = 0]
    /\ pc' = [pc EXCEPT ![w] = IF messages = {} THEN "begin" ELSE "attempt"]
    /\ UNCHANGED <<lifecycleVars, outboxVars, log, stream, group, reconcileVars, faults>>

\* XAUTOCLAIM goes through the pending entries from the cursor on. It picks up
\* those idle for long, and drops those that are no longer in the stream.
Scanned(w) == FirstN({m \in delivered : m >= cursor[w]}, ScanFactor * WorkerBatch)
Found(w) == FirstN({m \in Scanned(w) : m \in idle \/ m \notin stream}, WorkerBatch)
Claimable(w) == Found(w) \cap stream
Dangling(w) == Found(w) \ stream

\* The next call goes on after what this one has gone through, which is all
\* it looked at, or ends with the entry that used up the count.
NextCursor(w) ==
    LET full == Cardinality(Found(w)) = WorkerBatch
        after == {m \in delivered : /\ m >= cursor[w]
                                    /\ \A x \in IF full THEN Found(w) ELSE Scanned(w) : m > x}
    IN IF after = {} THEN 0 ELSE Min(after)

\* What XAUTOCLAIM returns is handled before anything new is read.
ConsumeClaimed(w) ==
    /\ pc[w] = "consume"
    /\ group
    /\ Claimable(w) # {}
    /\ cursor' = [cursor EXCEPT ![w] = NextCursor(w)]
    /\ delivered' = delivered \ Dangling(w)
    /\ idle' = idle \ Found(w)
    /\ UNCHANGED lastId
    /\ Take(w, Claimable(w))

\* XREADGROUP ">": the next messages in the group's order, if any in time.
ConsumeNew(w) ==
    LET fresh == FirstN({m \in stream : m > lastId}, WorkerBatch) IN
    /\ pc[w] = "consume"
    /\ group
    /\ Claimable(w) = {}
    /\ cursor' = [cursor EXCEPT ![w] = NextCursor(w)]
    /\ delivered' = (delivered \ Dangling(w)) \cup fresh
    /\ lastId' = IF fresh = {} THEN lastId ELSE Max(fresh)
    /\ idle' = idle \ Dangling(w)
    /\ Take(w, fresh)

\* NOGROUP: Redis lost the group since ensure_group.
ConsumeWithoutGroup(w) ==
    /\ pc[w] = "consume"
    /\ ~group
    /\ pc' = [pc EXCEPT ![w] = "begin"]
    /\ UNCHANGED <<lifecycleVars, outboxVars, redisVars, reconcileVars, consumeVars, faults>>

\* The message in hand, and the id it carries.
InHand(w) == Min(batch[w])
Current(w) == log[InHand(w)]

\* process_one_event commits, or finds the event settled and does nothing.
AttemptSucceeds(w) ==
    /\ pc[w] = "attempt"
    /\ Current(w) \in Events
    /\ IF status[Current(w)] = "pending"
       THEN Apply(Current(w))
       ELSE UNCHANGED lifecycleVars
    /\ pc' = [pc EXCEPT ![w] = "ack"]
    /\ UNCHANGED <<outboxVars, redisVars, reconcileVars, consumeVars, faults>>

\* Mutant: the last failed attempt goes straight to the acknowledgement.
RetryThenDrop(w) ==
    IF attempt[w] < MaxRetries
    THEN attempt' = [attempt EXCEPT ![w] = @ + 1] /\ UNCHANGED pc
    ELSE pc' = [pc EXCEPT ![w] = "ack"] /\ UNCHANGED attempt

Retry(w) ==
    IF attempt[w] < MaxRetries
    THEN attempt' = [attempt EXCEPT ![w] = @ + 1] /\ UNCHANGED pc
    ELSE pc' = [pc EXCEPT ![w] = "fail"] /\ UNCHANGED attempt

\* process_one_event raises: no such event, invalid payload, database error.
AttemptFails(w) ==
    /\ pc[w] = "attempt"
    /\ Retry(w)
    /\ UNCHANGED <<lifecycleVars, outboxVars, redisVars, reconcileVars, batch, cursor, faults>>

\* The commit took effect, but the connection dropped before it was known.
AttemptUnconfirmed(w) ==
    /\ pc[w] = "attempt"
    /\ Current(w) \in Events
    /\ Apply(Current(w))
    /\ Retry(w)
    /\ UNCHANGED <<outboxVars, redisVars, reconcileVars, batch, cursor, faults>>

\* Mutant: fail_event insists on a durable event, as process_one_event does.
FailEventDurableOnly(w) ==
    /\ pc[w] = "fail"
    /\ Current(w) \in Events
    /\ IF status[Current(w)] = "pending" THEN DeadLetter(Current(w))
       ELSE UNCHANGED lifecycleVars
    /\ pc' = [pc EXCEPT ![w] = "ack"]
    /\ UNCHANGED <<outboxVars, redisVars, reconcileVars, consumeVars, faults>>

\* fail_event: a dead letter, unless the event is settled after all.
FailEvent(w) ==
    /\ pc[w] = "fail"
    /\ Current(w) \notin Unstorable
    /\ IF Current(w) \in Foreign THEN Reject(Current(w))
       ELSE IF status[Current(w)] = "pending" THEN DeadLetter(Current(w))
       ELSE UNCHANGED lifecycleVars
    /\ pc' = [pc EXCEPT ![w] = "ack"]
    /\ UNCHANGED <<outboxVars, redisVars, reconcileVars, consumeVars, faults>>

\* Mutant: XDEL without XACK.
AckByDeletion(w) ==
    LET m == InHand(w) IN
    /\ pc[w] = "ack"
    /\ stream' = stream \ {m}
    /\ batch' = [batch EXCEPT ![w] = @ \ {m}]
    /\ attempt' = [attempt EXCEPT ![w] = 0]
    /\ pc' = [pc EXCEPT ![w] = IF batch[w] = {m} THEN "begin" ELSE "attempt"]
    /\ UNCHANGED <<lifecycleVars, outboxVars, log, groupVars, reconcileVars, cursor, faults>>

\* XACK and XDEL in one Redis transaction; then the next message.
Ack(w) ==
    LET m == InHand(w) IN
    /\ pc[w] = "ack"
    /\ stream' = stream \ {m}
    /\ delivered' = delivered \ {m}
    /\ idle' = idle \ {m}
    /\ batch' = [batch EXCEPT ![w] = @ \ {m}]
    /\ attempt' = [attempt EXCEPT ![w] = 0]
    /\ pc' = [pc EXCEPT ![w] = IF batch[w] = {m} THEN "begin" ELSE "attempt"]
    /\ UNCHANGED <<lifecycleVars, outboxVars, log, group, lastId, reconcileVars, cursor, faults>>

----------------------------------------------------------------------------
(* Failures                                                                *)

\* The iteration ends in an exception: the outbox transaction rolls back,
\* what was added to the stream stays, the batch stays in the pending list.
Abandon(w) ==
    /\ pc' = [pc EXCEPT ![w] = "begin"]
    /\ claimed' = [claimed EXCEPT ![w] = <<>>]
    /\ targets' = [targets EXCEPT ![w] = {}]
    /\ batch' = [batch EXCEPT ![w] = {}]
    /\ attempt' = [attempt EXCEPT ![w] = 0]
    /\ UNCHANGED <<lifecycleVars, outboxVars, redisVars>>

\* Mutant: the failure of fail_event is logged, and the message acknowledged.
FailEventSwallows(w) ==
    /\ pc[w] = "fail"
    /\ Current(w) \in Unstorable
    /\ pc' = [pc EXCEPT ![w] = "ack"]
    /\ UNCHANGED <<lifecycleVars, outboxVars, redisVars, reconcileVars, consumeVars, faults>>

\* The dead letter cannot be stored: fail_event itself raises.
FailEventRaises(w) ==
    /\ pc[w] = "fail"
    /\ Current(w) \in Unstorable
    /\ Abandon(w)
    /\ UNCHANGED <<cursor, faults>>

\* Two reconcilers wait for each other's rows.
Deadlocked(v, w) ==
    /\ v # w
    /\ Blocked(v)
    /\ Blocked(w)
    /\ targets[v] \cap DOMAIN claimed[w] # {}
    /\ targets[w] \cap DOMAIN claimed[v] # {}

\* PostgreSQL aborts one of them.
DeadlockAbort(w) ==
    /\ \E v \in Workers : Deadlocked(v, w)
    /\ Abandon(w)
    /\ UNCHANGED <<cursor, faults>>

\* Any call of the loop raises, or the worker dies and is started again.
Interrupted(w) ==
    /\ pc[w] # "begin"
    /\ faults < MaxFaults
    /\ faults' = faults + 1
    /\ Abandon(w)
    /\ \/ UNCHANGED cursor
       \/ cursor' = [cursor EXCEPT ![w] = 0]

\* Redis comes back empty.
RedisLoss ==
    /\ faults < MaxFaults
    /\ faults' = faults + 1
    /\ stream' = {}
    /\ group' = FALSE
    /\ lastId' = 0
    /\ delivered' = {}
    /\ idle' = {}
    /\ UNCHANGED <<lifecycleVars, outboxVars, log, pc, reconcileVars, consumeVars>>

----------------------------------------------------------------------------
(* The environment                                                         *)

\* An entry that no outbox row produced: malformed, or another producer's.
ForeignMessage(f) ==
    /\ f \notin Demo
    /\ \A m \in 1 .. Len(log) : log[m] # f
    /\ Len(log) < MaxMessages
    /\ log' = Append(log, f)
    /\ stream' = stream \cup {Len(log) + 1}
    /\ UNCHANGED <<lifecycleVars, outboxVars, groupVars, pc, reconcileVars, consumeVars, faults>>

\* POST /system/seed-live adds a demo entry, whose XADD also trims the stream:
\* its oldest entries go, read or not, and at least maxlen are left (the client
\* asks for an approximate trim, which may leave more). The group's pending
\* list is not told.
SeedLive(f) ==
    LET grown == stream \cup {Len(log) + 1} IN
    /\ \A m \in 1 .. Len(log) : log[m] # f
    /\ Len(log) < MaxMessages
    /\ log' = Append(log, f)
    /\ \E oldest \in grown :
        /\ stream' = {m \in grown : m >= oldest}
        /\ stream' = grown \/ Cardinality(stream') >= DemoLength
    /\ UNCHANGED <<lifecycleVars, outboxVars, groupVars, pc, reconcileVars, consumeVars, faults>>

\* A delivery has been unacknowledged for WORKER_CLAIM_IDLE_MS.
TurnsIdle(m) ==
    /\ m \in delivered \ idle
    /\ idle' = idle \cup {m}
    /\ UNCHANGED <<lifecycleVars, outboxVars, log, stream, group, lastId, delivered, pc,
                   reconcileVars, consumeVars, faults>>

\* A publication is two minutes old.
TurnsStale(r) ==
    /\ r \in DOMAIN outbox
    /\ outbox[r].published = "fresh"
    /\ outbox' = [outbox EXCEPT ![r].published = "stale"]
    /\ UNCHANGED <<lifecycleVars, nextRow, redisVars, pc, reconcileVars, consumeVars, faults>>

\* An outbox row is past OUTBOX_RETENTION_DAYS.
TurnsOld(r) ==
    /\ r \in DOMAIN outbox
    /\ ~outbox[r].old
    /\ Cardinality({x \in DOMAIN outbox : outbox[x].old}) < MaxOld
    /\ outbox' = [outbox EXCEPT ![r].old = TRUE]
    /\ UNCHANGED <<lifecycleVars, nextRow, redisVars, pc, reconcileVars, consumeVars, faults>>

----------------------------------------------------------------------------
Reconcile(w) == Claim(w) \/ PublishRow(w) \/ StartCleanup(w) \/ CommitReconcile(w)
Consume(w) == ConsumeClaimed(w) \/ ConsumeNew(w) \/ ConsumeWithoutGroup(w)
Handle(w) ==
    \/ AttemptSucceeds(w)
    \/ AttemptFails(w)
    \/ AttemptUnconfirmed(w)
    \/ FailEvent(w)
    \/ FailEventRaises(w)
    \/ Ack(w)

\* The worker's own steps: an iteration of its loop without outside faults.
Iterate(w) == Reconcile(w) \/ Consume(w) \/ Handle(w) \/ DeadlockAbort(w)

Next ==
    \/ \E e \in Events : Ingest(e) \/ Replay(e)
    \/ \E w \in Workers : Iterate(w) \/ Interrupted(w)
    \/ RedisLoss
    \/ \E f \in Foreign : ForeignMessage(f)
    \/ \E f \in Demo : SeedLive(f)
    \/ \E m \in delivered : TurnsIdle(m)
    \/ \E r \in DOMAIN outbox : TurnsStale(r) \/ TurnsOld(r)

Spec == Init /\ [][Next]_vars

\* A worker that stops is restarted (compose: restart unless-stopped), an
\* exception is followed by the next iteration, and time passes. The API is
\* under no obligation to call anything.
Fairness ==
    /\ \A w \in Workers : WF_vars(Iterate(w))
    /\ \A m \in Messages : WF_vars(TurnsIdle(m))
    /\ \A r \in Rows : WF_vars(TurnsStale(r))

FairSpec == Spec /\ Fairness

----------------------------------------------------------------------------
(* Properties                                                              *)

\* A pending entry is in the stream, unless seed-live trimmed it.
Trimmable(m) == \E n \in 1 .. Len(log) : m < n /\ log[n] \in Demo

TypeOK ==
    /\ LifecycleTypeOK
    /\ nextRow \in 1 .. MaxRows + 1
    /\ DOMAIN outbox \subseteq 1 .. nextRow - 1
    /\ \A r \in DOMAIN outbox :
        outbox[r] \in [event : Events, published : {"no", "fresh", "stale"},
                       message : 0 .. Len(log), old : BOOLEAN]
    /\ log \in Seq(Ids)
    /\ Len(log) <= MaxMessages
    /\ idle \subseteq delivered
    /\ stream \cup delivered \subseteq 1 .. Len(log)
    /\ \A m \in delivered \ stream : Trimmable(m)
    /\ group \in BOOLEAN
    /\ lastId \in 0 .. Len(log)
    /\ pc \in [Workers -> {"begin", "publish", "delete", "consume",
                           "attempt", "fail", "ack"}]
    /\ \A w \in Workers :
        /\ DOMAIN claimed[w] \subseteq DOMAIN outbox
        /\ \A r \in DOMAIN claimed[w] : claimed[w][r] \in 0 .. Len(log)
    /\ targets \in [Workers -> SUBSET Rows]
    /\ batch \in [Workers -> SUBSET (1 .. Len(log))]
    /\ attempt \in [Workers -> 0 .. MaxRetries]
    /\ cursor \in [Workers -> 0 .. Len(log)]
    /\ faults \in 0 .. MaxFaults

\* An accepted event that is still pending keeps an outbox row that no
\* cleanup in progress is about to delete: whatever happens to Redis, to the
\* workers or to a replay racing a cleanup, it can be published again.
PendingHasOutbox ==
    \A e \in Events :
        status[e] = "pending" =>
            \E r \in DOMAIN outbox :
                /\ outbox[r].event = e
                /\ \A w \in Workers : r \notin targets[w]

\* "No messages are acknowledged until DB commit succeeds": when a message is
\* acknowledged its event is settled or its foreign id is dead-lettered; if a
\* replay has made the event pending again, another row than the
\* acknowledged message's own will publish it.
SettledBy(m) ==
    LET id == log[m] IN
    IF id \in Foreign
    THEN dead[id] > 0
    ELSE \/ status[id] \in Terminal
         \/ \E r \in DOMAIN outbox : outbox[r].event = id /\ outbox[r].message # m
AckAfterSettled ==
    [][\A w \in Workers :
            /\ pc[w] = "ack"
            /\ InHand(w) \in stream \ stream'
            /\ group'   \* not lost with the rest of Redis
            => SettledBy(InHand(w))]_vars

\* event_worker.py: a slow consumer is not a lost message. Until something
\* fails or a row expires, an event never has more messages in the stream than
\* outbox rows, however late deliveries, claims and acknowledgements are.
\* (Retention deletes rows whose messages may still wait.)
NothingExpired == DOMAIN outbox = 1 .. nextRow - 1 /\ \A r \in DOMAIN outbox : ~outbox[r].old
NoDuplicatePublication ==
    faults = 0 /\ NothingExpired =>
        \A e \in Events :
            Cardinality({m \in stream : log[m] = e})
                <= Cardinality({r \in DOMAIN outbox : outbox[r].event = e})

\* Recovery does not flood the stream. A row is published again only when its
\* message is gone, which takes a settlement (and the replay that wrote the next
\* row), a fault or a trim, and once more for what a worker had claimed by then:
\* until a row expires, the messages ever added for an event are bounded by its
\* rows, the faults so far and the entries seed-live has added. (Then the message
\* bound of a run cuts nothing short.)
Disturbances == faults + Cardinality({m \in 1 .. Len(log) : log[m] \in Demo})
BoundedRepublication ==
    NothingExpired =>
        \A e \in Events :
            LET rows == Cardinality({r \in DOMAIN outbox : outbox[r].event = e})
            IN Cardinality({m \in 1 .. Len(log) : log[m] = e}) <= rows * (rows + 1 + Disturbances)

\* Every accepted event is eventually processed or dead-lettered.
EventuallySettled ==
    \A e \in Events : status[e] = "pending" ~> status[e] \in Terminal

\* Every message is eventually acknowledged and deleted from the stream.
StreamDrains == \A m \in Messages : m \in stream ~> m \notin stream

\* The row of a settled event does not outlive its retention for ever.
RetentionEnforced ==
    \A r \in Rows :
        (r \in DOMAIN outbox /\ outbox[r].old /\ status[outbox[r].event] \in Terminal)
            ~> (r \in DOMAIN outbox => status[outbox[r].event] = "pending")

\* README 3: zero dropped events. An event whose message was delivered is
\* settled in the end, if not by that delivery then by a later claim.
DeliveredEventsSettle ==
    \A m \in Messages, e \in Events :
        (m \in delivered /\ log[m] = e) ~> status[e] \in Terminal

\* SYSTEM_DESIGN 2.C: workers reconcile without lock contention.
NoReconcileDeadlock == \A v, w \in Workers : ~Deadlocked(v, w)
=============================================================================
