# Verification of the MarTech event platform

This directory holds TLA+ models of the platform in `src/backend/app`, TLC
configurations that check them on small instances, and proofs that TLAPS checks
for every value of the constants. Paths below are relative to
`src/backend/app` unless they start with `src/`.

## 1. The system

Clients post customer events. The API commits each event with an outbox row;
workers publish outbox rows to a Redis stream, consume the stream in a consumer
group, and apply every event to its customer's engagement aggregate in
PostgreSQL. Events that keep failing get a dead letter, which an operator may
replay. On top sit read-only endpoints and campaign analysis by a language
model behind a circuit breaker.

| Component | State | Operations | What makes it correct |
|---|---|---|---|
| Ingestion (`api/events.py`, `domain/events/validation.py`) | `events`, `event_outbox`, `customers` rows | `ingest_event`, `ingest_batch` | an event is accepted once; its outbox row commits with it |
| Transactional outbox (`queue/outbox.py`) | `event_outbox`: published_at, message_id, created_at | enqueue, claim (`SKIP LOCKED`), mark published, retention cleanup | a pending event can always be published again; publication is bounded; rows leave in the end |
| Redis stream (`queue/redis_streams.py`) | stream, consumer group, pending entries, the consumer's claim cursor | enqueue, ensure_group, consume (claim, then read), contains, ack | no message is lost or starved; ack means settled |
| Worker (`workers/event_worker.py`) | the batch in hand, attempts; open database sessions | `run_worker`, `reconcile_outbox`, `process_one_event`, `fail_event`, heartbeat | effects exactly once; failures end in the dead-letter table; no deadlock |
| Scoring (`domain/scoring/engagement_score.py`) | none (the aggregate is in `engagement_scores`) | `compute_new_score`, `update_channel_breakdown`, `score_at` | the accumulator does not depend on the order of delivery |
| Dead letters and replay (`queue/dlq.py`, `api/system.py`) | `dlq_events` | `move_to_dlq`, `replay_dlq` | one open dead letter per failed event; a replay requeues once |
| Analysis service (`ai/service.py`) | failures, opened_at, probing | `analyze` | trips after consecutive errors; one probe; only a probe closes |
| Rate limiter (`core/rate_limit.py`) | a sorted set per client in Redis | `rate_limit_events` | at most the limit per window |
| Audience (`api/audience.py`, `domain/audience/*`) | none | top-K over a stream of candidates | the K best, ties by id |
| Grounding, confidence, fallback (`ai/*.py`) | none | `build_campaign_context`, `verify_grounding`, `compute_confidence`, `rule_based_summary` | what is marked verified has only figures of the newest aggregates; the confidence follows the evidence |
| Adapters and their choice (`ai/adapters.py`, `api/ai.py`, `main.py`, `configure_live`) | settings; headers of a request | `build_provider`, `get_effective_llm`, `generate` | every key goes to the service it is meant for |
| Heartbeats and readiness (`workers/event_worker.py`, `main.py`, `health` of `api/system.py`) | a Redis key with a lifetime per consumer name | heartbeat, shutdown, the probe's calls | ready means a worker is, or just was, alive; a live one is seen |
| Seeding and reading campaigns (`src/backend/scripts/generate_synthetic_data.py`, `api/campaigns.py`) | `campaigns`, `campaign_metrics` rows | `generate`; `CampaignRepo.get` then `metrics` | campaigns are refreshed as a whole; seeded events are ingested like others |
| Lists and customer pages, error formatting, Kafka stub, UI | none of their own | reads, I/O | not modelled, see section 8 |

How they interact: the API and the worker share only PostgreSQL rows (under row
locks) and the Redis stream. A worker holds its outbox row locks while it calls
Redis, and Redis does not roll back. The stream delivers at least once: an entry
unacknowledged for `WORKER_CLAIM_IDLE_MS` is claimed by another consumer while
the first may still be working on it. Requests that use the analysis service run
concurrently in one process and share its three fields.

What is hard here is listed line by line under `hazards` in `PROJECT.json`: lost
updates on the aggregate, double application after redelivery or an ambiguous
commit, events that arrive late, inverse lock orders, a publication whose
transaction rolls back, a Redis that loses its state, retention racing a replay,
an exception inside the failure path, stragglers and cancelled probes in the
breaker, keys that travel to a service they are not meant for, batches that
deadlock on unique indexes or fail in part, seeds that refresh the same campaign
at once, rate-limit calls that overtake each other, previews that stream while
workers commit, heartbeats that outlive their worker or expire before it.

## 2. The modules

```
EventLifecycle            what is promised about one event (abstract)
   ^ implemented by          ^ used as atomic steps by
EventProcessing           EventPipeline
(row locks, statements)   (outbox, stream, workers, faults)

Ingestion                 the API's transactions, which EventPipeline takes as one step
   ^ composed with
Seeding                   seeds and reads of campaigns among those transactions

RateLimiter               the window in Redis before ingestion
Audience                  one preview, with workers at work
WorkerHealth              heartbeats, shutdowns and the readiness probe

AnalysisService           the circuit breaker        Adapters   whose key goes where
   ^ extended and implemented by                        ^ used by
CampaignAnalysis          the breaker with what its responses say, and whom it calls
```

`EventLifecycle` is the abstract specification: an event is accepted, then
applied to its customer or dead-lettered, and may be requeued. Every action is
one step.

`EventProcessing` is the database side in detail. A *session* is an open
transaction of a worker or of a replay request; its statements are separate
steps (`LockEvent`, `LockCustomer`, `ReadScore`, `CommitProcess`, ...), and other
sessions act in between. It does not model how messages travel: any session may
begin to process or to fail any id the stream could ever deliver, at any time
and again and again, which covers every behaviour of the queue.

| State | Code |
|---|---|
| `status` | `events.status`; `"absent"` while there is no row |
| `engagement` | `engagement_scores`: `score`, `clock` is `last_updated`, `count` is the sum of the counts in `channel_breakdown` |
| `profile` | `customers`: `last_active`, `has_converted`, and the channels an event has opted out |
| `dlq` | `dlq_events` in id order; only `event_id` and whether `replayed_at` is set |
| `held`, `txn` | row locks; the transaction's position and what it has read |

Writes of an open transaction are kept back until its commit, since READ
COMMITTED shows them to nobody. `Close` is every way to end without a commit: an
early return, a rejected payload, an exception, a crash. The score is exact: a
contribution is `weight * Decay[Horizon]`, so dividing by `Decay[d]` never
rounds, and `Decay[a + b] = Decay[a] * Decay[b]` is what the exponential of the
code satisfies. Floating-point rounding is abstracted.

`EventPipeline` takes the transactions on one event as single steps (that
`EventProcessing` implements `EventLifecycle` is what permits it) and interleaves
the rest: `Claim`, `PublishRow` (one per row), `StartCleanup` and
`CommitReconcile` are `reconcile_outbox`; `ConsumeClaimed` and `ConsumeNew` are
the two halves of `consume`; `AttemptSucceeds`, `AttemptFails`,
`AttemptUnconfirmed` (the commit took effect but the worker saw an error),
`FailEvent`, `FailEventRaises` and `Ack` are the message loop. A worker's `batch`
is a set: Redis returns messages in the order of their ids. `SeedLive` is an entry
of `POST /system/seed-live`, whose XADD has a `maxlen` and so takes the oldest
entries of a long stream with it, unread ones too; the group's pending list keeps
their ids (`Dangling`) until a claim meets them and drops them. `ForeignMessage` is
any other entry without an outbox row. A claim looks at `ScanFactor` pending
entries for each it may return and moves its cursor past them, whether or not it
found an idle one (`Scanned`, `Found`, `NextCursor`). Faults are
`Interrupted` (any call of the loop raises, or the process dies and is restarted)
and `RedisLoss`. `DeadlockAbort` is PostgreSQL's deadlock detection. Ages are
three marks that appear at any moment: a publication turns stale (two minutes), a
delivery turns idle, a row turns old (retention).

`Ingestion` takes apart what `EventPipeline` does in its one step `Ingest`:
`InsertCustomer`, `InsertEvent` or `SkipDuplicate`, and `InsertOutbox` are the
statements of `_persist_one`; `wrote` is what an open transaction has inserted,
`saved` what it had inserted at its latest savepoint, so that `RejectItem` is the
rollback of one item of a batch. `ON CONFLICT DO NOTHING` waits for an open
transaction with the same key (`WaitsFor`); a circle of waiting transactions is
broken by making a statement of one fail (`Raises`). `answered` and `acceptances`
record what clients were told, and a client may send anything again at any
time. Validation comes before all of this and writes nothing. Workers and replays
are left out: they may delay a statement here, never wait for one that waits for
them. An item that is a deadlock's victim or that no statement can store is
answered as rejected, although a comment (`api/events.py:136`) expects rejected to
stay empty; the model has both.

`Seeding` extends `Ingestion`: a request slot may also run a seed or read a
campaign. `phase` says in which of its transactions a seed is, and the variables
of `Ingestion` are its todo list and what it has inserted, so that seeds, batches
and single events wait for each other's keys by the same rule. `SeedCustomer` and
`SeedEvent` are one row each of a statement of many rows; a failed row fails the
statement, as there is no savepoint. `UpsertCampaign` takes the row lock that
`ReplaceMetrics` relies on; `locked` counts the campaigns upserted and `removed` is
what the DELETEs saw. Metrics are known by the refresh that wrote them, and the
campaign row carries the number of its latest refresh. `Read` and `ReadMetrics`
are two statements with a snapshot each. `FailSeed` rolls back the open
transaction only, and a seed may be run again.

`WorkerHealth` counts time in ticks. `name` and `embedded` are how the processes
were configured: the workers' names, and which of them, if any, is the task of the
probed API process (`RUN_EMBEDDED_WORKER`). `key` is what each heartbeat key has left to
live, `missed` counts a running worker's failed writes since its key was there, `quiet` is
how long no worker has been alive, and `hope` whether the readiness request had at
some moment reason to say ready. `Send`, `Beat` and `BeatFails` are the heartbeat
task; `Stop` and `Delete` the shutdown, whose delete a write already under way may
follow (`Orphaned`, `Receive`); `CheckDatabase`, `Ping`, `Visit`, `GiveUp` and
`Answer` the calls of `health`, with SCAN returning names in any order. A command
is received in the tick it was sent in or not at all. "Ready" speaks of processes:
that a worker's loop makes progress is not what the code looks at.

`RateLimiter` has the sorted set of one key. The script is atomic, but its time
comes from the caller: `Lag` bounds how far a call's time is behind the time it
takes effect, clock difference and delay together. Consequently the module
promises the limit for stretches of the window less the lag, and for the whole
window when the lag is zero. A call whose answer is lost after the script ran has
the effect of `Admit` or `Reject`; one that never reached Redis is `FailOpen`.

`Audience` is one preview: `Begin` and `ParseConditions` read the clock,
`Select` is the start of the one SELECT (its snapshot is `selected`), `Offer`
handles the row the cursor delivers next, in any order, and `Answer` sorts.
`ProcessEvent` is what workers may do to a customer meanwhile: consent is only
withdrawn and sends are only added. `heapq` is a set with its least entry at the
root. An optional filter is a set of at most one value. Scores are exact, as in
`EventProcessing`.

`AnalysisService` is the breaker. Nothing under its lock awaits, so the parts of
`analyze` before and after the provider call are one step each.

`CampaignAnalysis` extends it with `response`, the latest answer and its
campaign: `Refuse` and `AnswerFromRules` answer with the fallback,
`AnswerFromModel` with what the model said, checked by the guard and weighted. A
recommendation is the set of figures in it, each with the shape by which the
guard's expressions find it; numbers are in hundredths, confidences in
thousandths. A figure before a unit of time is never checked, as in the guard; the
property `VerifiedFigures` exempts it at any size and names the threshold of the
fallback's advice, which does not pass the guard. The engagement sample is left
out: no endpoint passes one. `Call`
chooses the headers of a request, and `Provider` is the adapter that the headers
and the settings give it.

`Adapters` is the factory and its callers as operators. An adapter is the service
it sends to and the key it sends; a key is its owner, the service it is meant for
and whether that service accepts it. `Generate` is the set of analyses that a
reply can yield: none if the service refuses the key or the text does not parse.

`MC*` modules give constants and symmetry sets for TLC; `*Proofs` modules hold
theorems. Operators whose comment starts with "Mutant" are plausible bugs in the
definition that follows them; the specifications do not use them. Each has been
put in the place of that definition to see a property fail.

## 3. Runs

| Run | Question | Bounds |
|---|---|---|
| `processing` | do interleaved transactions apply each event once, in any order, and implement `EventLifecycle`? | 2 sessions, 3 events (two of one customer, one of them late), 1 foreign id, 2 dead letters |
| `delivery` | beside a message whose dead letter cannot be stored, does ack mean settled, and are there no duplicates? | 2 workers, 2 events, 1 foreign id, 2 outbox rows, batches of 2, 8 messages |
| `retention` | does cleanup racing replays and other cleanups ever delete a pending event's last row? | 3 workers, 1 event, 2 rows, both may be old |
| `recovery` | with a fault, is every event settled in the end and not acknowledged before, without flooding the stream, and do rows leave the outbox? | 2 workers, 1 event, 1 demo entry (maxlen 1), batches of 1, 1 retry, 1 fault, 1 old row, 5 messages |
| `drain` | does every message leave the stream, also when entries are trimmed and a claim looks at 2 pending entries only? | 2 workers, 1 event, 1 demo entry (maxlen 1), batches of 2, 6 messages, no faults |
| `ingestion` | does every event commit once, with one outbox row, are clients told the truth, in time, and are campaigns refreshed as a whole? | 2 requests, seeds or reads at a time, 3 in all, 5 items, 4 batches, 2 seeded rows, 2 campaigns, 1 fault |
| `rate_limiter` | does the limit hold, and is nobody refused below it, when calls are reordered? | 2 calls, limit 3, window 3, lag 1, times 0 to 7 |
| `audience` | is the answer the best of one instant, of people who consent? | 3 customers, 5 row contents, heaps of 1 and 2, times 0 to 2 |
| `circuit_breaker` | one probe, trips on consecutive errors, closed by a probe only? do answers follow the evidence, and keys reach only their services? | 3 requests, threshold 2, 4 failures, 3 campaigns, 9 answers, 8 headers, 6 settings |
| `worker_health` | is ready never said of the dead for longer than a lifetime, and is the living seen? | 2 workers, one of them or none embedded, 1 or 2 names, lifetime 4, interval 1, timeout 1, 2 faults |
| `reconcile_deadlock` | expected violation, see section 5 | 3 workers, 2 events |
| `blocked_batch` | expected violation, see section 5 | 1 worker, batches of 2 |

Why the bounds suffice. Two sessions show every pairwise race, and the theorems of
section 6 hold for any number. Three events include two of one customer whose
timestamps are in the opposite order of either arrival. Two dead letters permit
fail, replay, fail again. Two rows in the outbox are an event and its replay, or
two events. In the retention run three workers are needed: two that claim a row
each, before the rows' events settle through messages a third handles. One fault
is enough to put a crash or a loss of Redis at every point; faults do not add up,
because each of them leaves the worker at the top of its loop. `MaxMessages` is an
artefact. By `BoundedRepublication`, a theorem, an event with n rows has at most n
(n + 1 + faults + demo entries) messages until a row expires; the bounds of
`delivery` (6 and the foreign one), `drain` (3 and the demo entry),
`blocked_batch`, `recovery` (4 and the demo entry) and `retention` (6) are not
below that. The last two go on after a row has expired: there a bound that is
reached would leave a worker inside its reconciliation, its rows locked for good,
and in `recovery` break `RetentionEnforced`.

In `ingestion` two batches insert the same two events in opposite orders (a
deadlock), one names an event twice, and one starts with an item that a statement
refuses; the third request is a client sending again. In `rate_limiter` seven
units of time are two windows and more, so that entries leave and the key expires
while a late call is in flight; the costs are one, most of the limit, and more
than the limit. In `audience` three customers fill a heap of two, at scores that
tie by decay or by the ceiling, and change in between. In `circuit_breaker` three
requests are a probe, a straggler and one more; the answers restate a
metric, an outdated metric, a goal beside a small delta, and counts, and leave the
confidence out or out of range; callers bring no key, keys good and bad, a key for
LangChain, one where none is needed, one that OpenRouter will refuse although
`configure` calls it valid, and a name the factory does not know.

In `ingestion` the seed's rows have both customers of the batches, one of their
events, and an event of its own; two campaigns show whether a seed that is between
them lets another one in. In `worker_health` a tick is about ten seconds, so that
a lifetime of 4 is near the least the settings allow (30 seconds): two failed
writes, each with a sleep and a timeout, use it up. A timeout of one tick is the
`socket_timeout` of 10 seconds (`main.py:60`) and a call that makes one attempt. A
client library that repeats a call which timed out makes it last several of them:
`Timeout` is the whole call, `VisibleWorkers` holds for any value of it, and with
`TTL - 2 * Interval` or more a single failed write uses the lifetime up. Without
an embedded worker `quiet` grows: the probe meets keys that killed workers left
behind or that a late write brought back, and says ready at most until they
expire. With one, its task must not have ended, whatever keys there are. Two
faults are an outage and a shutdown, or a worker ending in the shadow of another;
stops, kills, outages and failed statements all count.

Faults have a run of their own (`recovery`, one event); `delivery` has none but
the message that always fails, so that two events and two workers fit.

Symmetry is used in runs with no liveness property. Deadlock is checked in every
passing run but two: in `ingestion` clients may have sent all they will send, and
in `rate_limiter` the time of the instance runs out. Elsewhere the workers' loop
never ends, and the breaker and the previews always have a next request.

## 4. Fairness

`FairSpec` assumes weak fairness of each worker's own steps (`Iterate`), and that
time passes (`TurnsIdle`, `TurnsStale`). The worker loop has no step that waits
for an outside condition for ever: a killed worker is restarted
(`restart: unless-stopped` in `src/backend/docker-compose.yml`), exceptions are
followed by the next iteration, `XREADGROUP` returns after `WORKER_BLOCK_MS`, and
database locks are held by transactions that end. Nothing is assumed about
clients, operators or faults, and which attempt succeeds is not fair either: an
event may fail every attempt, and is then dead-lettered.

`Seeding!FairSpec` assumes weak fairness of the own steps of each request, seed
and read: the API process runs the handler on, and PostgreSQL grants locks that
are free and breaks deadlocks. Whether a request is sent is not fair.
`RequestsAnswered` is about finitely many requests: with an unlimited stream of
them PostgreSQL's queue for a key, which the model does not have, would be needed.

`WorkerHealth!FairSpec` assumes that time passes, that Redis comes back, that the
event loops run the heartbeat and the shutdown on, that a call that hangs fails in
the end, and that a monitor keeps probing. A call to Redis is answered or fails in
the API process because its client has a timeout (`main.py:60`) and makes finitely
many attempts, in a standalone
worker (`workers/__main__.py:33`, no timeout) because the operating system gives a
dead connection up. Starts, stops, kills and outages are not fair.

## 5. Where the documents and the code part

* `reconcile_deadlock`: `src/SYSTEM_DESIGN.md:106` says that claiming with `SKIP
  LOCKED` lets workers fetch batches "without lock contention". The claim does;
  but `cleanup_outbox` (`queue/outbox.py:27`) deletes in the same transaction
  without skipping locked rows. Two workers that each hold claimed rows of events
  that settled meanwhile, rows now past retention, wait for each other until
  PostgreSQL aborts one. The aborted transaction's messages stay in the stream
  and its rows are published again. It needs rows older than
  `OUTBOX_RETENTION_DAYS` whose events were pending until then. Nothing is lost
  (`retention`, `recovery`).
* `blocked_batch`: `src/README.md:68` promises "zero dropped events" and
  `src/SYSTEM_DESIGN.md:122` that a malformed message is moved to `dlq_events`. A
  message whose dead letter cannot be stored (an `event_id` longer than the
  column, a NUL character in the JSON) makes `fail_event` raise
  (`workers/event_worker.py:109`). The batch is abandoned and claimed again as a
  whole, so an event behind that message is never settled from it. The event
  stays pending and durable.

Further disagreements were met while modelling `EventPipeline`, `CampaignAnalysis`
and `Adapters`, in whose actions and properties they appear; no run is spent on them.

* `queue/redis_streams.py:3` says "Never trim unread entries". `POST
  /system/seed-live` adds its demo entries with `maxlen=1000` (`api/system.py:282`),
  to whatever Redis the caller names: in a stream longer than that, unread and
  pending entries go. Their rows are published again when they are stale
  (`recovery`), the pending list forgets them (`drain`), and each trim may cost one
  more publication of a row (`BoundedRepublication`).
* `ai/fallback.py:17` says the fallback "emits only numbers already present in the
  structured aggregates". Its advice on a low open rate names the threshold 15%
  (`ai/fallback.py:67`), which is not among them, and the response is marked
  `grounding_verified` by default (`ai/provider.py:14`).
* `ai/grounding_guard.py:18` says goal forms "are NOT exempt". A "by N%" anywhere in
  a sentence with a directional verb exempts every percentage up to 10 in it.
* `ai/adapters.py:51` tells the model that an unverified number "causes the whole
  response to be rejected". It is returned with `grounding_verified` false.
* `ai/adapters.py:22` says that for an unknown or unconfigured provider the caller
  takes "the rule-based fallback path". For a request's own provider the caller
  takes the application's (`api/ai.py:31`), with the application's key.
* `ai/adapters.py:256` falls back to Groq's key for LangChain, whose client is
  pointed at OpenRouter either way (`ai/adapters.py:259`): with only
  `GROQ_API_KEY` configured, that key is sent to OpenRouter.

## 6. Theorems

All proofs are for arbitrary constants under the named assumptions of the modules
(`LifecycleAssumption`, `ProcessingAssumption`, `PipelineAssumption`,
`BreakerAssumption`, `AnalysisAssumption`, `IngestionAssumption`,
`SeedingAssumption`, `AudienceAssumption`, `HealthAssumption`, `DecayAssumption`,
`LimiterAssumption`): the sets of events, foreign ids and customers are arbitrary,
events are finite in number and no id is both an event and foreign.

* `EventProcessingProofs`: `TypeCorrect` and `LockOrder`. The invariant `LockInv`
  says which rows a session holds at each position of its transaction, that no
  row is held twice, and that what a session read is still the content of the row
  while it holds it. Every wait then goes upward in the rank of the lock order
  (nothing held, the event held, the customer or dead letter held as well), so a
  session of highest rank in any set waits for nobody in it.
* `EventOutcomeProofs`: `ProcessingIsFinal`, `StrictlyOnce`, `ReplayableOnce`,
  `ProfileFollowsHistory`. They are not inductive by themselves, since a commit
  writes what the session read earlier. With `LockInv` a commit is the one-step
  update it should be (`ProcessingApplies`, `FailureHitsPending`, ...), and each
  property follows from those steps. `ProcessingImplementsLifecycle`: under the
  same invariant a commit maps to one action of `EventLifecycle` and any other
  step to a stutter. `ScoreFollowsLedger`: the accumulator is of the time of the
  latest processed event and the sum of the shares the processed events have at
  that time (`ScoreInv`); an event that arrives late adds a share that has already
  decayed, a later one first decays the whole sum, without a remainder since
  scores are counted in the smallest unit they decay to (`DecayAssumption`,
  `SharesDecay`). The sum over a set is a fold of the library. That it is additive
  follows from counting: the disjoint union of as many units as each share has is
  such a sum (`SumExists`), and a smallest set on which the fold differs from it
  cannot be (`SumIs`).
* `EventPipelineProofs`: `TypeCorrect`, `OutboxCoversPending`,
  `OnlySettledIsAcknowledged`, `NothingIsPublishedTwice`, `RecoveryDoesNotFlood`,
  `DeadlockNeedsExpiredRows`, `NothingIsStranded`, `PipelineImplementsLifecycle`
  and `NoEventIsDropped`. The types are inductive once a worker that handles
  a message is known to have one (`ConsumeTypes`); pending entries are in the stream
  or older than a demo entry that may have trimmed them. The invariant `Covered` adds the
  shape of the outbox (ids below `nextRow`, cleanups name existing ids only), so
  that the row of a replay is new to every cleanup in progress. `AckInv` speaks of
  the time between the commit that settles a message's event and its
  acknowledgement: the event stays settled, or a replay gives it a row that no
  cleanup has found and whose message, whoever publishes it, is another
  (`Elsewhere`). No event in the outbox or the stream is absent (`Known`).
  `PublicationInv` says that a row is claimed by one worker at a time (`RowLocks`)
  and, while nothing failed and no row expired, that each message in the stream is
  held by a row of its event, or by the worker that has the row claimed and will
  write the message's id into it (`Owned`). Different messages have different
  rows, so there are no more messages of an event than rows (`MessagesMatchRows`).

  `RecoveryDoesNotFlood` is what is left of that after failures. A row gets a new
  message only when the one it knows is gone. `FloodInv` gives every message ever
  added a row of its event and a number in the row's room (`Assigned`). The room
  is two messages for the row and for each later row of the event, and one for
  each fault and each demo entry (`Disturbances`), less what the row may still
  need (`Need`): two while the event is pending, one of them if a message that no
  worker is about to acknowledge is kept for the row (`Lasting`), and one for a
  claim that outlives the settlement (`Busy`). A replay, which writes a row, a
  fault, which undoes claims or empties Redis, and an entry of seed-live, which
  trims (`AsksAfterTrim`), are the steps that make room; a publication takes a
  number of its own; no other step asks for more (`AsksNoMore`). The rooms of n
  rows add up to n (n + 1 + faults + demo entries), which is counted by folding
  the longest room onto the shortest (`PlacesFit`). Instances reach the bound,
  with two rows in one batch. Past a row's retention it fails, since an aborted
  deadlock undoes claims and is no fault.

  `DeadlockNeedsExpiredRows` says how far the finding `reconcile_deadlock` goes: two
  rows past their retention are needed, with any number of workers.
  `NothingIsStranded`: every message in the stream is after the group's last
  delivered one or on its pending list, since what `XREADGROUP` takes is lowest
  (`FirstNIsLowest`), and a group that is created again starts from nothing.
  `PipelineImplementsLifecycle` maps each step to `EventLifecycle`, and
  `NoEventIsDropped` puts it together with `OutboxCoversPending`: an accepted event
  can be published again, counts once in its customer's aggregate, or has one dead
  letter to replay.
* `IngestionProofs`: `TypeCorrect`, `OutboxRowPerEvent`, `TruthfulAnswers`,
  `AcceptedAtMostOnce`, `RefreshedAsAWhole` and `IngestionIsAtomic`, of requests,
  seeds and reads together. None is inductive: what a commit publishes depends on what the
  transaction collected, statement by statement and across rolled-back savepoints.
  `Durable` says that what a transaction has inserted is what it had at its
  savepoint and what the current statement adds, that its events are new to the
  committed ones and to other open transactions, and that its duplicates are
  committed or its own. `SeedingInv` adds that the customers of a seed's rows are
  there before its events (`RowsReady`), that a seed that has upserted a campaign is
  the only one and what it deleted is what is there (`Refreshing`), and that a read
  has seen no refresh later than the latest (`Viewing`). A seed's steps leave
  `Durable` alone or are those of a request (`SeedLocalStep`, `PublishStep`).
  `IngestionIsAtomic` is the link to `EventPipeline`: a step that changes a table
  is a commit, and what a commit does (`AcceptsWhole`) is `Ingest` of each new
  event, one after the other, and the answer that accepts just these.
* `RateLimiterProofs`: `TypeCorrect`, `WindowHolds`, `RefusalsAreDue`. The sorted
  set lists every admission of the last window, late calls and expired keys
  included (`LimiterInv`): a call is never more than the lag behind, so what it
  prunes is old enough for every later one. A stretch of time that includes the
  time of a call lies in the window it counted. Totals are sizes of sets of
  members, as `ZCARD` counts them.
* `WorkerHealthProofs`: `TypeCorrect`, `ReadyIsRecent`, `VisibleWorkers`. A key has
  never longer to live than its worker's death leaves it, late writes included; and
  what a running worker's key has left is at least the lifetime less what its sleep
  and its failed writes have cost. Both hold whichever workers are embedded.
* `AudienceProofs`: `TypeCorrect`, `HeapHoldsTheBest`, `ConsentRespected` and
  `AnswerIsBestFirst`. The heap is the top of what has been offered: pushing keeps
  everything, replacing the root drops an entry below all others, skipping drops
  one below the root.
  Consent needs that workers only withdraw it, from `Begin` to `Select`. An entry's
  rank, one more than the entries above it, is one-to-one onto the positions
  (`RankExists`), so a ranking exists and lists every entry once (`RankingRanks`).
* `CampaignAnalysisProofs`: `SingleProbe`, `Trips` and `StragglersDoNotClose` of
  the breaker, from type correctness, the single probe and `Counting`: a closed
  circuit has counted exactly the errors in a row, and fewer than the threshold. So
  the circuit opens with the error that completes the row (`Trips`). While it is
  open, the count and the row part: a straggler's success ends the row and changes
  nothing else, hence `Trips` speaks of closed circuits only.
  `ImplementsBreaker`, so that they carry over (`TypeCorrect`,
  `AnswersKeepOneProbe`); `KeysGoWhereTheyBelong`, for all settings and headers, by
  the cases of the factory; `VerifiedIsMeasured` and `ConfidenceIsEvidence`, for
  every campaign and answer. A response is always the
  fallback's or the model's for some campaign; the rest is arithmetic of
  tolerances, weights and roundings.

Only model-checked are the liveness properties (`EventuallySettled`,
`RetentionEnforced`, `StreamDrains`, `RequestsAnswered`, `RunningIsReady`), since
reasoning about fairness needs ENABLED. The properties of `reconcile_deadlock`
and `blocked_batch` are false, which their runs show.

## 7. Plan

Done, in this order: the database transactions, the pipeline, the breaker,
ingestion, the rate limiter, previews, the content of analyses, heartbeats and
readiness, the adapters, seeding; and a proof of every safety property that a
passing run checks. Left: `IngestionIsAtomic` as a refinement mapping, which needs
`EventPipeline` to accept several events in one step.

## 8. Not modelled

Of the adapters, the HTTP requests, the models and the wording of prompts; a call
is a success, a failure or a cancellation. The Kafka adapter is a stub that
raises. `idempotency.py`, `ai/validators.py` and several repository methods are not
called. The lists of customers, campaigns and dead letters and a customer's pages
are read-only queries. `build_reason` words an audience's reasons. The API key
check, error formatting, migrations and the static page hold no state. Of live
configuration only the check of a language model's key is modelled; the checks of
a database and of a Redis connect once and keep nothing. A seed of a database the
caller names is a seed of other tables; what it writes to a stream is `SeedLive` in
`EventPipeline`, with its trim. That analyses hold a database connection while
they wait for the language model, and so share a pool of fixed size, is not
modelled: the pool's waiting has its own timeout, after which a request fails like
any other statement.

No retries are configured for the Redis clients (`main.py:60`,
`workers/__main__.py:33`), and the modules have one execution per call. A client
library that repeats a call which timed out would run the rate limiter's script
twice, whose second run counts the request's own entries, or add a message that no
row knows, which `EventPipeline` has only as part of a fault (`Interrupted` after
`PublishRow`). For heartbeats the repetitions are in `Timeout` (section 3).

Customers of `EventProcessing` start as ingestion creates them. Those of the seed
script start with activity and consent of their own, which events change by the
same rules: `ProfileMatchesHistory` is about what events add.

Floating-point rounding of scores is abstracted (section 2), and so is the
wording of texts, except for the figures in them.
