------------------------------ MODULE Ingestion ------------------------------
(***************************************************************************)
(* Concurrent ingestion requests, statement by statement (api/events.py):  *)
(* ingest_event, and ingest_batch with one savepoint per event. EventPipe- *)
(* line takes the commit of an event with its outbox row as one step; this *)
(* module shows what that rests on, and what clients may conclude from the *)
(* answers.                                                                *)
(*                                                                         *)
(* INSERT ... ON CONFLICT DO NOTHING waits while another open transaction  *)
(* has inserted the same key, and decides when that transaction, or its    *)
(* savepoint, is over. Transactions that wait in a circle are a deadlock:  *)
(* PostgreSQL makes the statement of one of them fail.                     *)
(*                                                                         *)
(* Workers and replays only delay these statements: they never wait for a  *)
(* row while ingestion waits for a row they have locked or written.        *)
(***************************************************************************)
EXTENDS Naturals, Sequences

CONSTANTS
    Items,        \* what a body says of an event: its id and its customer
    Unstorable,   \* items that pass validation and that a statement refuses
    Batches,      \* bodies of POST /events/batch, sequences of items
    Requests,     \* concurrent ingestion requests
    MaxRequests,  \* bound: requests ever sent
    MaxFaults     \* bound: broken connections, and errors for no lasting reason

ASSUME IngestionAssumption ==
    /\ \A i \in Items : i = [event |-> i.event, customer |-> i.customer]
    /\ Unstorable \subseteq Items
    /\ Batches \subseteq Seq(Items) \ {<<>>}
    /\ MaxRequests \in Nat
    /\ MaxFaults \in Nat

VARIABLES
    customers,    \* committed rows of customers
    events,       \* committed rows of events
    outbox,       \* committed rows of event_outbox for each item
    at,           \* the next statement of each request
    savepoints,   \* is the request a batch?
    todo,         \* the items the request has yet to handle
    wrote,        \* what its open transaction has inserted
    saved,        \* what it had inserted at its latest savepoint
    result,       \* what it counts as accepted, as duplicates and as rejected
    answered,     \* items a client was told are accepted or duplicates
    acceptances,  \* how often clients were told an event is accepted
    sent,         \* requests so far
    faults        \* faults so far

tables == <<customers, events, outbox>>
clients == <<answered, acceptances>>
vars == <<tables, at, savepoints, todo, wrote, saved, result, clients, sent, faults>>

Nothing == [customers |-> {}, events |-> {}, outbox |-> {}]
NoResult == [accepted |-> {}, duplicate |-> {}, rejected |-> {}]
EventIds == {i.event : i \in Items}
IdsOf(rows) == {i.event : i \in rows}

Init ==
    /\ customers = {}
    /\ events = {}
    /\ outbox = [i \in Items |-> 0]
    /\ at = [r \in Requests |-> "idle"]
    /\ savepoints = [r \in Requests |-> FALSE]
    /\ todo = [r \in Requests |-> <<>>]
    /\ wrote = [r \in Requests |-> Nothing]
    /\ saved = [r \in Requests |-> Nothing]
    /\ result = [r \in Requests |-> NoResult]
    /\ answered = {}
    /\ acceptances = [e \in EventIds |-> 0]
    /\ sent = 0
    /\ faults = 0

----------------------------------------------------------------------------
Item(r) == Head(todo[r])

Start(r, batch, withSavepoints) ==
    /\ at[r] = "idle"
    /\ sent < MaxRequests
    /\ sent' = sent + 1
    /\ at' = [at EXCEPT ![r] = "customer"]
    /\ todo' = [todo EXCEPT ![r] = batch]
    /\ savepoints' = [savepoints EXCEPT ![r] = withSavepoints]
    /\ UNCHANGED <<tables, wrote, saved, result, clients, faults>>

IngestEvent(r) == \E i \in Items : Start(r, <<i>>, FALSE)
IngestBatch(r) == \E batch \in Batches : Start(r, batch, TRUE)

\* Request r waits for the key that request q has inserted.
WaitsFor(r, q) ==
    /\ q # r
    /\ \/ at[r] = "customer" /\ Item(r).customer \in wrote[q].customers
       \/ at[r] = "event" /\ Item(r).event \in IdsOf(wrote[q].events)

Waits(r) == \E q \in Requests : WaitsFor(r, q)

\* The customer, unless there is one.
InsertCustomer(r) ==
    /\ at[r] = "customer"
    /\ ~Waits(r)
    /\ wrote' = IF Item(r).customer \in customers
                THEN wrote
                ELSE [wrote EXCEPT ![r].customers = @ \cup {Item(r).customer}]
    /\ at' = [at EXCEPT ![r] = "event"]
    /\ UNCHANGED <<tables, savepoints, todo, saved, result, clients, sent, faults>>

\* Mutant: the batch looks for an item after its last one.
FinishOneTooMany(r, inserted, outcome) ==
    /\ wrote' = [wrote EXCEPT ![r] = inserted]
    /\ saved' = [saved EXCEPT ![r] = inserted]
    /\ result' = [result EXCEPT ![r] = outcome]
    /\ todo' = [todo EXCEPT ![r] = Tail(@)]
    /\ at' = [at EXCEPT ![r] = IF Len(todo[r]) = 0 THEN "commit" ELSE "customer"]

\* The item is over, and what it inserted is kept; the next one begins.
MoveOn(r, next, inserted, outcome) ==
    /\ wrote' = [wrote EXCEPT ![r] = inserted]
    /\ saved' = [saved EXCEPT ![r] = inserted]
    /\ result' = [result EXCEPT ![r] = outcome]
    /\ todo' = [todo EXCEPT ![r] = Tail(@)]
    /\ at' = [at EXCEPT ![r] = IF Len(todo[r]) = 1 THEN "commit" ELSE next]

\* The item's savepoint is released.
Finish(r, inserted, outcome) == MoveOn(r, "customer", inserted, outcome)

\* The event id is new to this transaction and to every committed one.
IsNew(r) == Item(r).event \notin IdsOf(events \cup wrote[r].events)

\* Mutant: no unique index, each transaction looks at what it can see.
InsertEventWithoutIndex(r) ==
    /\ at[r] = "event"
    /\ IsNew(r)
    /\ wrote' = [wrote EXCEPT ![r].events = @ \cup {Item(r)}]
    /\ at' = [at EXCEPT ![r] = "outbox"]
    /\ UNCHANGED <<tables, savepoints, todo, saved, result, clients, sent, faults>>

InsertEvent(r) ==
    /\ at[r] = "event"
    /\ ~Waits(r)
    /\ IsNew(r)
    /\ wrote' = [wrote EXCEPT ![r].events = @ \cup {Item(r)}]
    /\ at' = [at EXCEPT ![r] = "outbox"]
    /\ UNCHANGED <<tables, savepoints, todo, saved, result, clients, sent, faults>>

\* Mutant: a duplicate gets an outbox row as well.
SkipDuplicateWithOutbox(r) ==
    /\ at[r] = "event"
    /\ ~Waits(r)
    /\ ~IsNew(r)
    /\ Finish(r, [wrote[r] EXCEPT !.outbox = @ \cup {Item(r)}],
                 [result[r] EXCEPT !.duplicate = @ \cup {Item(r)}])
    /\ UNCHANGED <<tables, savepoints, clients, sent, faults>>

\* ON CONFLICT DO NOTHING returns no row: a duplicate, without an outbox row.
SkipDuplicate(r) ==
    /\ at[r] = "event"
    /\ ~Waits(r)
    /\ ~IsNew(r)
    /\ Finish(r, wrote[r], [result[r] EXCEPT !.duplicate = @ \cup {Item(r)}])
    /\ UNCHANGED <<tables, savepoints, clients, sent, faults>>

\* enqueue_outbox, flushed with the savepoint or the commit.
InsertOutbox(r) ==
    /\ at[r] = "outbox"
    /\ Finish(r, [wrote[r] EXCEPT !.outbox = @ \cup {Item(r)}],
                 [result[r] EXCEPT !.accepted = @ \cup {Item(r)}])
    /\ UNCHANGED <<tables, savepoints, clients, sent, faults>>

----------------------------------------------------------------------------
(* Failures                                                                *)

\* PostgreSQL finds the request in a circle of waiting transactions.
Deadlocked(r) ==
    \E circle \in SUBSET Requests :
        /\ r \in circle
        /\ \A q \in circle : \E p \in circle : WaitsFor(q, p)
        /\ \A p \in circle : \E q \in circle : WaitsFor(q, p)

InItem(r) == at[r] \in {"customer", "event", "outbox"}

\* A statement of the current item raises.
Raises(r) ==
    /\ InItem(r)
    /\ \/ (Item(r) \in Unstorable \/ Deadlocked(r)) /\ UNCHANGED faults
       \/ faults < MaxFaults /\ faults' = faults + 1

Close(r) ==
    /\ at' = [at EXCEPT ![r] = "idle"]
    /\ todo' = [todo EXCEPT ![r] = <<>>]
    /\ savepoints' = [savepoints EXCEPT ![r] = FALSE]
    /\ wrote' = [wrote EXCEPT ![r] = Nothing]
    /\ saved' = [saved EXCEPT ![r] = Nothing]
    /\ result' = [result EXCEPT ![r] = NoResult]

\* Mutant: the whole transaction rolls back, and the batch goes on.
RejectItemAndForget(r) ==
    /\ savepoints[r]
    /\ Raises(r)
    /\ Finish(r, Nothing, [result[r] EXCEPT !.rejected = @ \cup {Item(r)}])
    /\ UNCHANGED <<tables, savepoints, clients, sent>>

\* Mutant: the batch tries the item again.
RejectItemAndRetry(r) ==
    /\ savepoints[r]
    /\ Raises(r)
    /\ at' = [at EXCEPT ![r] = "customer"]
    /\ wrote' = [wrote EXCEPT ![r] = saved[r]]
    /\ UNCHANGED <<tables, savepoints, todo, saved, result, clients, sent>>

\* In a batch the item rolls back to its savepoint, and the batch goes on.
RejectItem(r) ==
    /\ savepoints[r]
    /\ Raises(r)
    /\ Finish(r, saved[r], [result[r] EXCEPT !.rejected = @ \cup {Item(r)}])
    /\ UNCHANGED <<tables, savepoints, clients, sent>>

\* A single event rolls back as a whole: 503, persist_failed.
RejectRequest(r) ==
    /\ ~savepoints[r]
    /\ Raises(r)
    /\ Close(r)
    /\ UNCHANGED <<tables, clients, sent>>

\* The connection breaks or the process dies: nothing was committed, 503.
Break(r) ==
    /\ at[r] # "idle"
    /\ faults < MaxFaults
    /\ faults' = faults + 1
    /\ Close(r)
    /\ UNCHANGED <<tables, clients, sent>>

----------------------------------------------------------------------------
(* Commits                                                                 *)

\* What the transaction wrote becomes visible.
Publish(r) ==
    /\ at[r] = "commit"
    /\ customers' = customers \cup wrote[r].customers
    /\ events' = events \cup wrote[r].events
    /\ outbox' = [i \in Items |-> IF i \in wrote[r].outbox THEN outbox[i] + 1 ELSE outbox[i]]
    /\ Close(r)

\* The client learns the outcome of every item.
Commit(r) ==
    /\ Publish(r)
    /\ answered' = answered \cup result[r].accepted \cup result[r].duplicate
    /\ acceptances' = [e \in EventIds |-> IF e \in IdsOf(result[r].accepted)
                                          THEN acceptances[e] + 1
                                          ELSE acceptances[e]]
    /\ UNCHANGED <<sent, faults>>

\* The commit takes effect and the connection breaks: the client gets a 503
\* for what is durable, and may send it again.
CommitUnconfirmed(r) ==
    /\ Publish(r)
    /\ faults < MaxFaults
    /\ faults' = faults + 1
    /\ UNCHANGED <<clients, sent>>

----------------------------------------------------------------------------
\* A request once started runs by itself; whether one starts is up to clients.
Run(r) ==
    \/ InsertCustomer(r)
    \/ InsertEvent(r)
    \/ SkipDuplicate(r)
    \/ InsertOutbox(r)
    \/ RejectItem(r)
    \/ RejectRequest(r)
    \/ Commit(r)

Next == \E r \in Requests :
    IngestEvent(r) \/ IngestBatch(r) \/ Run(r) \/ Break(r) \/ CommitUnconfirmed(r)

Spec == Init /\ [][Next]_vars

----------------------------------------------------------------------------
(* Properties                                                              *)

Writes == [customers : SUBSET {i.customer : i \in Items},
           events : SUBSET Items, outbox : SUBSET Items]

TypeOK ==
    /\ customers \subseteq {i.customer : i \in Items}
    /\ events \subseteq Items
    /\ outbox \in [Items -> Nat]
    /\ at \in [Requests -> {"idle", "customer", "event", "outbox", "commit"}]
    /\ savepoints \in [Requests -> BOOLEAN]
    /\ todo \in [Requests -> Seq(Items)]
    /\ \A r \in Requests : InItem(r) <=> todo[r] # <<>>
    /\ wrote \in [Requests -> Writes]
    /\ saved \in [Requests -> Writes]
    /\ result \in [Requests -> [accepted : SUBSET Items, duplicate : SUBSET Items,
                                rejected : SUBSET Items]]
    /\ answered \subseteq Items
    /\ acceptances \in [EventIds -> Nat]
    /\ sent \in 0 .. MaxRequests
    /\ faults \in 0 .. MaxFaults

\* SYSTEM_DESIGN 2.A, the outbox row commits with its event: every committed
\* event has one row, its customer, and exactly one outbox row, with its own
\* payload and not that of a duplicate. A rejected item leaves nothing behind.
OneOutboxRow ==
    /\ \A i \in Items : outbox[i] = IF i \in events THEN 1 ELSE 0
    /\ \A i, j \in events : i.event = j.event => i = j
    /\ \A i \in events : i.customer \in customers

\* events.py, "202 means event + outbox committed": what a client was told is
\* accepted or a duplicate is durable, whatever became of the transaction that
\* made it a duplicate, and of the other items of the batch.
AnswersAreDurable == \A i \in answered : i.event \in IdsOf(events)

\* No event is accepted twice, by concurrent batches or by a client that sends
\* again what an unconfirmed commit already stored.
AcceptedOnce == \A e \in EventIds : acceptances[e] <= 1
=============================================================================
