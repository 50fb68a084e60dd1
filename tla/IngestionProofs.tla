--------------------------- MODULE IngestionProofs ---------------------------
(***************************************************************************)
(* Proofs about Ingestion and Seeding, for any items, batches, rows and    *)
(* campaigns of a seed, and any number of requests.                        *)
(*                                                                         *)
(* What a transaction has inserted is determined by what it had inserted   *)
(* at its last savepoint and by the statement it is at (Own); its events   *)
(* are new to every committed one (Fresh) and to every other open          *)
(* transaction (Apart), because whoever meets a key another transaction    *)
(* has inserted waits. So a commit adds each event once, with one outbox   *)
(* row, and what was counted as a duplicate is committed by then. A seed's *)
(* events find their customers, which it has committed before (RowsReady). *)
(* Only one seed at a time has upserted a campaign, since all begin with   *)
(* the first one; so what it deletes is all there is (Refreshing).         *)
(***************************************************************************)
EXTENDS Seeding, SequenceTheorems, TLAPS

----------------------------------------------------------------------------
(* Type correctness                                                        *)

LEMMA ItemType == TypeOK => \A r \in Requests : InItem(r) =>
                    /\ Item(r) \in Items
                    /\ Tail(todo[r]) \in Seq(Items)
                    /\ Len(todo[r]) = 1 <=> Tail(todo[r]) = <<>>
<1> SUFFICES ASSUME TypeOK, NEW r \in Requests, InItem(r)
             PROVE  /\ Item(r) \in Items
                    /\ Tail(todo[r]) \in Seq(Items)
                    /\ Len(todo[r]) = 1 <=> Tail(todo[r]) = <<>>
  OBVIOUS
<1>1. todo[r] \in Seq(Items) /\ todo[r] # <<>>
  BY DEF TypeOK
<1>2. /\ Head(todo[r]) \in Items
      /\ Tail(todo[r]) \in Seq(Items)
      /\ Len(Tail(todo[r])) = Len(todo[r]) - 1
  BY <1>1, HeadTailProperties
<1>3. Len(Tail(todo[r])) = 0 <=> Tail(todo[r]) = <<>>
  BY <1>2, EmptySeq
<1>4. Len(todo[r]) \in Nat
  BY <1>1, LenProperties
<1>5. QED
  BY <1>2, <1>3, <1>4 DEF Item

LEMMA MoreWrites ==
    ASSUME NEW w \in Writes, NEW i \in Items
    PROVE  /\ [w EXCEPT !.customers = @ \cup {i.customer}] \in Writes
           /\ [w EXCEPT !.events = @ \cup {i}] \in Writes
           /\ [w EXCEPT !.outbox = @ \cup {i}] \in Writes
<1> DEFINE Names == {x.customer : x \in Items}
<1>1. i.customer \in Names /\ Writes = [customers : SUBSET Names, events : SUBSET Items,
                                        outbox : SUBSET Items]
  BY DEF Writes
<1> HIDE DEF Names
<1>2. QED
  BY <1>1

LEMMA MoveOnType ==
    ASSUME TypeOK, NEW r \in Requests, InItem(r), NEW inserted \in Writes,
           NEW next \in {"customer", "event"},
           NEW outcome \in [accepted : SUBSET Items, duplicate : SUBSET Items,
                            rejected : SUBSET Items],
           MoveOn(r, next, inserted, outcome), UNCHANGED <<tables, savepoints, clients, sent>>,
           faults' \in 0 .. MaxFaults
    PROVE  TypeOK'
<1>1. /\ Tail(todo[r]) \in Seq(Items)
      /\ Len(todo[r]) = 1 <=> Tail(todo[r]) = <<>>
  BY ItemType
<1>2. /\ at' \in [Requests -> {"idle", "customer", "event", "outbox", "commit"}]
      /\ todo' \in [Requests -> Seq(Items)]
      /\ wrote' \in [Requests -> Writes]
      /\ saved' \in [Requests -> Writes]
      /\ result' \in [Requests -> [accepted : SUBSET Items, duplicate : SUBSET Items,
                                   rejected : SUBSET Items]]
  BY <1>1 DEF MoveOn, TypeOK
<1>3. ASSUME NEW q \in Requests PROVE (InItem(q) <=> todo[q] # <<>>)'
  BY <1>1 DEF MoveOn, TypeOK, InItem
<1>4. QED
  BY <1>2, <1>3 DEF TypeOK, tables, clients

LEMMA CloseType ==
    ASSUME TypeOK, NEW r \in Requests, Close(r)
    PROVE  /\ at' \in [Requests -> {"idle", "customer", "event", "outbox", "commit"}]
           /\ savepoints' \in [Requests -> BOOLEAN]
           /\ todo' \in [Requests -> Seq(Items)]
           /\ wrote' \in [Requests -> Writes]
           /\ saved' \in [Requests -> Writes]
           /\ result' \in [Requests -> [accepted : SUBSET Items, duplicate : SUBSET Items,
                                        rejected : SUBSET Items]]
           /\ \A q \in Requests : (InItem(q) <=> todo[q] # <<>>)'
<1>1. Nothing \in Writes /\ NoResult \in [accepted : SUBSET Items,
            duplicate : SUBSET Items, rejected : SUBSET Items]
  BY DEF Nothing, NoResult, Writes
<1>2. <<>> \in Seq(Items)
  BY EmptySeq
<1>3. \A q \in Requests : (InItem(q) <=> todo[q] # <<>>)'
  BY DEF Close, TypeOK, InItem
<1>4. QED
  BY <1>1, <1>2, <1>3 DEF Close, TypeOK

LEMMA TypeInit == Init => TypeOK
<1> SUFFICES ASSUME Init PROVE TypeOK
  OBVIOUS
<1>1. Nothing \in Writes /\ NoResult \in [accepted : SUBSET Items,
            duplicate : SUBSET Items, rejected : SUBSET Items]
  BY DEF Nothing, NoResult, Writes
<1>2. <<>> \in Seq(Items)
  BY EmptySeq
<1>3. \A r \in Requests : InItem(r) <=> todo[r] # <<>>
  BY DEF Init, InItem
<1>4. QED
  BY <1>1, <1>2, <1>3, IngestionAssumption DEF Init, TypeOK

LEMMA StartType ==
    ASSUME TypeOK, NEW r \in Requests, NEW batch \in Seq(Items), batch # <<>>,
           NEW withSavepoints \in BOOLEAN, Start(r, batch, withSavepoints)
    PROVE  TypeOK'
<1>1. \A q \in Requests : (InItem(q) <=> todo[q] # <<>>)'
  BY DEF Start, TypeOK, InItem
<1>2. sent' \in 0 .. MaxRequests
  BY IngestionAssumption DEF Start, TypeOK
<1>3. QED
  BY <1>1, <1>2 DEF Start, TypeOK, tables, clients

\* An insertion of the current item moves on to its next statement.
LEMMA InsertType ==
    ASSUME TypeOK, NEW r \in Requests, InItem(r), NEW next \in {"event", "outbox"},
           at' = [at EXCEPT ![r] = next], wrote' \in [Requests -> Writes],
           UNCHANGED <<tables, savepoints, todo, saved, result, clients, sent, faults>>
    PROVE  TypeOK'
<1>1. \A q \in Requests : (InItem(q) <=> todo[q] # <<>>)'
  BY DEF TypeOK, InItem
<1>2. QED
  BY <1>1 DEF TypeOK, tables, clients

LEMMA PublishType ==
    ASSUME TypeOK, NEW r \in Requests, Publish(r), clients' = clients \/ Commit(r),
           sent' = sent, faults' \in 0 .. MaxFaults
    PROVE  TypeOK'
<1>1. wrote[r] \in Writes /\ result[r] \in [accepted : SUBSET Items,
            duplicate : SUBSET Items, rejected : SUBSET Items]
  BY DEF TypeOK
<1>2. customers' \subseteq {i.customer : i \in Items} /\ events' \subseteq Items
  BY <1>1 DEF Publish, TypeOK, Writes
<1>3. outbox' \in [Items -> Nat]
  BY DEF Publish, TypeOK
<1>4. answered' \subseteq Items /\ acceptances' \in [EventIds -> Nat]
  <2>1. CASE clients' = clients
    BY <2>1 DEF clients, TypeOK
  <2>2. CASE Commit(r)
    <3>1. answered' \subseteq Items
      BY <2>2, <1>1 DEF Commit, TypeOK
    <3>2. acceptances' \in [EventIds -> Nat]
      BY <2>2 DEF Commit, TypeOK
    <3>3. QED
      BY <3>1, <3>2
  <2>3. QED
    BY <2>1, <2>2
<1>5. Close(r)
  BY DEF Publish
<1>6. QED
  BY <1>2, <1>3, <1>4, <1>5, CloseType DEF TypeOK

LEMMA TypeStep == TypeOK /\ [Next]_vars => TypeOK'
<1> SUFFICES ASSUME TypeOK, [Next]_vars PROVE TypeOK'
  OBVIOUS
<1> DEFINE Results == [accepted : SUBSET Items, duplicate : SUBSET Items,
                       rejected : SUBSET Items]
<1>1. ASSUME NEW r \in Requests, IngestEvent(r) PROVE TypeOK'
  <2>1. PICK i \in Items : Start(r, <<i>>, FALSE)
    BY <1>1 DEF IngestEvent
  <2>2. <<i>> \in Seq(Items) /\ <<i>> # <<>>
    OBVIOUS
  <2>3. QED
    BY <2>1, <2>2, StartType
<1>2. ASSUME NEW r \in Requests, IngestBatch(r) PROVE TypeOK'
  <2>1. PICK batch \in Batches : Start(r, batch, TRUE)
    BY <1>2 DEF IngestBatch
  <2>2. batch \in Seq(Items) /\ batch # <<>>
    BY IngestionAssumption
  <2>3. QED
    BY <2>1, <2>2, StartType
<1>3. ASSUME NEW r \in Requests, InsertCustomer(r) PROVE TypeOK'
  <2>1. InItem(r) /\ Item(r) \in Items
    BY <1>3, ItemType DEF InsertCustomer, InItem
  <2>2. wrote' \in [Requests -> Writes]
    BY <1>3, <2>1, MoreWrites DEF InsertCustomer, TypeOK
  <2>3. QED
    BY <1>3, <2>1, <2>2, InsertType DEF InsertCustomer
<1>4. ASSUME NEW r \in Requests, InsertEvent(r) PROVE TypeOK'
  <2>1. InItem(r) /\ Item(r) \in Items
    BY <1>4, ItemType DEF InsertEvent, InItem
  <2>2. wrote' \in [Requests -> Writes]
    BY <1>4, <2>1, MoreWrites DEF InsertEvent, TypeOK
  <2>3. QED
    BY <1>4, <2>1, <2>2, InsertType DEF InsertEvent
<1>5. ASSUME NEW r \in Requests, SkipDuplicate(r) PROVE TypeOK'
  <2>1. InItem(r) /\ Item(r) \in Items
    BY <1>5, ItemType DEF SkipDuplicate, InItem
  <2>2. wrote[r] \in Writes /\ [result[r] EXCEPT !.duplicate = @ \cup {Item(r)}] \in Results
    BY <2>1 DEF TypeOK
  <2>3. QED
    BY <1>5, <2>1, <2>2, MoveOnType DEF SkipDuplicate, Finish, TypeOK
<1>6. ASSUME NEW r \in Requests, InsertOutbox(r) PROVE TypeOK'
  <2>1. InItem(r) /\ Item(r) \in Items
    BY <1>6, ItemType DEF InsertOutbox, InItem
  <2>2. /\ [wrote[r] EXCEPT !.outbox = @ \cup {Item(r)}] \in Writes
        /\ [result[r] EXCEPT !.accepted = @ \cup {Item(r)}] \in Results
    BY <2>1, MoreWrites DEF TypeOK
  <2>3. QED
    BY <1>6, <2>1, <2>2, MoveOnType DEF InsertOutbox, Finish, TypeOK
<1>7. ASSUME NEW r \in Requests, RejectItem(r) PROVE TypeOK'
  <2>1. InItem(r) /\ Item(r) \in Items /\ faults' \in 0 .. MaxFaults
    BY <1>7, ItemType, IngestionAssumption DEF RejectItem, Raises, TypeOK
  <2>2. saved[r] \in Writes /\ [result[r] EXCEPT !.rejected = @ \cup {Item(r)}] \in Results
    BY <2>1 DEF TypeOK
  <2>3. QED
    BY <1>7, <2>1, <2>2, MoveOnType DEF RejectItem, Finish
<1>8. ASSUME NEW r \in Requests, RejectRequest(r) \/ Break(r) PROVE TypeOK'
  <2>1. /\ Close(r)
        /\ UNCHANGED <<tables, clients, sent>>
        /\ faults' \in 0 .. MaxFaults
    BY <1>8, IngestionAssumption DEF RejectRequest, Break, Raises, TypeOK
  <2>2. QED
    BY <2>1, CloseType DEF TypeOK, tables, clients
<1>9. ASSUME NEW r \in Requests, Commit(r) \/ CommitUnconfirmed(r) PROVE TypeOK'
  <2>1. /\ Publish(r) /\ sent' = sent /\ faults' \in 0 .. MaxFaults
        /\ clients' = clients \/ Commit(r)
    BY <1>9, IngestionAssumption DEF Commit, CommitUnconfirmed, TypeOK
  <2>2. QED
    BY <2>1, PublishType
<1>10. CASE UNCHANGED vars
  BY <1>10 DEF vars, tables, clients, TypeOK, InItem
<1>11. QED
  BY <1>1, <1>2, <1>3, <1>4, <1>5, <1>6, <1>7, <1>8, <1>9, <1>10 DEF Next, Run

----------------------------------------------------------------------------
(* What open transactions have inserted                                    *)

Own(r) ==
    /\ saved[r].outbox = saved[r].events
    /\ saved[r].customers \subseteq wrote[r].customers
    /\ wrote[r].outbox = saved[r].outbox
    /\ wrote[r].events = IF at[r] = "outbox" THEN saved[r].events \cup {Item(r)}
                                            ELSE saved[r].events
    /\ \A i, j \in wrote[r].events : i.event = j.event => i = j
    /\ \A i \in saved[r].events : i.customer \in customers \cup saved[r].customers
    /\ at[r] \in {"event", "outbox"} => Item(r).customer \in customers \cup wrote[r].customers
    /\ result[r].accepted = saved[r].events
    /\ \A i \in result[r].duplicate : i.event \in IdsOf(events \cup saved[r].events)

Fresh(r) == \A i \in wrote[r].events, j \in events : i.event # j.event
Apart(r, q) == \A i \in wrote[r].events, j \in wrote[q].events : i.event # j.event

OpenOK == \A r \in Requests :
    /\ Own(r)
    /\ Fresh(r)
    /\ \A q \in Requests \ {r} : Apart(r, q)

AcceptedOK == \A e \in EventIds :
    acceptances[e] <= 1 /\ (acceptances[e] > 0 => e \in IdsOf(events))

Durable == OneOutboxRow /\ AnswersAreDurable /\ AcceptedOK /\ OpenOK

LEMMA DurableInit == Init => Durable
<1> SUFFICES ASSUME Init PROVE Durable
  OBVIOUS
<1>1. OneOutboxRow /\ AnswersAreDurable /\ AcceptedOK
  BY DEF Init, OneOutboxRow, AnswersAreDurable, AcceptedOK
<1>2. OpenOK
  BY DEF Init, OpenOK, Own, Fresh, Apart, Nothing, NoResult
<1>3. QED
  BY <1>1, <1>2 DEF Durable

\* The other requests' own state.
Elsewhere(r) == \A q \in Requests \ {r} :
    /\ at'[q] = at[q]
    /\ todo'[q] = todo[q]
    /\ wrote'[q] = wrote[q]
    /\ saved'[q] = saved[q]
    /\ result'[q] = result[q]

\* A step of one open transaction disturbs no other.
LEMMA LocalStep ==
    ASSUME Durable, NEW r \in Requests, UNCHANGED <<tables, clients>>, Elsewhere(r),
           Own(r)', Fresh(r)', \A q \in Requests \ {r} : Apart(r, q)'
    PROVE  Durable'
<1>1. OneOutboxRow' /\ AnswersAreDurable' /\ AcceptedOK'
  BY DEF Durable, tables, clients, OneOutboxRow, AnswersAreDurable, AcceptedOK
<1>2. ASSUME NEW q \in Requests \ {r}
      PROVE  /\ (Own(q) /\ Fresh(q))'
             /\ \A p \in Requests \ {q} : Apart(q, p)'
  <2>1. Own(q)'
    <3>1. /\ at'[q] = at[q] /\ wrote'[q] = wrote[q] /\ saved'[q] = saved[q]
          /\ result'[q] = result[q] /\ Item(q)' = Item(q)
          /\ events' = events /\ customers' = customers
      BY DEF Elsewhere, Item, tables
    <3>2. Own(q)
      BY DEF Durable, OpenOK
    <3>3. IdsOf(events \cup saved[q].events)' = IdsOf(events \cup saved[q].events)
      BY <3>1 DEF IdsOf
    <3>4. QED
      BY <3>1, <3>2, <3>3 DEF Own
  <2>2. Fresh(q)'
    BY DEF Durable, OpenOK, Fresh, Elsewhere, tables
  <2>3. ASSUME NEW p \in Requests \ {q} PROVE Apart(q, p)'
    <3>1. CASE p = r
      BY <3>1 DEF Apart
    <3>2. CASE p # r
      BY <3>2 DEF Durable, OpenOK, Apart, Elsewhere
    <3>3. QED
      BY <3>1, <3>2
  <2>4. QED
    BY <2>1, <2>2, <2>3
<1>3. QED
  BY <1>1, <1>2 DEF Durable, OpenOK

\* The end of an item whose insertions all have their outbox rows.
LEMMA MoveOnStep ==
    ASSUME TypeOK, Durable, NEW r \in Requests, NEW next \in {"customer", "event"},
           NEW inserted, NEW outcome,
           MoveOn(r, next, inserted, outcome), UNCHANGED <<tables, clients>>,
           at'[r] = "event" => Item(r)'.customer \in customers,
           inserted.outbox = inserted.events,
           \A i, j \in inserted.events : i.event = j.event => i = j,
           \A i \in inserted.events : i.customer \in customers \cup inserted.customers,
           \A i \in inserted.events, j \in events : i.event # j.event,
           \A q \in Requests \ {r} : \A i \in inserted.events, j \in wrote[q].events :
                i.event # j.event,
           outcome.accepted = inserted.events,
           \A i \in outcome.duplicate : i.event \in IdsOf(events \cup inserted.events)
    PROVE  Durable'
<1>1. /\ wrote'[r] = inserted /\ saved'[r] = inserted /\ result'[r] = outcome
      /\ at'[r] \in {"commit", "customer", "event"}
  BY DEF MoveOn, TypeOK
<1>2. Elsewhere(r)
  BY DEF MoveOn, Elsewhere, TypeOK
<1>3. Own(r)'
  BY <1>1 DEF Own, tables
<1>4. Fresh(r)'
  BY <1>1 DEF Fresh, tables
<1>5. \A q \in Requests \ {r} : Apart(r, q)'
  BY <1>1, <1>2 DEF Apart, Elsewhere
<1>6. QED
  BY <1>2, <1>3, <1>4, <1>5, LocalStep

LEMMA FinishStep ==
    ASSUME TypeOK, Durable, NEW r \in Requests, NEW inserted, NEW outcome,
           Finish(r, inserted, outcome), UNCHANGED <<tables, clients>>,
           inserted.events \subseteq wrote[r].events,
           inserted.outbox = inserted.events,
           \A i \in inserted.events : i.customer \in customers \cup inserted.customers,
           outcome.accepted = inserted.events,
           \A i \in outcome.duplicate : i.event \in IdsOf(events \cup inserted.events)
    PROVE  Durable'
<1>1. Own(r) /\ Fresh(r) /\ \A q \in Requests \ {r} : Apart(r, q)
  BY DEF Durable, OpenOK
<1>2. MoveOn(r, "customer", inserted, outcome) /\ at'[r] # "event"
  BY DEF Finish, MoveOn, TypeOK
<1>3. \A i, j \in inserted.events : i.event = j.event => i = j
  BY <1>1 DEF Own
<1>4. \A i \in inserted.events, j \in events : i.event # j.event
  BY <1>1 DEF Fresh
<1>5. \A q \in Requests \ {r} : \A i \in inserted.events, j \in wrote[q].events :
            i.event # j.event
  BY <1>1 DEF Apart
<1>6. QED
  BY <1>2, <1>3, <1>4, <1>5, MoveOnStep

\* A rollback leaves nothing to speak of.
LEMMA RolledBack ==
    ASSUME TypeOK, NEW r \in Requests, Close(r)
    PROVE  /\ Elsewhere(r)
           /\ Own(r)'
           /\ wrote'[r].events = {}
<1>1. Elsewhere(r)
  BY DEF Close, Elsewhere, TypeOK
<1>2. wrote'[r] = Nothing /\ saved'[r] = Nothing /\ result'[r] = NoResult /\ at'[r] = "idle"
  BY DEF Close, TypeOK
<1>3. QED
  BY <1>1, <1>2 DEF Own, Nothing, NoResult

----------------------------------------------------------------------------
(* The steps                                                               *)

LEMMA StartStep ==
    ASSUME TypeOK, Durable, NEW r \in Requests, NEW batch, NEW withSavepoints,
           Start(r, batch, withSavepoints)
    PROVE  Durable'
<1>1. /\ at[r] = "idle" /\ at'[r] = "customer" /\ wrote' = wrote /\ saved' = saved
      /\ result' = result /\ UNCHANGED <<tables, clients>>
  BY DEF Start, TypeOK
<1>2. Elsewhere(r)
  BY DEF Start, Elsewhere, TypeOK
<1>3. Own(r)'
  <2>1. IdsOf(events \cup saved[r].events)' = IdsOf(events \cup saved[r].events)
    BY <1>1 DEF IdsOf, tables
  <2>2. QED
    BY <1>1, <2>1 DEF Own, Durable, OpenOK, tables
<1>4. Fresh(r)' /\ \A q \in Requests \ {r} : Apart(r, q)'
  BY <1>1 DEF Fresh, Apart, Durable, OpenOK, tables
<1>5. QED
  BY <1>1, <1>2, <1>3, <1>4, LocalStep

LEMMA InsertCustomerStep ==
    ASSUME TypeOK, Durable, NEW r \in Requests, InsertCustomer(r)
    PROVE  Durable'
<1>1. /\ at[r] = "customer" /\ at'[r] = "event" /\ Item(r)' = Item(r)
      /\ wrote'[r].events = wrote[r].events /\ wrote'[r].outbox = wrote[r].outbox
      /\ wrote[r].customers \subseteq wrote'[r].customers
      /\ Item(r).customer \in customers \cup wrote'[r].customers
      /\ saved' = saved /\ result' = result /\ UNCHANGED <<tables, clients>>
  BY DEF InsertCustomer, TypeOK, Item, Writes
<1>2. Elsewhere(r)
  BY DEF InsertCustomer, Elsewhere, TypeOK
<1>3. Own(r)'
  <2>1. IdsOf(events \cup saved[r].events)' = IdsOf(events \cup saved[r].events)
    BY <1>1 DEF IdsOf, tables
  <2>2. QED
    BY <1>1, <2>1 DEF Own, Durable, OpenOK, tables
<1>4. Fresh(r)' /\ \A q \in Requests \ {r} : Apart(r, q)'
  BY <1>1, <1>2 DEF Fresh, Apart, Durable, OpenOK, tables, Elsewhere
<1>5. QED
  BY <1>1, <1>2, <1>3, <1>4, LocalStep

\* Whoever inserts an event waited for everyone who had inserted its id.
LEMMA InsertEventStep ==
    ASSUME TypeOK, Durable, NEW r \in Requests, InsertEvent(r)
    PROVE  Durable'
<1>1. /\ at[r] = "event" /\ at'[r] = "outbox" /\ Item(r)' = Item(r)
      /\ wrote'[r].events = wrote[r].events \cup {Item(r)}
      /\ wrote'[r].outbox = wrote[r].outbox /\ wrote'[r].customers = wrote[r].customers
      /\ saved' = saved /\ result' = result /\ UNCHANGED <<tables, clients>>
  BY DEF InsertEvent, TypeOK, Item, Writes
<1>2. Elsewhere(r)
  BY DEF InsertEvent, Elsewhere, TypeOK
<1>3. \A j \in events \cup wrote[r].events : j.event # Item(r).event
  BY DEF InsertEvent, IsNew, IdsOf
<1>4. \A q \in Requests \ {r} : \A j \in wrote[q].events : j.event # Item(r).event
  BY <1>1 DEF InsertEvent, Waits, WaitsFor, IdsOf
<1>5. Own(r)'
  <2>1. IdsOf(events \cup saved[r].events)' = IdsOf(events \cup saved[r].events)
    BY <1>1 DEF IdsOf, tables
  <2>2. QED
    BY <1>1, <1>3, <2>1 DEF Own, Durable, OpenOK, tables
<1>6. Fresh(r)'
  BY <1>1, <1>3 DEF Fresh, Durable, OpenOK, tables
<1>7. \A q \in Requests \ {r} : Apart(r, q)'
  BY <1>1, <1>2, <1>4 DEF Apart, Durable, OpenOK, Elsewhere
<1>8. QED
  BY <1>1, <1>2, <1>5, <1>6, <1>7, LocalStep

LEMMA SkipDuplicateStep ==
    ASSUME TypeOK, Durable, NEW r \in Requests, SkipDuplicate(r)
    PROVE  Durable'
<1> DEFINE outcome == [result[r] EXCEPT !.duplicate = @ \cup {Item(r)}]
<1>1. /\ at[r] = "event" /\ Finish(r, wrote[r], outcome) /\ UNCHANGED <<tables, clients>>
      /\ Item(r).event \in IdsOf(events \cup wrote[r].events)
  BY DEF SkipDuplicate, IsNew
<1>2. Own(r)
  BY DEF Durable, OpenOK
<1>3. wrote[r].events = saved[r].events /\ wrote[r].outbox = wrote[r].events
  BY <1>1, <1>2 DEF Own
<1>4. /\ outcome.accepted = result[r].accepted
      /\ outcome.duplicate = result[r].duplicate \cup {Item(r)}
  BY DEF TypeOK
<1>5. \A i \in wrote[r].events : i.customer \in customers \cup wrote[r].customers
  BY <1>2, <1>3 DEF Own
<1>6. \A i \in outcome.duplicate : i.event \in IdsOf(events \cup wrote[r].events)
  BY <1>1, <1>2, <1>3, <1>4 DEF Own
<1>7. outcome.accepted = wrote[r].events
  BY <1>2, <1>3, <1>4 DEF Own
<1> HIDE DEF outcome
<1>8. QED
  BY <1>1, <1>3, <1>5, <1>6, <1>7, FinishStep

LEMMA InsertOutboxStep ==
    ASSUME TypeOK, Durable, NEW r \in Requests, InsertOutbox(r)
    PROVE  Durable'
<1> DEFINE outcome == [result[r] EXCEPT !.accepted = @ \cup {Item(r)}]
           inserted == [wrote[r] EXCEPT !.outbox = @ \cup {Item(r)}]
<1>1. at[r] = "outbox" /\ Finish(r, inserted, outcome) /\ UNCHANGED <<tables, clients>>
  BY DEF InsertOutbox
<1>2. Own(r)
  BY DEF Durable, OpenOK
<1>3. /\ outcome.accepted = result[r].accepted \cup {Item(r)}
      /\ outcome.duplicate = result[r].duplicate
      /\ inserted.events = wrote[r].events /\ inserted.customers = wrote[r].customers
      /\ inserted.outbox = wrote[r].outbox \cup {Item(r)}
  BY DEF TypeOK, Writes
<1>4. wrote[r].events = saved[r].events \cup {Item(r)}
  BY <1>1, <1>2 DEF Own
<1>5. inserted.outbox = inserted.events /\ outcome.accepted = inserted.events
  BY <1>2, <1>3, <1>4 DEF Own
<1>6. \A i \in inserted.events : i.customer \in customers \cup inserted.customers
  BY <1>1, <1>2, <1>3, <1>4 DEF Own
<1>7. \A i \in outcome.duplicate : i.event \in IdsOf(events \cup inserted.events)
  BY <1>2, <1>3, <1>4 DEF Own, IdsOf
<1> HIDE DEF outcome, inserted
<1>8. QED
  BY <1>1, <1>3, <1>5, <1>6, <1>7, FinishStep

\* The savepoint holds whole items only.
LEMMA RejectItemStep ==
    ASSUME TypeOK, Durable, NEW r \in Requests, RejectItem(r)
    PROVE  Durable'
<1> DEFINE outcome == [result[r] EXCEPT !.rejected = @ \cup {Item(r)}]
<1>1. Finish(r, saved[r], outcome) /\ UNCHANGED <<tables, clients>>
  BY DEF RejectItem
<1>2. Own(r)
  BY DEF Durable, OpenOK
<1>3. outcome.accepted = result[r].accepted /\ outcome.duplicate = result[r].duplicate
  BY DEF TypeOK
<1>4. saved[r].events \subseteq wrote[r].events
  BY <1>2 DEF Own
<1> HIDE DEF outcome
<1>5. QED
  BY <1>1, <1>2, <1>3, <1>4, FinishStep DEF Own

LEMMA RollbackStep ==
    ASSUME TypeOK, Durable, NEW r \in Requests, Close(r), UNCHANGED <<tables, clients>>
    PROVE  Durable'
<1>1. Elsewhere(r) /\ Own(r)' /\ wrote'[r].events = {}
  BY RolledBack
<1>2. Fresh(r)' /\ \A q \in Requests \ {r} : Apart(r, q)'
  BY <1>1 DEF Fresh, Apart
<1>3. QED
  BY <1>1, <1>2, LocalStep

\* A commit: every event of the transaction is new, and has its outbox row.
LEMMA PublishStep ==
    ASSUME TypeOK, Durable, NEW r \in Requests, Publish(r), clients' = clients \/ Commit(r)
    PROVE  Durable'
<1>1. /\ at[r] = "commit" /\ customers' = customers \cup wrote[r].customers
      /\ events' = events \cup wrote[r].events
      /\ \A i \in Items : outbox'[i] = IF i \in wrote[r].outbox THEN outbox[i] + 1 ELSE outbox[i]
  BY DEF Publish
<1>2. Own(r) /\ Fresh(r)
  BY DEF Durable, OpenOK
<1>3. /\ wrote[r].events = saved[r].events /\ wrote[r].outbox = wrote[r].events
      /\ result[r].accepted = wrote[r].events
  BY <1>1, <1>2 DEF Own
<1>4. Elsewhere(r) /\ Own(r)' /\ wrote'[r].events = {}
  BY RolledBack DEF Publish
<1>5. OneOutboxRow'
  <2>1. \A i \in Items : outbox'[i] = IF i \in events' THEN 1 ELSE 0
    BY <1>1, <1>2, <1>3 DEF Durable, OneOutboxRow, Fresh
  <2>2. \A i, j \in events' : i.event = j.event => i = j
    BY <1>1, <1>2 DEF Durable, OneOutboxRow, Fresh, Own
  <2>3. \A i \in events' : i.customer \in customers'
    BY <1>1, <1>2, <1>3 DEF Durable, OneOutboxRow, Own
  <2>4. QED
    BY <2>1, <2>2, <2>3 DEF OneOutboxRow
<1>6. IdsOf(events) \subseteq IdsOf(events') /\ IdsOf(events') = IdsOf(events \cup saved[r].events)
  BY <1>1, <1>3 DEF IdsOf
<1>7. AnswersAreDurable'
  <2>1. CASE answered' = answered
    BY <2>1, <1>6 DEF Durable, AnswersAreDurable
  <2>2. CASE answered' = answered \cup result[r].accepted \cup result[r].duplicate
    <3>1. \A i \in result[r].accepted : i.event \in IdsOf(events')
      BY <1>1, <1>3 DEF IdsOf
    <3>2. \A i \in result[r].duplicate : i.event \in IdsOf(events')
      BY <1>2, <1>6 DEF Own
    <3>3. QED
      BY <2>2, <3>1, <3>2, <1>6 DEF Durable, AnswersAreDurable
  <2>3. QED
    BY <2>1, <2>2 DEF Commit, clients
<1>8. AcceptedOK'
  <2>1. CASE clients' = clients
    BY <2>1, <1>6 DEF Durable, AcceptedOK, clients
  <2>2. CASE Commit(r)
    <3> SUFFICES ASSUME NEW e \in EventIds
                 PROVE  acceptances'[e] <= 1 /\ (acceptances'[e] > 0 => e \in IdsOf(events'))
      BY DEF AcceptedOK
    <3>1. acceptances[e] \in Nat /\ acceptances[e] <= 1
          /\ (acceptances[e] > 0 => e \in IdsOf(events))
      BY DEF TypeOK, Durable, AcceptedOK
    <3>2. CASE e \in IdsOf(result[r].accepted)
      <4>1. e \notin IdsOf(events) /\ e \in IdsOf(events')
        BY <3>2, <1>1, <1>2, <1>3 DEF Fresh, IdsOf
      <4>2. acceptances'[e] = acceptances[e] + 1
        BY <2>2, <3>2 DEF Commit
      <4>3. QED
        BY <3>1, <4>1, <4>2
    <3>3. CASE e \notin IdsOf(result[r].accepted)
      <4>1. acceptances'[e] = acceptances[e]
        BY <2>2, <3>3 DEF Commit
      <4>2. QED
        BY <3>1, <4>1, <1>6
    <3>4. QED
      BY <3>2, <3>3
  <2>3. QED
    BY <2>1, <2>2
<1>9. OpenOK'
  <2>1. ASSUME NEW q \in Requests \ {r} PROVE (Own(q) /\ Fresh(q))'
    <3>1. /\ at'[q] = at[q] /\ wrote'[q] = wrote[q] /\ saved'[q] = saved[q]
          /\ result'[q] = result[q] /\ Item(q)' = Item(q)
      BY <1>4 DEF Elsewhere, Item
    <3>2. Own(q) /\ Fresh(q) /\ Apart(q, r)
      BY DEF Durable, OpenOK
    <3>3. IdsOf(events \cup saved[q].events) \subseteq IdsOf(events \cup saved[q].events)'
      BY <1>1, <3>1 DEF IdsOf
    <3>4. Own(q)'
      BY <1>1, <3>1, <3>2, <3>3 DEF Own
    <3>5. Fresh(q)'
      BY <1>1, <3>1, <3>2 DEF Fresh, Apart
    <3>6. QED
      BY <3>4, <3>5
  <2>2. \A p, q \in Requests : p # q => Apart(p, q)'
    BY <1>4 DEF Apart, Elsewhere, Durable, OpenOK
  <2>3. Fresh(r)'
    BY <1>4 DEF Fresh
  <2>4. QED
    BY <1>4, <2>1, <2>2, <2>3 DEF OpenOK
<1>10. QED
  BY <1>5, <1>7, <1>8, <1>9 DEF Durable

LEMMA DurableStep == TypeOK /\ Durable /\ [Next]_vars => Durable'
<1> SUFFICES ASSUME TypeOK, Durable, [Next]_vars PROVE Durable'
  OBVIOUS
<1>1. ASSUME NEW r \in Requests, IngestEvent(r) \/ IngestBatch(r) PROVE Durable'
  BY <1>1, StartStep DEF IngestEvent, IngestBatch
<1>2. ASSUME NEW r \in Requests, Run(r) PROVE Durable'
  <2>1. CASE InsertCustomer(r)
    BY <2>1, InsertCustomerStep
  <2>2. CASE InsertEvent(r)
    BY <2>2, InsertEventStep
  <2>3. CASE SkipDuplicate(r)
    BY <2>3, SkipDuplicateStep
  <2>4. CASE InsertOutbox(r)
    BY <2>4, InsertOutboxStep
  <2>5. CASE RejectItem(r)
    BY <2>5, RejectItemStep
  <2>6. CASE RejectRequest(r)
    BY <2>6, RollbackStep DEF RejectRequest
  <2>7. CASE Commit(r)
    BY <2>7, PublishStep DEF Commit
  <2>8. QED
    BY <1>2, <2>1, <2>2, <2>3, <2>4, <2>5, <2>6, <2>7 DEF Run
<1>3. ASSUME NEW r \in Requests, Break(r) PROVE Durable'
  BY <1>3, RollbackStep DEF Break
<1>4. ASSUME NEW r \in Requests, CommitUnconfirmed(r) PROVE Durable'
  BY <1>4, PublishStep DEF CommitUnconfirmed
<1>5. CASE UNCHANGED vars
  <2>1. OneOutboxRow' /\ AnswersAreDurable' /\ AcceptedOK'
    BY <1>5 DEF vars, tables, clients, Durable, OneOutboxRow, AnswersAreDurable, AcceptedOK
  <2>2. OpenOK'
    <3>1. \A r \in Requests : Item(r)' = Item(r)
      BY <1>5 DEF vars, Item
    <3>2. \A r \in Requests :
            IdsOf(events \cup saved[r].events)' = IdsOf(events \cup saved[r].events)
      BY <1>5 DEF vars, tables, IdsOf
    <3>3. \A r \in Requests : Own(r)'
      BY <1>5, <3>1, <3>2 DEF vars, tables, Durable, OpenOK, Own
    <3>4. QED
      BY <1>5, <3>3 DEF vars, tables, Durable, OpenOK, Fresh, Apart
  <2>3. QED
    BY <2>1, <2>2 DEF Durable
<1>6. QED
  BY <1>1, <1>2, <1>3, <1>4, <1>5 DEF Next

----------------------------------------------------------------------------
(* Seeds                                                                   *)

Rows == {SeedRows[i] : i \in DOMAIN SeedRows}
ToDo(r) == {todo[r][i] : i \in DOMAIN todo[r]}

\* The customers of a seed's events are there before its events are.
RowsReady(r) ==
    /\ phase[r] = "customers" =>
          /\ at[r] \in {"customer", "commit"}
          /\ ToDo(r) \subseteq Rows
          /\ \A row \in Rows \ ToDo(r) : row.customer \in customers \cup wrote[r].customers
    /\ phase[r] \in {"campaigns", "reading"} => at[r] = "idle"
    /\ phase[r] \in {"campaigns", "events"} => \A row \in Rows : row.customer \in customers
    /\ phase[r] = "events" => at[r] \in {"event", "commit"} /\ ToDo(r) \subseteq Rows

\* The seed that has upserted campaigns is the only one.
Refreshing(r) ==
    /\ locked[r] # 0 => /\ phase[r] = "campaigns"
                       /\ \A q \in Requests \ {r} : locked[q] = 0
    /\ locked[r] = Len(removed[r]) \/ locked[r] = Len(removed[r]) + 1
    /\ \A c \in DOMAIN removed[r] : removed[r][c] = metrics[c]

Viewing(r) == view[r] # NoView =>
    /\ view[r].campaign \in Campaigns
    /\ view[r].row \in 1 .. campaigns[view[r].campaign]

SeedingInv ==
    /\ \A r \in Requests : RowsReady(r) /\ Refreshing(r) /\ Viewing(r)
    /\ \A r \in Requests : phase[r] = "reading" => view[r] # NoView
    /\ MetricsOfOneSeed

IInv == SeedingTypeOK /\ Durable /\ SeedingInv

\* What Head and Tail leave of what is to do.
LEMMA ToDoSplits ==
    ASSUME TypeOK, NEW r \in Requests, InItem(r)
    PROVE  /\ Item(r) \in ToDo(r)
           /\ \A i \in DOMAIN Tail(todo[r]) : Tail(todo[r])[i] \in ToDo(r)
           /\ \A x \in ToDo(r) : x = Item(r) \/ \E i \in DOMAIN Tail(todo[r]) :
                                                    x = Tail(todo[r])[i]
<1>1. todo[r] \in Seq(Items) /\ todo[r] # <<>>
  BY DEF TypeOK
<1>2. /\ Len(Tail(todo[r])) = Len(todo[r]) - 1 /\ Tail(todo[r]) \in Seq(Items)
      /\ \A i \in 1 .. Len(todo[r]) - 1 : Tail(todo[r])[i] = todo[r][i + 1]
      /\ Head(todo[r]) = todo[r][1]
  BY <1>1, HeadTailProperties
<1>3. /\ DOMAIN todo[r] = 1 .. Len(todo[r]) /\ DOMAIN Tail(todo[r]) = 1 .. Len(todo[r]) - 1
      /\ Len(todo[r]) \in Nat /\ Len(todo[r]) # 0
  BY <1>1, <1>2, LenProperties, EmptySeq
<1>4. Item(r) \in ToDo(r)
  BY <1>2, <1>3 DEF Item, ToDo
<1>5. \A i \in DOMAIN Tail(todo[r]) : Tail(todo[r])[i] \in ToDo(r)
  <2> SUFFICES ASSUME NEW i \in 1 .. Len(todo[r]) - 1 PROVE todo[r][i + 1] \in ToDo(r)
    BY <1>2, <1>3
  <2>1. i + 1 \in DOMAIN todo[r]
    BY <1>3
  <2>2. QED
    BY <2>1 DEF ToDo
<1>6. ASSUME NEW x \in ToDo(r), x # Item(r)
      PROVE  \E i \in DOMAIN Tail(todo[r]) : x = Tail(todo[r])[i]
  <2>1. PICK j \in DOMAIN todo[r] : x = todo[r][j]
    BY DEF ToDo
  <2>2. j # 1
    BY <2>1, <1>2, <1>6 DEF Item
  <2>3. j - 1 \in 1 .. Len(todo[r]) - 1 /\ (j - 1) + 1 = j
    BY <2>2, <1>3
  <2>4. QED
    BY <2>1, <2>3, <1>2, <1>3
<1>7. QED
  BY <1>4, <1>5, <1>6

LEMMA RowsAreItems ==
    /\ SeedRows \in Seq(Items) /\ SeedRows # <<>>
    /\ Rows \subseteq Items
    /\ NCampaigns \in Nat /\ NCampaigns # 0
<1>1. SeedRows \in Seq(Items \ Unstorable) /\ SeedRows # <<>>
  BY SeedingAssumption
<1>2. \A i \in DOMAIN SeedRows : SeedRows[i] \in Items
  <2> DEFINE Storable == Items \ Unstorable
  <2>1. SeedRows \in Seq(Storable)
    BY <1>1
  <2>2. \A i \in DOMAIN SeedRows : SeedRows[i] \in Storable
    <3> HIDE DEF Storable
    <3> QED  BY <2>1
  <2>3. QED
    BY <2>2
<1>3. SeedRows \in Seq(Items)
  BY <1>1, <1>2
<1>4. QED
  BY <1>1, <1>2, <1>3, SeedingAssumption DEF Rows

LEMMA SeedingInitInv == SeedingInit => IInv
<1> SUFFICES ASSUME SeedingInit PROVE IInv
  OBVIOUS
<1>1. TypeOK /\ Durable
  BY TypeInit, DurableInit DEF SeedingInit
<1>2. SeedingTypeOK
  <2>1. <<>> \in Seq(SUBSET Nat)
    BY EmptySeq
  <2>2. NoView \in [campaign : 0 .. NCampaigns, row : Nat]
    BY RowsAreItems DEF NoView
  <2>3. QED
    BY <1>1, <2>1, <2>2, RowsAreItems DEF SeedingInit, SeedingTypeOK, NoReport
<1>3. SeedingInv
  <2>1. \A r \in Requests : RowsReady(r) /\ Viewing(r) /\ phase[r] # "reading"
    BY DEF SeedingInit, RowsReady, Viewing
  <2>2. \A r \in Requests : Refreshing(r)
    BY DEF SeedingInit, Refreshing
  <2>3. MetricsOfOneSeed
    BY DEF SeedingInit, MetricsOfOneSeed
  <2>4. QED
    BY <2>1, <2>2, <2>3 DEF SeedingInv
<1>4. QED
  BY <1>1, <1>2, <1>3 DEF IInv

\* Requests without a phase, and steps that leave the campaigns alone.
LEMMA IngestionStep ==
    ASSUME IInv, NEW r \in Requests, phase[r] = "none", [Next]_vars,
           UNCHANGED seeding, Elsewhere(r)
    PROVE  IInv'
<1>1. TypeOK' /\ Durable'
  BY TypeStep, DurableStep DEF IInv, SeedingTypeOK
<1>2. SeedingTypeOK'
  BY <1>1 DEF IInv, SeedingTypeOK, seeding, marketing, progress
<1>3. customers \subseteq customers'
  BY DEF Next, Run, IngestEvent, IngestBatch, Start, InsertCustomer, InsertEvent, SkipDuplicate,
     InsertOutbox, RejectItem, RejectRequest, Commit, CommitUnconfirmed, Publish, Break,
     tables, vars
<1>4. ASSUME NEW q \in Requests PROVE RowsReady(q)'
  <2>1. CASE q = r
    BY <2>1 DEF RowsReady, seeding, progress
  <2>2. CASE q # r
    BY <2>2, <1>3 DEF IInv, SeedingInv, RowsReady, ToDo, Elsewhere, seeding, progress
  <2>3. QED
    BY <2>1, <2>2
<1>5. \A q \in Requests : Refreshing(q)' /\ Viewing(q)' /\ (phase[q] = "reading" => view[q] # NoView)'
  BY DEF IInv, SeedingInv, Refreshing, Viewing, seeding, marketing, progress
<1>6. MetricsOfOneSeed'
  BY DEF IInv, SeedingInv, MetricsOfOneSeed, seeding, marketing
<1>7. QED
  BY <1>1, <1>2, <1>4, <1>5, <1>6 DEF IInv, SeedingInv

LEMMA OtherSlots ==
    ASSUME TypeOK, NEW r \in Requests,
           IngestEvent(r) \/ IngestBatch(r) \/ Run(r) \/ Break(r) \/ CommitUnconfirmed(r)
    PROVE  Elsewhere(r)
<1>1. CASE IngestEvent(r) \/ IngestBatch(r)
  BY <1>1 DEF IngestEvent, IngestBatch, Start, Elsewhere, TypeOK
<1>2. CASE InsertCustomer(r) \/ InsertEvent(r)
  BY <1>2 DEF InsertCustomer, InsertEvent, Elsewhere, TypeOK
<1>3. CASE SkipDuplicate(r) \/ InsertOutbox(r) \/ RejectItem(r)
  BY <1>3 DEF SkipDuplicate, InsertOutbox, RejectItem, Finish, MoveOn, Elsewhere, TypeOK
<1>4. CASE Close(r)
  BY <1>4 DEF Close, Elsewhere, TypeOK
<1>5. QED
  BY <1>1, <1>2, <1>3, <1>4 DEF Run, RejectRequest, Commit, CommitUnconfirmed, Break, Publish

\* What one seed or read does leaves the others' claims alone.
Others(r) == \A q \in Requests \ {r} :
    /\ phase'[q] = phase[q]
    /\ locked'[q] = locked[q]
    /\ removed'[q] = removed[q]
    /\ view'[q] = view[q]

LEMMA SeedLocalStep ==
    ASSUME IInv, NEW r \in Requests, SeedingTypeOK', Durable', Elsewhere(r), Others(r),
           customers \subseteq customers', UNCHANGED marketing,
           RowsReady(r)', Refreshing(r)', Viewing(r)', MetricsOfOneSeed',
           phase'[r] = "reading" => view'[r] # NoView
    PROVE  IInv'
<1>1. ASSUME NEW q \in Requests \ {r}
      PROVE  RowsReady(q)' /\ Viewing(q)' /\ (phase[q] = "reading" => view[q] # NoView)'
  <2>1. /\ phase'[q] = phase[q] /\ at'[q] = at[q] /\ todo'[q] = todo[q] /\ wrote'[q] = wrote[q]
        /\ view'[q] = view[q]
    BY DEF Elsewhere, Others
  <2>2. RowsReady(q)'
    BY <2>1 DEF IInv, SeedingInv, RowsReady, ToDo
  <2>3. QED
    BY <2>1, <2>2 DEF IInv, SeedingInv, Viewing, marketing
<1>2. ASSUME NEW q \in Requests \ {r} PROVE Refreshing(q)'
  <2>1. Refreshing(q) /\ phase'[q] = phase[q] /\ locked'[q] = locked[q] /\ removed'[q] = removed[q]
    BY DEF Others, IInv, SeedingInv
  <2>2. locked'[q] # 0 => locked'[r] = 0
    BY <2>1 DEF Refreshing
  <2>3. QED
    BY <2>1, <2>2 DEF Refreshing, Others, marketing
<1>3. QED
  BY <1>1, <1>2 DEF IInv, SeedingInv

LEMMA SeedStep ==
    ASSUME IInv, NEW r \in Requests, Seed(r)
    PROVE  IInv'
<1>1. /\ TypeOK /\ Durable /\ SeedingTypeOK
      /\ phase[r] = "none" /\ Start(r, SeedRows, FALSE)
      /\ phase' = [phase EXCEPT ![r] = "customers"]
      /\ UNCHANGED <<marketing, locked, removed, view, report>>
  BY DEF IInv, SeedingTypeOK, Seed
<1>2. TypeOK' /\ Durable'
  BY <1>1, RowsAreItems, StartType, StartStep
<1>3. SeedingTypeOK' /\ MetricsOfOneSeed'
  BY <1>1, <1>2 DEF IInv, SeedingInv, SeedingTypeOK, MetricsOfOneSeed, marketing
<1>4. Elsewhere(r) /\ Others(r) /\ customers' = customers
  BY <1>1 DEF Start, tables, Elsewhere, Others, SeedingTypeOK, TypeOK
<1>5. RowsReady(r)'
  <2>1. phase'[r] = "customers" /\ at'[r] = "customer" /\ todo'[r] = SeedRows
    BY <1>1 DEF Start, TypeOK, SeedingTypeOK
  <2>2. ToDo(r)' = Rows
    BY <2>1 DEF ToDo, Rows
  <2>3. QED
    BY <2>1, <2>2 DEF RowsReady
<1>6. Refreshing(r)' /\ Viewing(r)'
  <2>1. locked[r] = 0
    BY <1>1 DEF IInv, SeedingInv, Refreshing
  <2>2. QED
    BY <1>1, <2>1 DEF IInv, SeedingInv, Refreshing, Viewing, marketing
<1>7. QED
  BY <1>1, <1>3, <1>2, <1>4, <1>5, <1>6, SeedLocalStep DEF SeedingTypeOK

LEMMA SeedCustomerStep ==
    ASSUME IInv, NEW r \in Requests, SeedCustomer(r)
    PROVE  IInv'
<1> DEFINE inserted == IF Item(r).customer \in customers
                       THEN wrote[r]
                       ELSE [wrote[r] EXCEPT !.customers = @ \cup {Item(r).customer}]
<1>1. /\ TypeOK /\ Durable /\ SeedingTypeOK
      /\ phase[r] = "customers" /\ at[r] = "customer" /\ InItem(r)
      /\ Finish(r, inserted, result[r])
      /\ UNCHANGED <<tables, savepoints, clients, sent, faults, seeding>>
  BY DEF IInv, SeedingTypeOK, SeedCustomer, InItem
<1>2. Item(r) \in Items /\ wrote[r] \in Writes
  BY <1>1, ItemType DEF TypeOK
<1>3. /\ inserted \in Writes
      /\ inserted.events = wrote[r].events /\ inserted.outbox = wrote[r].outbox
      /\ wrote[r].customers \subseteq inserted.customers
      /\ Item(r).customer \in customers \cup inserted.customers
  BY <1>2, MoreWrites DEF Writes
<1> HIDE DEF inserted
<1>4. TypeOK'
  BY <1>1, <1>3, MoveOnType DEF Finish, TypeOK
<1>5. Durable'
  <2>1. Own(r)
    BY <1>1 DEF Durable, OpenOK
  <2>2. wrote[r].events = saved[r].events /\ wrote[r].outbox = wrote[r].events
    BY <1>1, <2>1 DEF Own
  <2>3. \A i \in inserted.events : i.customer \in customers \cup inserted.customers
    BY <1>3, <2>1, <2>2 DEF Own
  <2>4. result[r].accepted = inserted.events
    BY <1>3, <2>1, <2>2 DEF Own
  <2>5. \A i \in result[r].duplicate : i.event \in IdsOf(events \cup inserted.events)
    BY <1>3, <2>1, <2>2 DEF Own
  <2>6. QED
    BY <1>1, <1>3, <2>2, <2>3, <2>4, <2>5, FinishStep
<1>6. Elsewhere(r) /\ Others(r) /\ customers' = customers
  BY <1>1 DEF Finish, MoveOn, tables, Elsewhere, Others, seeding, progress, TypeOK
<1>7. RowsReady(r)'
  <2>1. /\ phase'[r] = "customers" /\ at'[r] \in {"customer", "commit"}
        /\ todo'[r] = Tail(todo[r]) /\ wrote'[r] = inserted
    BY <1>1 DEF Finish, MoveOn, seeding, progress, TypeOK
  <2>2. /\ ToDo(r)' \subseteq ToDo(r)
        /\ \A x \in ToDo(r) : x = Item(r) \/ x \in ToDo(r)'
    BY <1>1, <2>1, ToDoSplits DEF ToDo
  <2>3. RowsReady(r)
    BY DEF IInv, SeedingInv
  <2>4. \A row \in Rows \ ToDo(r)' : row.customer \in customers \cup inserted.customers
    BY <1>1, <1>3, <2>2, <2>3 DEF RowsReady
  <2>5. Rows' = Rows
    BY DEF Rows
  <2>6. QED
    BY <1>1, <1>6, <2>1, <2>2, <2>3, <2>4, <2>5 DEF RowsReady
<1>8. Refreshing(r)' /\ Viewing(r)' /\ MetricsOfOneSeed' /\ SeedingTypeOK'
  BY <1>1, <1>4 DEF IInv, SeedingInv, Refreshing, Viewing, MetricsOfOneSeed, SeedingTypeOK,
     seeding, marketing, progress
<1>9. QED
  BY <1>1, <1>5, <1>6, <1>7, <1>8, SeedLocalStep DEF seeding, progress

LEMMA CommitCustomersStep ==
    ASSUME IInv, NEW r \in Requests, CommitCustomers(r)
    PROVE  IInv'
<1>1. /\ TypeOK /\ Durable /\ SeedingTypeOK
      /\ phase[r] = "customers" /\ Publish(r) /\ Close(r) /\ at[r] = "commit"
      /\ phase' = [phase EXCEPT ![r] = "campaigns"]
      /\ UNCHANGED <<clients, sent, faults, marketing, locked, removed, view, report>>
  BY DEF IInv, SeedingTypeOK, CommitCustomers, Publish
<1>2. TypeOK'
  <2>1. faults' \in 0 .. MaxFaults
    BY <1>1 DEF TypeOK
  <2>2. QED
    BY <1>1, <2>1, PublishType
<1>3. Durable'
  BY <1>1, PublishStep
<1>4. Elsewhere(r) /\ Others(r) /\ customers' = customers \cup wrote[r].customers
  BY <1>1, RolledBack DEF Publish, Others, SeedingTypeOK
<1>5. RowsReady(r)'
  <2>1. phase'[r] = "campaigns" /\ at'[r] = "idle"
    BY <1>1 DEF Close, SeedingTypeOK, TypeOK
  <2>2. ToDo(r) = {}
    <3>1. todo[r] = <<>>
      BY <1>1 DEF TypeOK, InItem
    <3>2. QED
      BY <3>1 DEF ToDo
  <2>3. \A row \in Rows : row.customer \in customers \cup wrote[r].customers
    BY <1>1, <2>2 DEF IInv, SeedingInv, RowsReady
  <2>4. Rows' = Rows
    BY DEF Rows
  <2>5. QED
    BY <1>4, <2>1, <2>3, <2>4 DEF RowsReady
<1>6. Refreshing(r)'
  <2>1. locked[r] = 0
    BY <1>1 DEF IInv, SeedingInv, Refreshing
  <2>2. QED
    BY <1>1, <2>1 DEF IInv, SeedingInv, Refreshing, marketing
<1>7. Viewing(r)' /\ MetricsOfOneSeed' /\ SeedingTypeOK' /\ phase'[r] # "reading"
  BY <1>1, <1>2 DEF IInv, SeedingInv, Viewing, MetricsOfOneSeed, SeedingTypeOK, marketing
<1>8. QED
  BY <1>1, <1>3, <1>4, <1>5, <1>6, <1>7, SeedLocalStep

\* Steps of the second transaction, and reads, touch nothing of Ingestion.
LEMMA NoIngestion ==
    ASSUME IInv, UNCHANGED vars
    PROVE  /\ TypeOK' /\ Durable' /\ customers' = customers
           /\ \A r \in Requests : Elsewhere(r) /\ (RowsReady(r) /\ phase'[r] = phase[r] => RowsReady(r)')
<1>1. TypeOK' /\ Durable'
  BY TypeStep, DurableStep DEF IInv, SeedingTypeOK
<1>2. QED
  BY <1>1 DEF vars, tables, Elsewhere, RowsReady, ToDo

LEMMA UpsertCampaignStep ==
    ASSUME IInv, NEW r \in Requests, UpsertCampaign(r)
    PROVE  IInv'
<1> DEFINE c == locked[r] + 1
<1>1. /\ SeedingTypeOK /\ phase[r] = "campaigns" /\ c \in Campaigns
      /\ Len(removed[r]) = locked[r]
      /\ \A q \in Requests \ {r} : locked[q] < c
      /\ locked' = [locked EXCEPT ![r] = c]
      /\ UNCHANGED <<vars, marketing, phase, removed, view, report>>
      /\ locked[r] \in Nat
  BY RowsAreItems DEF IInv, SeedingTypeOK, UpsertCampaign
<1>2. /\ TypeOK' /\ Durable' /\ customers' = customers /\ Elsewhere(r) /\ RowsReady(r)'
      /\ Others(r) /\ Viewing(r)' /\ MetricsOfOneSeed' /\ phase'[r] # "reading"
  BY <1>1, NoIngestion DEF IInv, SeedingInv, Others, Viewing, MetricsOfOneSeed, SeedingTypeOK,
     marketing
<1>3. SeedingTypeOK'
  BY <1>1, <1>2, RowsAreItems, SMTT(20) DEF SeedingTypeOK, marketing, Campaigns
<1>4. \A q \in Requests \ {r} : locked[q] = 0
  <2> SUFFICES ASSUME NEW q \in Requests \ {r} PROVE locked[q] = 0
    OBVIOUS
  <2>1. locked[r] # 0 => locked[q] = 0
    BY DEF IInv, SeedingInv, Refreshing
  <2>2. locked[q] \in Nat
    BY <1>1, RowsAreItems DEF SeedingTypeOK
  <2>3. QED
    BY <1>1, <2>1, <2>2
<1>5. Refreshing(r)'
  BY <1>1, <1>4 DEF IInv, SeedingInv, Refreshing, SeedingTypeOK, marketing
<1>6. QED
  BY <1>1, <1>2, <1>3, <1>5, SeedLocalStep

LEMMA ReplaceMetricsStep ==
    ASSUME IInv, NEW r \in Requests, ReplaceMetrics(r)
    PROVE  IInv'
<1>1. /\ SeedingTypeOK /\ phase[r] = "campaigns" /\ Len(removed[r]) < locked[r]
      /\ removed' = [removed EXCEPT ![r] = Append(@, metrics[locked[r]])]
      /\ UNCHANGED <<vars, marketing, phase, locked, view, report>>
      /\ locked[r] \in 0 .. NCampaigns /\ removed[r] \in Seq(SUBSET Nat)
      /\ NCampaigns \in Nat
  BY RowsAreItems DEF IInv, SeedingTypeOK, ReplaceMetrics
<1>2. /\ TypeOK' /\ Durable' /\ customers' = customers /\ Elsewhere(r) /\ RowsReady(r)'
      /\ Others(r) /\ Viewing(r)' /\ MetricsOfOneSeed' /\ phase'[r] # "reading"
  BY <1>1, NoIngestion DEF IInv, SeedingInv, Others, Viewing, MetricsOfOneSeed, SeedingTypeOK,
     marketing
<1>3. locked[r] \in Campaigns /\ metrics[locked[r]] \in SUBSET Nat
  <2>1. Len(removed[r]) \in Nat
    BY <1>1, LenProperties
  <2>2. locked[r] \in Campaigns
    BY <1>1, <2>1 DEF Campaigns
  <2>3. QED
    BY <1>1, <2>2 DEF SeedingTypeOK
<1>4. /\ Append(removed[r], metrics[locked[r]]) \in Seq(SUBSET Nat)
      /\ Len(Append(removed[r], metrics[locked[r]])) = Len(removed[r]) + 1
      /\ \A i \in 1 .. Len(removed[r]) :
              Append(removed[r], metrics[locked[r]])[i] = removed[r][i]
      /\ Append(removed[r], metrics[locked[r]])[Len(removed[r]) + 1] = metrics[locked[r]]
  BY <1>1, <1>3, AppendProperties
<1>5. SeedingTypeOK'
  BY <1>1, <1>2, <1>4 DEF SeedingTypeOK, marketing
<1>6. Refreshing(r)'
  <2>1. /\ Refreshing(r) /\ removed'[r] = Append(removed[r], metrics[locked[r]])
        /\ locked' = locked /\ phase' = phase /\ metrics' = metrics
        /\ Len(removed[r]) \in Nat /\ DOMAIN removed[r] = 1 .. Len(removed[r])
    BY <1>1, LenProperties DEF IInv, SeedingInv, SeedingTypeOK, marketing
  <2>2. Len(removed[r]) + 1 = locked[r]
    BY <1>1, <2>1 DEF Refreshing
  <2>3. DOMAIN removed'[r] = 1 .. Len(removed[r]) + 1
    BY <1>4, <2>1, LenProperties
  <2>4. \A i \in DOMAIN removed'[r] : removed'[r][i] = metrics[i]
    <3> SUFFICES ASSUME NEW i \in 1 .. Len(removed[r]) + 1 PROVE removed'[r][i] = metrics[i]
      BY <2>3
    <3>1. CASE i = Len(removed[r]) + 1
      BY <3>1, <2>1, <2>2, <1>4
    <3>2. CASE i \in 1 .. Len(removed[r])
      BY <3>2, <2>1, <1>4 DEF Refreshing
    <3>3. QED
      BY <2>1, <3>1, <3>2
  <2>5. Len(removed'[r]) = locked[r]
    BY <1>4, <2>1, <2>2
  <2>6. QED
    BY <2>1, <2>4, <2>5, <1>1 DEF Refreshing, Others
<1>7. QED
  BY <1>1, <1>2, <1>5, <1>6, SeedLocalStep

LEMMA CommitCampaignsStep ==
    ASSUME IInv, NEW r \in Requests, CommitCampaigns(r)
    PROVE  IInv'
<1>1. /\ TypeOK /\ Durable /\ SeedingTypeOK /\ phase[r] = "campaigns" /\ at[r] = "idle"
      /\ Len(removed[r]) = NCampaigns /\ RowsReady(r) /\ Refreshing(r)
  BY DEF IInv, SeedingInv, SeedingTypeOK, CommitCampaigns, RowsReady
<1>2. /\ at'[r] = "event" /\ todo'[r] = SeedRows /\ wrote' = wrote /\ saved' = saved
      /\ result' = result /\ UNCHANGED <<tables, clients, savepoints, sent, faults>>
      /\ phase'[r] = "events" /\ locked'[r] = 0 /\ removed'[r] = <<>> /\ view' = view
      /\ report' = report
  BY <1>1 DEF CommitCampaigns, SeedingTypeOK, TypeOK
<1>3. Elsewhere(r) /\ Others(r)
  BY DEF CommitCampaigns, Elsewhere, Others
<1>4. TypeOK'
  <2>1. \A q \in Requests : (InItem(q) <=> todo[q] # <<>>)'
    BY <1>1, RowsAreItems DEF CommitCampaigns, TypeOK, InItem
  <2>2. QED
    BY <1>1, <1>2, <2>1, RowsAreItems DEF CommitCampaigns, TypeOK, tables, clients
<1>5. Durable'
  <2>1. Item(r)' \in Rows
    <3>1. SeedRows[1] = Head(SeedRows) /\ 1 \in DOMAIN SeedRows
      BY RowsAreItems, HeadTailProperties, LenProperties, EmptySeq
    <3>2. QED
      BY <1>2, <3>1 DEF Item, Rows
  <2>2. Item(r)'.customer \in customers
    BY <1>1, <2>1 DEF RowsReady
  <2>3. IdsOf(events \cup saved[r].events)' = IdsOf(events \cup saved[r].events)
    BY <1>2 DEF IdsOf, tables
  <2>4. Own(r)'
    BY <1>1, <1>2, <2>2, <2>3 DEF Own, Durable, OpenOK, tables
  <2>5. Fresh(r)' /\ \A q \in Requests \ {r} : Apart(r, q)'
    BY <1>1, <1>2 DEF Fresh, Apart, Durable, OpenOK, tables
  <2>6. QED
    BY <1>1, <1>2, <1>3, <2>4, <2>5, LocalStep
<1>6. /\ NCampaigns \in Nat \ {0} /\ DOMAIN removed[r] = Campaigns /\ locked[r] # 0
      /\ \A c \in Campaigns : removed[r][c] = metrics[c]
  <2>1. DOMAIN removed[r] = 1 .. NCampaigns
    BY <1>1, LenProperties DEF SeedingTypeOK
  <2>2. QED
    BY <1>1, <2>1, RowsAreItems DEF Refreshing, Campaigns
<1>7. \A c \in Campaigns : /\ campaigns[c] \in Nat
                           /\ campaigns'[c] = campaigns[c] + 1
                           /\ metrics'[c] = {campaigns[c] + 1}
  BY <1>1, <1>6 DEF CommitCampaigns, SeedingTypeOK
<1>8. SeedingTypeOK'
  <2>1. campaigns' \in [Campaigns -> Nat] /\ metrics' \in [Campaigns -> SUBSET Nat]
    BY <1>7 DEF CommitCampaigns
  <2>2. <<>> \in Seq(SUBSET Nat) /\ 0 \in 0 .. NCampaigns
    BY EmptySeq, RowsAreItems
  <2>3. QED
    BY <1>1, <1>2, <1>4, <2>1, <2>2 DEF CommitCampaigns, SeedingTypeOK
<1>9. MetricsOfOneSeed'
  <2>1. ASSUME NEW c \in Campaigns
        PROVE  metrics'[c] = IF campaigns'[c] = 0 THEN {} ELSE {campaigns'[c]}
    <3>1. campaigns[c] \in Nat /\ campaigns'[c] = campaigns[c] + 1
      BY <1>7
    <3>2. campaigns'[c] # 0
      BY <3>1
    <3>3. metrics'[c] = {campaigns'[c]}
      BY <1>7
    <3>4. QED
      BY <3>2, <3>3
  <2>2. Campaigns' = Campaigns /\ NoReport' = NoReport
    BY DEF Campaigns, NoReport
  <2>3. report' # NoReport => \E v \in report'.metrics : /\ report'.metrics = {v}
                                                         /\ v >= report'.row
    BY <1>2 DEF IInv, SeedingInv, MetricsOfOneSeed
  <2>4. QED
    BY <2>1, <2>2, <2>3 DEF MetricsOfOneSeed
<1>10. ASSUME NEW q \in Requests
       PROVE  /\ RowsReady(q)' /\ Viewing(q)'
              /\ (phase[q] = "reading" => view[q] # NoView)'
  <2>1. CASE q = r
    <3>1. ToDo(r)' = Rows
      BY <1>2 DEF ToDo, Rows
    <3>2. RowsReady(r)'
      BY <1>1, <1>2, <3>1 DEF RowsReady, tables, Rows
    <3>3. QED
      BY <2>1, <3>2, <1>2, <1>7 DEF IInv, SeedingInv, Viewing
  <2>2. CASE q # r
    <3>1. RowsReady(q)'
      BY <2>2, <1>2, <1>3 DEF IInv, SeedingInv, RowsReady, ToDo, Elsewhere, Others, tables
    <3>2. Viewing(q)'
      BY <1>2, <1>7 DEF IInv, SeedingInv, Viewing
    <3>3. QED
      BY <2>2, <3>1, <3>2, <1>2, <1>3 DEF IInv, SeedingInv, Others
  <2>3. QED
    BY <2>1, <2>2
<1>11. ASSUME NEW q \in Requests PROVE Refreshing(q)'
  <2>1. Len(<<>>) = 0 /\ DOMAIN <<>> = {}
    BY EmptySeq
  <2>2. locked'[q] = 0 /\ removed'[q] = <<>>
    <3>1. CASE q = r
      BY <1>2, <3>1
    <3>2. CASE q # r
      <4>1. locked[q] = 0
        BY <1>1, <1>6, <3>2 DEF Refreshing
      <4>2. Len(removed[q]) = 0 /\ removed[q] \in Seq(SUBSET Nat)
        <5>1. removed[q] \in Seq(SUBSET Nat) /\ Len(removed[q]) \in Nat
          BY <1>1, LenProperties DEF SeedingTypeOK
        <5>2. QED
          BY <4>1, <5>1 DEF IInv, SeedingInv, Refreshing
      <4>3. QED
        BY <3>2, <4>1, <4>2, <1>3, EmptySeq DEF Others
    <3>3. QED
      BY <3>1, <3>2
  <2>3. QED
    BY <2>1, <2>2 DEF Refreshing
<1>12. QED
  BY <1>5, <1>8, <1>9, <1>10, <1>11 DEF IInv, SeedingInv

LEMMA SeedEventStep ==
    ASSUME IInv, NEW r \in Requests, SeedEvent(r)
    PROVE  IInv'
<1> DEFINE new == IsNew(r)
           inserted == IF new THEN [wrote[r] EXCEPT !.events = @ \cup {Item(r)},
                                                    !.outbox = @ \cup {Item(r)}]
                       ELSE wrote[r]
           outcome == IF new THEN [result[r] EXCEPT !.accepted = @ \cup {Item(r)}]
                      ELSE [result[r] EXCEPT !.duplicate = @ \cup {Item(r)}]
<1>1. /\ TypeOK /\ Durable /\ SeedingTypeOK /\ RowsReady(r)
      /\ phase[r] = "events" /\ at[r] = "event" /\ InItem(r) /\ ~Waits(r)
      /\ MoveOn(r, "event", inserted, outcome)
      /\ UNCHANGED <<tables, savepoints, clients, sent, faults, seeding>>
  BY DEF IInv, SeedingInv, SeedingTypeOK, SeedEvent, InItem
<1>2. Item(r) \in Items /\ wrote[r] \in Writes /\ result[r] \in
            [accepted : SUBSET Items, duplicate : SUBSET Items, rejected : SUBSET Items]
  BY <1>1, ItemType DEF TypeOK
<1>3. /\ inserted \in Writes
      /\ outcome \in [accepted : SUBSET Items, duplicate : SUBSET Items, rejected : SUBSET Items]
  BY <1>2 DEF Writes
<1>4. /\ inserted.customers = wrote[r].customers
      /\ new => /\ inserted.events = wrote[r].events \cup {Item(r)}
                /\ inserted.outbox = wrote[r].outbox \cup {Item(r)}
                /\ outcome.accepted = result[r].accepted \cup {Item(r)}
                /\ outcome.duplicate = result[r].duplicate
      /\ ~new => /\ inserted = wrote[r]
                 /\ outcome.accepted = result[r].accepted
                 /\ outcome.duplicate = result[r].duplicate \cup {Item(r)}
  BY <1>2 DEF Writes
<1>5. /\ new => \A j \in events \cup wrote[r].events : j.event # Item(r).event
      /\ ~new => Item(r).event \in IdsOf(events \cup wrote[r].events)
      /\ \A q \in Requests \ {r} : \A j \in wrote[q].events : j.event # Item(r).event
  BY <1>1 DEF IsNew, IdsOf, Waits, WaitsFor
<1>6. /\ Item(r).customer \in customers
      /\ \A i \in DOMAIN Tail(todo[r]) : Tail(todo[r])[i] \in ToDo(r) /\ Tail(todo[r])[i] \in Rows
  BY <1>1, ToDoSplits DEF RowsReady
<1> HIDE DEF inserted, outcome, new
<1>7. TypeOK'
  BY <1>1, <1>3, MoveOnType DEF TypeOK
<1>8. /\ phase'[r] = "events" /\ at'[r] \in {"event", "commit"} /\ todo'[r] = Tail(todo[r])
      /\ at'[r] = "event" => Len(todo[r]) # 1
  BY <1>1 DEF MoveOn, seeding, progress, TypeOK
<1>9. at'[r] = "event" => Item(r)'.customer \in customers
  <2> SUFFICES ASSUME at'[r] = "event" PROVE Head(Tail(todo[r])).customer \in customers
    BY <1>8 DEF Item
  <2>1. Tail(todo[r]) # <<>> /\ Tail(todo[r]) \in Seq(Items)
    BY <1>1, <1>8, ItemType
  <2>2. Head(Tail(todo[r])) = Tail(todo[r])[1] /\ 1 \in DOMAIN Tail(todo[r])
    BY <2>1, HeadTailProperties, LenProperties, EmptySeq
  <2>3. QED
    BY <2>2, <1>1, <1>6 DEF RowsReady
<1>10. Durable'
  <2>1. Own(r) /\ Fresh(r) /\ \A q \in Requests \ {r} : Apart(r, q)
    BY <1>1 DEF Durable, OpenOK
  <2>2. wrote[r].events = saved[r].events /\ wrote[r].outbox = wrote[r].events
    BY <1>1, <2>1 DEF Own
  <2>3. inserted.outbox = inserted.events /\ outcome.accepted = inserted.events
    BY <1>4, <2>1, <2>2 DEF Own
  <2>4. /\ \A i, j \in inserted.events : i.event = j.event => i = j
        /\ \A i \in inserted.events : i.customer \in customers \cup inserted.customers
    BY <1>4, <1>5, <1>6, <2>1, <2>2 DEF Own
  <2>5. \A i \in inserted.events, j \in events : i.event # j.event
    BY <1>4, <1>5, <2>1 DEF Fresh
  <2>6. \A q \in Requests \ {r} : \A i \in inserted.events, j \in wrote[q].events :
              i.event # j.event
    BY <1>4, <1>5, <2>1 DEF Apart
  <2>7. \A i \in outcome.duplicate : i.event \in IdsOf(events \cup inserted.events)
    <3>1. \A i \in result[r].duplicate : i.event \in IdsOf(events \cup wrote[r].events)
      BY <2>1, <2>2 DEF Own
    <3>2. IdsOf(events \cup wrote[r].events) \subseteq IdsOf(events \cup inserted.events)
      BY <1>4 DEF IdsOf
    <3>3. QED
      BY <1>4, <1>5, <3>1, <3>2
  <2>8. QED
    BY <1>1, <1>9, <2>3, <2>4, <2>5, <2>6, <2>7, MoveOnStep
<1>11. Elsewhere(r) /\ Others(r) /\ customers' = customers
  BY <1>1 DEF MoveOn, tables, Elsewhere, Others, seeding, progress, TypeOK
<1>12. RowsReady(r)'
  <2>1. ToDo(r)' \subseteq Rows /\ Rows' = Rows
    BY <1>6, <1>8 DEF ToDo, Rows
  <2>2. QED
    BY <1>1, <1>8, <1>11, <2>1 DEF RowsReady
<1>13. Refreshing(r)' /\ Viewing(r)' /\ MetricsOfOneSeed' /\ SeedingTypeOK'
  BY <1>1, <1>7 DEF IInv, SeedingInv, Refreshing, Viewing, MetricsOfOneSeed, SeedingTypeOK,
     seeding, marketing, progress
<1>14. QED
  BY <1>1, <1>8, <1>10, <1>11, <1>12, <1>13, SeedLocalStep DEF seeding

LEMMA CommitEventsStep ==
    ASSUME IInv, NEW r \in Requests, CommitEvents(r)
    PROVE  IInv'
<1>1. /\ TypeOK /\ Durable /\ SeedingTypeOK
      /\ phase[r] = "events" /\ Publish(r)
      /\ phase' = [phase EXCEPT ![r] = "none"]
      /\ UNCHANGED <<clients, sent, faults, marketing, locked, removed, view, report>>
  BY DEF IInv, SeedingTypeOK, CommitEvents
<1>2. TypeOK'
  <2>1. faults' \in 0 .. MaxFaults
    BY <1>1 DEF TypeOK
  <2>2. QED
    BY <1>1, <2>1, PublishType
<1>3. Durable'
  BY <1>1, PublishStep
<1>4. Elsewhere(r) /\ Others(r) /\ customers' = customers \cup wrote[r].customers
  BY <1>1, RolledBack DEF Publish, Others, SeedingTypeOK
<1>5. phase'[r] = "none"
  BY <1>1 DEF SeedingTypeOK
<1>6. Refreshing(r)'
  <2>1. locked[r] = 0
    BY <1>1 DEF IInv, SeedingInv, Refreshing
  <2>2. QED
    BY <1>1, <2>1 DEF IInv, SeedingInv, Refreshing, marketing
<1>7. Viewing(r)' /\ MetricsOfOneSeed' /\ SeedingTypeOK' /\ RowsReady(r)'
  BY <1>1, <1>2, <1>5 DEF IInv, SeedingInv, Viewing, MetricsOfOneSeed, SeedingTypeOK, marketing,
     RowsReady
<1>8. QED
  BY <1>3, <1>1, <1>4, <1>5, <1>6, <1>7, SeedLocalStep

LEMMA ReadStep ==
    ASSUME IInv, NEW r \in Requests, Read(r)
    PROVE  IInv'
<1>1. /\ TypeOK /\ Durable /\ SeedingTypeOK /\ at[r] = "idle" /\ phase[r] = "none"
      /\ sent < MaxRequests /\ sent' = sent + 1
      /\ phase' = [phase EXCEPT ![r] = "reading"]
      /\ UNCHANGED <<tables, clients, at, savepoints, todo, wrote, saved, result, faults,
                     marketing, locked, removed, report>>
  BY DEF IInv, SeedingTypeOK, Read
<1>2. PICK c \in Campaigns :
        /\ campaigns[c] # 0
        /\ view' = [view EXCEPT ![r] = [campaign |-> c, row |-> campaigns[c]]]
  BY DEF Read
<1>3. TypeOK'
  <2>1. sent' \in 0 .. MaxRequests
    BY <1>1, IngestionAssumption DEF TypeOK
  <2>2. QED
    BY <1>1, <2>1 DEF TypeOK, tables, clients, InItem
<1>4. Elsewhere(r) /\ Others(r) /\ customers' = customers
  BY <1>1, <1>2 DEF Elsewhere, Others, tables
<1>5. Durable'
  <2>1. Own(r)'
    <3>1. IdsOf(events \cup saved[r].events)' = IdsOf(events \cup saved[r].events)
      BY <1>1 DEF IdsOf, tables
    <3>2. QED
      BY <1>1, <3>1 DEF Own, Durable, OpenOK, tables
  <2>2. Fresh(r)' /\ \A q \in Requests \ {r} : Apart(r, q)'
    BY <1>1 DEF Fresh, Apart, Durable, OpenOK, tables
  <2>3. QED
    BY <1>1, <1>4, <2>1, <2>2, LocalStep
<1>6. /\ c \in 1 .. NCampaigns /\ NCampaigns \in Nat /\ campaigns[c] \in Nat
      /\ campaigns' = campaigns
      /\ view'[r].campaign = c /\ view'[r].row = campaigns[c] /\ view'[r] # NoView
  BY <1>1, <1>2, RowsAreItems DEF Campaigns, SeedingTypeOK, marketing, NoView
<1>7. Viewing(r)'
  BY <1>2, <1>6 DEF Viewing, Campaigns
<1>8. SeedingTypeOK'
  BY <1>1, <1>2, <1>3, <1>6 DEF SeedingTypeOK, marketing
<1>9. RowsReady(r)' /\ Refreshing(r)' /\ MetricsOfOneSeed'
  <2>1. RowsReady(r)'
    BY <1>1 DEF RowsReady, SeedingTypeOK
  <2>2. locked[r] = 0
    BY <1>1 DEF IInv, SeedingInv, Refreshing
  <2>3. QED
    BY <1>1, <2>1, <2>2 DEF IInv, SeedingInv, Refreshing, MetricsOfOneSeed, marketing
<1>10. QED
  BY <1>1, <1>4, <1>5, <1>6, <1>7, <1>8, <1>9, SeedLocalStep

\* A read finds the metrics of the seed that wrote the row, or of a later one.
LEMMA ReadMetricsStep ==
    ASSUME IInv, NEW r \in Requests, ReadMetrics(r)
    PROVE  IInv'
<1> DEFINE c == view[r].campaign
<1>1. /\ SeedingTypeOK /\ phase[r] = "reading" /\ view[r] # NoView /\ Viewing(r)
      /\ report' = [row |-> view[r].row, metrics |-> metrics[c]]
      /\ phase' = [phase EXCEPT ![r] = "none"]
      /\ view' = [view EXCEPT ![r] = NoView]
      /\ UNCHANGED <<vars, marketing, locked, removed>>
  BY DEF IInv, SeedingInv, ReadMetrics
<1>2. /\ TypeOK' /\ Durable' /\ customers' = customers /\ Elsewhere(r) /\ Others(r)
      /\ phase'[r] = "none" /\ view'[r] = NoView
  BY <1>1, NoIngestion DEF Others, SeedingTypeOK
<1>3. /\ c \in Campaigns /\ campaigns[c] \in Nat /\ view[r].row \in Nat
      /\ view[r].row <= campaigns[c] /\ campaigns[c] # 0
  BY <1>1 DEF Viewing, SeedingTypeOK
<1>4. metrics[c] = {campaigns[c]}
  BY <1>3 DEF IInv, SeedingInv, MetricsOfOneSeed
<1>5. MetricsOfOneSeed'
  <2>1. \E v \in report'.metrics : report'.metrics = {v} /\ v >= report'.row
    BY <1>1, <1>3, <1>4
  <2>2. QED
    BY <1>1, <2>1 DEF IInv, SeedingInv, MetricsOfOneSeed, marketing, Campaigns
<1>6. SeedingTypeOK'
  <2>1. NoView \in [campaign : 0 .. NCampaigns, row : Nat]
    BY RowsAreItems DEF NoView
  <2>2. report' \in [row : Nat, metrics : SUBSET Nat]
    BY <1>1, <1>3, <1>4
  <2>3. QED
    BY <1>1, <1>2, <2>1, <2>2 DEF SeedingTypeOK, marketing
<1>7. RowsReady(r)' /\ Viewing(r)'
  BY <1>2 DEF RowsReady, Viewing, NoView
<1>8. Refreshing(r)'
  <2>1. locked[r] = 0
    BY <1>1 DEF IInv, SeedingInv, Refreshing
  <2>2. QED
    BY <1>1, <2>1 DEF IInv, SeedingInv, Refreshing, marketing
<1>9. QED
  BY <1>1, <1>2, <1>5, <1>6, <1>7, <1>8, SeedLocalStep

\* A seed, or a read, that fails gives up its claims with its transaction.
LEMMA GiveUpStep ==
    ASSUME IInv, NEW r \in Requests, FailSeed(r) \/ BreakSeed(r)
    PROVE  IInv'
<1>1. /\ TypeOK /\ Durable /\ SeedingTypeOK /\ GiveUp(r) /\ Close(r)
      /\ UNCHANGED <<tables, clients, sent, marketing, report>>
  BY DEF IInv, SeedingTypeOK, FailSeed, BreakSeed, GiveUp
<1>2. /\ phase' = [phase EXCEPT ![r] = "none"]
      /\ locked' = [locked EXCEPT ![r] = 0]
      /\ removed' = [removed EXCEPT ![r] = <<>>]
      /\ view' = [view EXCEPT ![r] = NoView]
  BY <1>1 DEF GiveUp
<1>3. faults' \in 0 .. MaxFaults
  BY <1>1, IngestionAssumption DEF FailSeed, BreakSeed, Raises, TypeOK
<1>4. TypeOK'
  BY <1>1, <1>3, CloseType DEF TypeOK, tables, clients
<1>5. Durable' /\ Elsewhere(r)
  BY <1>1, RollbackStep, RolledBack
<1>6. Others(r) /\ customers' = customers
  BY <1>1, <1>2 DEF Others, tables
<1>7. phase'[r] = "none" /\ locked'[r] = 0 /\ removed'[r] = <<>> /\ view'[r] = NoView
  BY <1>1, <1>2 DEF SeedingTypeOK
<1>8. SeedingTypeOK'
  <2>1. <<>> \in Seq(SUBSET Nat) /\ 0 \in 0 .. NCampaigns
    BY EmptySeq, RowsAreItems
  <2>2. NoView \in [campaign : 0 .. NCampaigns, row : Nat]
    BY RowsAreItems DEF NoView
  <2>3. QED
    BY <1>1, <1>2, <1>4, <2>1, <2>2 DEF SeedingTypeOK, marketing
<1>9. RowsReady(r)' /\ Viewing(r)' /\ MetricsOfOneSeed'
  BY <1>1, <1>7 DEF IInv, SeedingInv, RowsReady, Viewing, MetricsOfOneSeed, marketing
<1>10. Refreshing(r)'
  <2>1. Len(<<>>) = 0 /\ DOMAIN <<>> = {}
    BY EmptySeq
  <2>2. QED
    BY <1>7, <2>1 DEF Refreshing
<1>11. QED
  BY <1>1, <1>5, <1>6, <1>7, <1>8, <1>9, <1>10, SeedLocalStep

LEMMA SeedingStep == IInv /\ [SeedingNext]_<<vars, seeding>> => IInv'
<1> SUFFICES ASSUME IInv, [SeedingNext]_<<vars, seeding>> PROVE IInv'
  OBVIOUS
<1>1. ASSUME NEW r \in Requests, Request(r) \/ RunRequest(r) PROVE IInv'
  <2>1. IngestEvent(r) \/ IngestBatch(r) \/ Run(r) \/ Break(r) \/ CommitUnconfirmed(r)
    BY <1>1 DEF Request, RunRequest
  <2>2. TypeOK /\ phase[r] = "none" /\ UNCHANGED seeding
    BY <1>1 DEF IInv, SeedingTypeOK, Request, RunRequest
  <2>3. Next
    BY <2>1 DEF Next
  <2>4. QED
    BY <2>1, <2>2, <2>3, OtherSlots, IngestionStep
<1>2. ASSUME NEW r \in Requests, RunSeed(r) PROVE IInv'
  BY <1>2, SeedCustomerStep, CommitCustomersStep, UpsertCampaignStep, ReplaceMetricsStep,
     CommitCampaignsStep, SeedEventStep, CommitEventsStep, ReadMetricsStep, GiveUpStep
     DEF RunSeed
<1>3. CASE UNCHANGED <<vars, seeding>>
  <2>1. TypeOK' /\ Durable'
    BY <1>3, TypeStep, DurableStep DEF IInv, SeedingTypeOK
  <2>2. /\ UNCHANGED <<customers, at, todo, wrote>>
        /\ UNCHANGED <<campaigns, metrics, phase, locked, removed, view, report>>
    BY <1>3 DEF vars, tables, seeding, marketing, progress
  <2>3. SeedingTypeOK'
    BY <2>1, <2>2 DEF IInv, SeedingTypeOK
  <2>4. SeedingInv'
    BY <2>2 DEF IInv, SeedingInv, RowsReady, ToDo, Refreshing, Viewing, MetricsOfOneSeed
  <2>5. QED
    BY <2>1, <2>3, <2>4 DEF IInv
<1>4. QED
  BY <1>1, <1>2, <1>3, SeedStep, ReadStep, GiveUpStep DEF SeedingNext

LEMMA AlwaysIInv == SeedingSpec => []IInv
<1>1. QED
  BY SeedingInitInv, SeedingStep, PTL DEF SeedingSpec

----------------------------------------------------------------------------
(* Atomic acceptance                                                       *)

New == events' \ events

\* What EventPipeline takes as steps of its own, Ingest of each new event: an
\* absent event becomes pending together with its one outbox row, and an event
\* that is there stays as it is. A client is told of an acceptance by the
\* commit of the event only.
AcceptsWhole ==
    /\ customers \subseteq customers' /\ events \subseteq events'
    /\ \A i \in New : i.event \notin IdsOf(events) /\ i.customer \in customers'
    /\ \A i \in Items : outbox'[i] = IF i \in New THEN outbox[i] + 1 ELSE outbox[i]
    /\ \A e \in EventIds : acceptances'[e] # acceptances[e] =>
            e \in IdsOf(New) /\ acceptances'[e] = acceptances[e] + 1

\* Only a commit writes what is committed or answers a client.
LEMMA OnlyCommitsWrite ==
    ASSUME [SeedingNext]_<<vars, seeding>>
    PROVE  \/ UNCHANGED <<tables, clients>>
           \/ \E r \in Requests : Publish(r) /\ (clients' = clients \/ Commit(r))
<1>1. ASSUME NEW r \in Requests, Request(r) \/ RunRequest(r)
      PROVE  UNCHANGED <<tables, clients>> \/ (Publish(r) /\ (clients' = clients \/ Commit(r)))
  <2>1. CASE IngestEvent(r) \/ IngestBatch(r)
    BY <2>1 DEF IngestEvent, IngestBatch, Start
  <2>2. CASE InsertCustomer(r) \/ InsertEvent(r) \/ SkipDuplicate(r) \/ InsertOutbox(r)
    BY <2>2 DEF InsertCustomer, InsertEvent, SkipDuplicate, InsertOutbox
  <2>3. CASE RejectItem(r) \/ RejectRequest(r) \/ Break(r)
    BY <2>3 DEF RejectItem, RejectRequest, Break
  <2>4. CASE Commit(r) \/ CommitUnconfirmed(r)
    BY <2>4 DEF Commit, CommitUnconfirmed
  <2>5. QED
    BY <1>1, <2>1, <2>2, <2>3, <2>4 DEF Request, RunRequest, Run
<1>2. ASSUME NEW r \in Requests, RunSeed(r)
      PROVE  UNCHANGED <<tables, clients>> \/ (Publish(r) /\ (clients' = clients \/ Commit(r)))
  <2>1. CASE SeedCustomer(r) \/ UpsertCampaign(r) \/ ReplaceMetrics(r) \/ SeedEvent(r)
    BY <2>1 DEF SeedCustomer, UpsertCampaign, ReplaceMetrics, SeedEvent, vars
  <2>2. CASE CommitCustomers(r) \/ CommitEvents(r)
    BY <2>2 DEF CommitCustomers, CommitEvents
  <2>3. CASE CommitCampaigns(r) \/ ReadMetrics(r) \/ FailSeed(r)
    BY <2>3 DEF CommitCampaigns, ReadMetrics, FailSeed, GiveUp, vars
  <2>4. QED
    BY <1>2, <2>1, <2>2, <2>3 DEF RunSeed
<1>3. ASSUME NEW r \in Requests, Seed(r) \/ Read(r) \/ BreakSeed(r)
      PROVE  UNCHANGED <<tables, clients>>
  BY <1>3 DEF Seed, Start, Read, BreakSeed, GiveUp
<1>4. CASE UNCHANGED <<vars, seeding>>
  BY <1>4 DEF vars
<1>5. QED
  BY <1>1, <1>2, <1>3, <1>4 DEF SeedingNext

LEMMA AcceptStep == IInv /\ [SeedingNext]_<<vars, seeding>> => AcceptsWhole
<1> SUFFICES ASSUME IInv, [SeedingNext]_<<vars, seeding>> PROVE AcceptsWhole
  OBVIOUS
<1>1. CASE UNCHANGED <<tables, clients>>
  <2>1. New = {}
    BY <1>1 DEF New, tables
  <2>2. QED
    BY <1>1, <2>1 DEF AcceptsWhole, tables, clients
<1>2. ASSUME NEW r \in Requests, Publish(r), clients' = clients \/ Commit(r)
      PROVE  AcceptsWhole
  <2>1. TypeOK /\ Durable /\ Own(r) /\ Fresh(r)
    BY DEF IInv, SeedingTypeOK, Durable, OpenOK
  <2>2. /\ wrote[r].events = saved[r].events /\ wrote[r].outbox = wrote[r].events
        /\ result[r].accepted = wrote[r].events
    BY <1>2, <2>1 DEF Publish, Own
  <2>3. /\ customers' = customers \cup wrote[r].customers
        /\ events' = events \cup wrote[r].events
        /\ \A i \in Items : outbox'[i] = IF i \in wrote[r].events THEN outbox[i] + 1 ELSE outbox[i]
    BY <1>2, <2>2 DEF Publish
  <2>4. New = wrote[r].events
    BY <2>1, <2>3 DEF New, Fresh
  <2>5. \A i \in New : i.event \notin IdsOf(events)
    BY <2>1, <2>4 DEF Fresh, IdsOf
  <2>6. \A i \in New : i.customer \in customers'
    BY <2>1, <2>2, <2>3, <2>4 DEF Own
  <2>7. ASSUME NEW e \in EventIds, acceptances'[e] # acceptances[e]
        PROVE  e \in IdsOf(New) /\ acceptances'[e] = acceptances[e] + 1
    BY <1>2, <2>2, <2>4, <2>7 DEF Commit, clients
  <2>8. QED
    BY <2>3, <2>4, <2>5, <2>6, <2>7 DEF AcceptsWhole
<1>3. QED
  BY <1>1, <1>2, OnlyCommitsWrite

----------------------------------------------------------------------------
\* Every variable keeps its type, whatever requests, seeds and reads do.
THEOREM TypeCorrect == SeedingSpec => []SeedingTypeOK
<1>1. IInv => SeedingTypeOK
  BY DEF IInv
<1>2. QED
  BY <1>1, AlwaysIInv, PTL

\* Every committed event has exactly one outbox row, its own, and its
\* customer: rejected items, duplicates, broken requests and seeds that stop
\* between two of their commits leave nothing else.
THEOREM OutboxRowPerEvent == SeedingSpec => []OneOutboxRow
<1>1. IInv => OneOutboxRow
  BY DEF IInv, Durable
<1>2. QED
  BY <1>1, AlwaysIInv, PTL

\* What a client was told is accepted, or a duplicate, is durable.
THEOREM TruthfulAnswers == SeedingSpec => []AnswersAreDurable
<1>1. IInv => AnswersAreDurable
  BY DEF IInv, Durable
<1>2. QED
  BY <1>1, AlwaysIInv, PTL

\* However often an event is sent and by whom, it is accepted at most once.
THEOREM AcceptedAtMostOnce == SeedingSpec => []AcceptedOnce
<1>1. IInv => AcceptedOnce
  BY DEF IInv, Durable, AcceptedOK, AcceptedOnce
<1>2. QED
  BY <1>1, AlwaysIInv, PTL

\* However many seeds overlap or fail, a campaign has the metrics of the seed
\* that wrote its row, and a read those of one seed.
THEOREM RefreshedAsAWhole == SeedingSpec => []MetricsOfOneSeed
<1>1. IInv => MetricsOfOneSeed
  BY DEF IInv, SeedingInv
<1>2. QED
  BY <1>1, AlwaysIInv, PTL

\* Requests and seeds, statement by statement, implement the atomic Ingest of
\* EventPipeline: whatever interleaves or fails, events only ever appear, new
\* ones, with their customers and their outbox rows in the same commit.
THEOREM IngestionIsAtomic == SeedingSpec => [][AcceptsWhole]_<<vars, seeding>>
<1>1. QED
  BY AlwaysIInv, AcceptStep, PTL DEF SeedingSpec
=============================================================================
