------------------------ MODULE EventProcessingProofs ------------------------
(***************************************************************************)
(* Proofs about EventProcessing, for any events, customers, decay table    *)
(* and number of sessions.                                                 *)
(*                                                                         *)
(* The argument rests on what the row locks buy. A session that went past  *)
(* LockEvent owns the event's row, so the status it saw is still the       *)
(* status; past LockCustomer it owns the customer's row, so the aggregate  *)
(* it read is still the aggregate (LockInv). Every commit then writes what *)
(* follows from the current state, as if the transaction were one step.    *)
(***************************************************************************)
EXTENDS EventProcessing, FiniteSetTheorems, SequenceTheorems, TLAPS

\* A score stays an integer: only divisions by a decay factor are made.
LEMMA ScoreType ==
    ASSUME NEW e \in Events, NEW read \in Engagements
    PROVE  NewScore(read, e) \in Int
<1>1. /\ WeightOf[e] \in Int /\ TimeOf[e] \in Times /\ Horizon \in Times
      /\ Decay[Horizon] \in Int
  BY ProcessingAssumption, DecayAssumption DEF Times
<1>2. FullWeight(e) \in Int
  BY <1>1 DEF FullWeight
<1>3. read.score \in Int /\ read.clock \in Times \cup {Never}
  BY DEF Engagements
<1>4. ASSUME NEW x \in Int, NEW d \in Times
      PROVE  x \div Decay[d] \in Int
  <2>1. Decay[d] \in Int /\ Decay[d] > 0
    BY DecayAssumption
  <2>2. QED
    BY <2>1
<1>5. CASE read.clock = Never
  BY <1>2, <1>5 DEF NewScore
<1>6. CASE read.clock # Never /\ TimeOf[e] < read.clock
  <2>1. read.clock - TimeOf[e] \in Times
    BY <1>1, <1>3, <1>6 DEF Times, Never
  <2>2. FullWeight(e) \div Decay[read.clock - TimeOf[e]] \in Int
    BY <1>2, <1>4, <2>1
  <2>3. QED
    BY <1>3, <1>6, <2>2 DEF NewScore
<1>7. CASE read.clock # Never /\ ~(TimeOf[e] < read.clock)
  <2>1. TimeOf[e] - read.clock \in Times
    BY <1>1, <1>3, <1>7 DEF Times, Never
  <2>2. read.score \div Decay[TimeOf[e] - read.clock] \in Int
    BY <1>3, <1>4, <2>1
  <2>3. QED
    BY <1>2, <1>7, <2>2 DEF NewScore
<1>8. QED
  BY <1>5, <1>6, <1>7

LEMMA ScoredType ==
    ASSUME NEW e \in Events, NEW read \in Engagements
    PROVE  Scored(e, read) \in Engagements
<1>1. TimeOf[e] \in Times
  BY ProcessingAssumption
<1>2. Later(TimeOf[e], read.clock) \in Times \cup {Never}
  BY <1>1 DEF Later, Engagements
<1>3. read.count + 1 \in Nat
  BY DEF Engagements
<1>4. QED
  BY <1>2, <1>3, ScoreType DEF Scored, Counted, Engagements

LEMMA ProfiledType ==
    ASSUME NEW e \in Events, NEW active \in Times \cup {Never}, NEW old \in Profiles
    PROVE  Profiled(e, active, old) \in Profiles
<1>1. TimeOf[e] \in Times /\ ChannelOf[e] \in Channels
  BY ProcessingAssumption
<1>2. Later(TimeOf[e], active) \in Times \cup {Never}
  BY <1>1 DEF Later
<1>3. (old.converted \/ KindOf[e] = "purchase") \in BOOLEAN
  BY DEF Profiles
<1>4. old.optedOut \in SUBSET Channels
  BY DEF Profiles
<1>5. (IF KindOf[e] \in {"unsubscribe", "complaint"} /\ ChannelOf[e] # "web"
       THEN old.optedOut \cup {ChannelOf[e]} ELSE old.optedOut) \in SUBSET Channels
  BY <1>1, <1>4
<1>6. QED
  BY <1>2, <1>3, <1>5 DEF Profiled, Profiles

LEMMA IdleType == Idle \in Txns
BY ProcessingAssumption DEF Idle, Txns, Statuses, NoEngagement, Engagements, Never, Times

----------------------------------------------------------------------------
(* Type correctness                                                        *)

\* What the fields of a session say about each other.
WellFormed(s) ==
    /\ txn[s].op = "idle" <=> txn[s].at = "idle"
    /\ txn[s].op # "idle" => txn[s].id \in Ids
    /\ txn[s].op = "replay" => /\ txn[s].row \in 1 .. Len(dlq)
                               /\ dlq[txn[s].row].event = txn[s].id
    /\ txn[s].seen # "absent" => txn[s].id \in Events
    /\ txn[s].at \in {"customer", "score"} =>
            txn[s].op = "process" /\ txn[s].id \in Events
    /\ txn[s].at = "dlq" => txn[s].op = "replay"

TypeInv == TypeOK /\ \A s \in Sessions : WellFormed(s)

DlqRecords == [event : Ids, replayed : BOOLEAN]

\* A dead letter that is there has its type.
LEMMA DlqRowType ==
    ASSUME TypeOK, NEW i \in 1 .. Len(dlq)
    PROVE  dlq[i] \in DlqRecords /\ i \in 1 .. MaxDeadLetters /\ Len(dlq) \in Nat
<1>1. dlq \in Seq(DlqRecords) /\ Len(dlq) <= MaxDeadLetters
  BY DEF TypeOK, DlqRecords
<1>2. dlq[i] \in DlqRecords /\ Len(dlq) \in Nat
  BY <1>1, ElementOfSeq
<1>3. QED
  BY <1>1, <1>2, ProcessingAssumption

\* No row of dlq_events is lost, or moved to another event.
DlqKept ==
    /\ dlq' \in Seq(DlqRecords)
    /\ Len(dlq) \in Nat /\ Len(dlq') \in Nat
    /\ Len(dlq') >= Len(dlq)
    /\ \A i \in 1 .. Len(dlq) : dlq'[i].event = dlq[i].event

LEMMA DlqUnchanged == TypeOK /\ UNCHANGED dlq => DlqKept
BY LenProperties DEF TypeOK, DlqKept, DlqRecords

LEMMA TypeInit == Init => TypeInv
<1> SUFFICES ASSUME Init PROVE TypeInv
  OBVIOUS
<1>1. TypeOK
  <2>1. NoEngagement \in Engagements
    BY DEF NoEngagement, Engagements
  <2>2. [lastActive |-> Never, converted |-> FALSE, optedOut |-> {}] \in Profiles
    BY DEF Profiles
  <2>3. dlq \in Seq([event : Ids, replayed : BOOLEAN]) /\ Len(dlq) <= MaxDeadLetters
    BY ProcessingAssumption DEF Init
  <2>4. status \in [Events -> Statuses]
    BY DEF Init, Statuses
  <2>5. txn \in [Sessions -> Txns] /\ held \in [Sessions -> SUBSET Locks]
    BY IdleType DEF Init
  <2>6. engagement \in [Customers -> Engagements] /\ profile \in [Customers -> Profiles]
    BY <2>1, <2>2 DEF Init
  <2>7. QED
    BY <2>3, <2>4, <2>5, <2>6 DEF TypeOK
<1>2. ASSUME NEW s \in Sessions PROVE WellFormed(s)
  BY DEF Init, WellFormed, Idle
<1>3. QED
  BY <1>1, <1>2 DEF TypeInv

\* Ending a session leaves the others as they are, and it well formed.
LEMMA EndType ==
    ASSUME TypeInv, NEW s \in Sessions, End(s), DlqKept
    PROVE  /\ held' \in [Sessions -> SUBSET Locks]
           /\ txn' \in [Sessions -> Txns]
           /\ \A t \in Sessions : WellFormed(t)'
<1>1. held' \in [Sessions -> SUBSET Locks] /\ txn' \in [Sessions -> Txns]
  BY IdleType DEF TypeInv, TypeOK, End
<1>2. ASSUME NEW t \in Sessions PROVE WellFormed(t)'
  <2>1. CASE t = s
    BY <2>1 DEF TypeInv, TypeOK, End, WellFormed, Idle
  <2>2. CASE t # s
    <3>1. txn'[t] = txn[t] /\ WellFormed(t)
      BY <2>2 DEF TypeInv, TypeOK, End
    <3>2. QED
      BY <3>1 DEF WellFormed, DlqKept
  <2>3. QED
    BY <2>1, <2>2
<1>3. QED
  BY <1>1, <1>2

\* Replaying closes one dead letter and changes nothing else in dlq_events.
ReplayKeepsRows(s) ==
    /\ DlqKept
    /\ Len(dlq') = Len(dlq)
    /\ \A j \in 1 .. Len(dlq) :
        /\ dlq'[j].event = dlq[j].event
        /\ dlq'[j].replayed = IF j = txn[s].row THEN TRUE ELSE dlq[j].replayed

LEMMA ReplayRows ==
    ASSUME TypeInv, NEW s \in Sessions, CommitReplay(s)
    PROVE  ReplayKeepsRows(s) /\ txn[s].row \in 1 .. Len(dlq)
<1> DEFINE i == txn[s].row
           row == [dlq[i] EXCEPT !.replayed = TRUE]
<1>1. i \in 1 .. Len(dlq) /\ dlq' = [dlq EXCEPT ![i] = row]
  BY DEF CommitReplay, WellFormed, TypeInv
<1>2. dlq \in Seq(DlqRecords) /\ Len(dlq) \in Nat /\ dlq[i] \in DlqRecords
  BY <1>1, LenProperties, DlqRowType DEF TypeInv, TypeOK, DlqRecords
<1>3. row \in DlqRecords /\ row.event = dlq[i].event /\ row.replayed = TRUE
  BY <1>2 DEF DlqRecords
<1>4. /\ dlq' \in Seq(DlqRecords)
      /\ Len(dlq') = Len(dlq)
      /\ \A j \in 1 .. Len(dlq) : dlq'[j] = IF j = i THEN row ELSE dlq[j]
  <2> HIDE DEF row, i
  <2> QED
    BY <1>1, <1>2, <1>3, ExceptSeq
<1>5. \A j \in 1 .. Len(dlq) :
        /\ dlq'[j].event = dlq[j].event
        /\ dlq'[j].replayed = IF j = i THEN TRUE ELSE dlq[j].replayed
  <2> HIDE DEF row, i
  <2> QED
    BY <1>3, <1>4
<1>6. DlqKept
  <2> HIDE DEF row, i
  <2>1. Len(dlq') \in Nat /\ Len(dlq') >= Len(dlq)
    BY <1>2, <1>4
  <2>2. QED
    BY <1>2, <1>4, <1>5, <2>1 DEF DlqKept
<1>7. QED
  BY <1>1, <1>4, <1>5, <1>6 DEF ReplayKeepsRows

LEMMA TypeStep == TypeInv /\ [Next]_vars => TypeInv'
<1> SUFFICES ASSUME TypeInv, [Next]_vars PROVE TypeInv'
  OBVIOUS
<1> USE DEF TypeInv
<1>1. ASSUME NEW e \in Events, Ingest(e) PROVE TypeInv'
  BY <1>1 DEF Ingest, TypeOK, Statuses, WellFormed
<1>2. ASSUME NEW s \in Sessions, NEW op \in {"process", "fail", "replay"},
             NEW id \in Ids, NEW row \in 0 .. MaxDeadLetters,
             op = "replay" => row \in 1 .. Len(dlq) /\ dlq[row].event = id,
             Begin(s, op, id, row)
      PROVE  TypeInv'
  <2>1. [Idle EXCEPT !.op = op, !.at = "begun", !.id = id, !.row = row] \in Txns
    BY IdleType DEF Txns
  <2>2. TypeOK'
    BY <1>2, <2>1 DEF Begin, TypeOK
  <2>3. ASSUME NEW t \in Sessions PROVE WellFormed(t)'
    BY <1>2, <2>3 DEF Begin, TypeOK, WellFormed, Idle
  <2>4. QED
    BY <2>2, <2>3
<1>3. ASSUME NEW s \in Sessions, LockEvent(s) PROVE TypeInv'
  <2>1. StatusOf(txn[s].id) \in Statuses
    BY DEF TypeOK, StatusOf, Statuses
  <2>2. StatusOf(txn[s].id) # "absent" => txn[s].id \in Events
    BY DEF StatusOf
  <2>3. held' \in [Sessions -> SUBSET Locks]
    BY <1>3, <2>2 DEF LockEvent, Durable, TypeOK, Locks
  <2>4. txn' \in [Sessions -> Txns]
    <3>1. txn[s] \in Txns
      BY DEF TypeOK
    <3>2. [txn[s] EXCEPT !.at = "event", !.seen = StatusOf(txn[s].id)] \in Txns
      BY <2>1, <3>1 DEF Txns
    <3>3. QED
      BY <1>3, <3>2 DEF LockEvent, TypeOK
  <2>5. ASSUME NEW t \in Sessions PROVE WellFormed(t)'
    BY <1>3, <2>2, <2>5 DEF LockEvent, TypeOK, WellFormed
  <2>6. QED
    BY <1>3, <2>3, <2>4, <2>5 DEF LockEvent, TypeOK
<1>4. ASSUME NEW s \in Sessions, LockCustomer(s) PROVE TypeInv'
  <2>1. txn[s].id \in Events
    BY <1>4 DEF LockCustomer, WellFormed
  <2>2. CustomerOf[txn[s].id] \in Customers
    BY <2>1, ProcessingAssumption
  <2>3. profile[CustomerOf[txn[s].id]].lastActive \in Times \cup {Never}
    BY <2>2 DEF TypeOK, Profiles
  <2>4. held' \in [Sessions -> SUBSET Locks]
    BY <1>4, <2>2 DEF LockCustomer, TypeOK, Locks
  <2>5. txn' \in [Sessions -> Txns]
    <3>1. txn[s] \in Txns
      BY DEF TypeOK
    <3>2. [txn[s] EXCEPT !.at = "customer",
                         !.active = profile[CustomerOf[txn[s].id]].lastActive] \in Txns
      BY <2>3, <3>1 DEF Txns
    <3>3. QED
      BY <1>4, <3>2 DEF LockCustomer, TypeOK
  <2>6. ASSUME NEW t \in Sessions PROVE WellFormed(t)'
    BY <1>4, <2>1, <2>6 DEF LockCustomer, TypeOK, WellFormed
  <2>7. QED
    BY <1>4, <2>4, <2>5, <2>6 DEF LockCustomer, TypeOK
<1>5. ASSUME NEW s \in Sessions, ReadScore(s) PROVE TypeInv'
  <2>1. txn[s].id \in Events
    BY <1>5 DEF ReadScore, WellFormed
  <2>2. engagement[CustomerOf[txn[s].id]] \in Engagements
    BY <2>1, ProcessingAssumption DEF TypeOK
  <2>3. txn' \in [Sessions -> Txns]
    <3>1. txn[s] \in Txns
      BY DEF TypeOK
    <3>2. [txn[s] EXCEPT !.at = "score",
                         !.read = engagement[CustomerOf[txn[s].id]]] \in Txns
      BY <2>2, <3>1 DEF Txns
    <3>3. QED
      BY <1>5, <3>2 DEF ReadScore, TypeOK
  <2>4. ASSUME NEW t \in Sessions PROVE WellFormed(t)'
    BY <1>5, <2>4 DEF ReadScore, TypeOK, WellFormed
  <2>5. QED
    BY <1>5, <2>3, <2>4 DEF ReadScore, TypeOK
<1>6. ASSUME NEW s \in Sessions, CommitProcess(s) PROVE TypeInv'
  <2> DEFINE e == txn[s].id
             c == CustomerOf[e]
  <2>1. e \in Events /\ txn[s].read \in Engagements /\ txn[s].active \in Times \cup {Never}
    BY <1>6 DEF CommitProcess, WellFormed, TypeOK, Txns
  <2>2. c \in Customers
    BY <2>1, ProcessingAssumption
  <2>3. profile[c] \in Profiles
    BY <2>2 DEF TypeOK
  <2>4. Scored(e, txn[s].read) \in Engagements
    BY <2>1, ScoredType
  <2>5. Profiled(e, txn[s].active, profile[c]) \in Profiles
    BY <2>1, <2>3, ProfiledType
  <2>6. engagement' \in [Customers -> Engagements]
    BY <1>6, <2>4 DEF CommitProcess, TypeOK
  <2>7. profile' \in [Customers -> Profiles]
    BY <1>6, <2>5 DEF CommitProcess, TypeOK
  <2>8. status' \in [Events -> Statuses]
    BY <1>6 DEF CommitProcess, TypeOK, Statuses
  <2>9. End(s) /\ dlq' = dlq
    BY <1>6 DEF CommitProcess
  <2>10. /\ held' \in [Sessions -> SUBSET Locks]
         /\ txn' \in [Sessions -> Txns]
         /\ \A t \in Sessions : WellFormed(t)'
    BY <2>9, EndType, DlqUnchanged
  <2>11. QED
    BY <2>6, <2>7, <2>8, <2>9, <2>10 DEF TypeOK
<1>7. ASSUME NEW s \in Sessions, CommitFail(s) PROVE TypeInv'
  <2> DEFINE id == txn[s].id
             row == [event |-> id, replayed |-> FALSE]
  <2>1. id \in Ids
    BY <1>7 DEF CommitFail, WellFormed
  <2>2. row \in DlqRecords
    BY <2>1 DEF DlqRecords
  <2>3. dlq' = Append(dlq, row) /\ End(s)
    BY <1>7 DEF CommitFail
  <2>4. dlq \in Seq(DlqRecords) /\ Len(dlq) \in Nat
    BY LenProperties DEF TypeOK, DlqRecords
  <2>5. Len(dlq') = Len(dlq) + 1 /\ DlqKept
    BY <2>2, <2>3, <2>4, AppendProperties DEF DlqKept
  <2>10. /\ held' \in [Sessions -> SUBSET Locks]
         /\ txn' \in [Sessions -> Txns]
         /\ \A t \in Sessions : WellFormed(t)'
    BY <2>3, <2>5, EndType
  <2>6. status' \in [Events -> Statuses]
    BY <1>7 DEF CommitFail, TypeOK, Statuses
  <2>7. Len(dlq') <= MaxDeadLetters
    BY <1>7, <2>4, <2>5, ProcessingAssumption DEF CommitFail
  <2>8. QED
    BY <1>7, <2>5, <2>6, <2>7, <2>10 DEF CommitFail, TypeOK, DlqKept, DlqRecords
<1>8. ASSUME NEW s \in Sessions, LockDlq(s) PROVE TypeInv'
  <2>1. txn[s].row \in 1 .. MaxDeadLetters
    BY <1>8, ProcessingAssumption DEF LockDlq, WellFormed, TypeOK
  <2>2. held' \in [Sessions -> SUBSET Locks]
    BY <1>8, <2>1 DEF LockDlq, TypeOK, Locks
  <2>3. txn' \in [Sessions -> Txns]
    BY <1>8, ZenonT(20) DEF LockDlq, TypeOK, Txns
  <2>4. ASSUME NEW t \in Sessions PROVE WellFormed(t)'
    BY <1>8, <2>4 DEF LockDlq, TypeOK, WellFormed
  <2>5. QED
    BY <1>8, <2>2, <2>3, <2>4 DEF LockDlq, TypeOK
<1>9. ASSUME NEW s \in Sessions, CommitReplay(s) PROVE TypeInv'
  <2>1. txn[s].row \in 1 .. Len(dlq)
    BY <1>9 DEF CommitReplay, WellFormed
  <2>2. dlq' = [dlq EXCEPT ![txn[s].row].replayed = TRUE] /\ End(s)
    BY <1>9 DEF CommitReplay
  <2>3. Len(dlq') = Len(dlq) /\ DlqKept
    BY <1>9, ReplayRows DEF ReplayKeepsRows
  <2>4. /\ held' \in [Sessions -> SUBSET Locks]
        /\ txn' \in [Sessions -> Txns]
        /\ \A t \in Sessions : WellFormed(t)'
    BY <2>2, <2>3, EndType
  <2>5. status' \in [Events -> Statuses]
    BY <1>9 DEF CommitReplay, TypeOK, Statuses
  <2>6. QED
    BY <1>9, <2>3, <2>4, <2>5 DEF CommitReplay, TypeOK, DlqKept, DlqRecords
<1>10. ASSUME NEW s \in Sessions, Close(s) PROVE TypeInv'
  <2>1. End(s) /\ dlq' = dlq
    BY <1>10 DEF Close
  <2>2. /\ held' \in [Sessions -> SUBSET Locks]
        /\ txn' \in [Sessions -> Txns]
        /\ \A t \in Sessions : WellFormed(t)'
    BY <2>1, EndType, DlqUnchanged
  <2>3. QED
    BY <1>10, <2>2 DEF Close, TypeOK
<1>11. CASE UNCHANGED vars
  BY <1>11 DEF vars, TypeOK, WellFormed
<1>12. ASSUME NEW s \in Sessions, NEW i \in 1 .. Len(dlq), BeginReplay(s, i) PROVE TypeInv'
  <2>1. dlq[i].event \in Ids /\ i \in 0 .. MaxDeadLetters
    BY DlqRowType, ProcessingAssumption DEF DlqRecords
  <2>2. QED
    BY <1>2, <1>12, <2>1 DEF BeginReplay
<1>13. ASSUME NEW s \in Sessions, NEW id \in Deliverable,
              BeginProcess(s, id) \/ BeginFail(s, id)
       PROVE  TypeInv'
  <2>1. id \in Ids /\ 0 \in 0 .. MaxDeadLetters
    BY ProcessingAssumption DEF Deliverable
  <2>2. QED
    BY <1>2, <1>13, <2>1 DEF BeginProcess, BeginFail
<1>14. QED
  BY <1>1, <1>3, <1>4, <1>5, <1>6, <1>7, <1>8, <1>9, <1>10, <1>11, <1>12, <1>13 DEF Next

\* Every variable keeps its type, at any number of sessions, events and rows.
THEOREM TypeCorrect == Spec => []TypeOK
<1>1. Spec => []TypeInv
  BY TypeInit, TypeStep, PTL DEF Spec
<1>2. TypeInv => TypeOK
  BY DEF TypeInv
<1>3. QED
  BY <1>1, <1>2, PTL
----------------------------------------------------------------------------
(* What the row locks buy                                                  *)

Exclusive == \A s, t \in Sessions : s # t => held[s] \cap held[t] = {}

\* A session that passed LockEvent still sees the status it read.
OwnsEvent(s) ==
    txn[s].at \in {"event", "customer", "score", "dlq"} =>
        /\ txn[s].seen = StatusOf(txn[s].id)
        /\ txn[s].id \in Events => EventRow(txn[s].id) \in held[s]

\* One that passed LockCustomer still sees the customer and the aggregate.
OwnsCustomer(s) ==
    LET c == CustomerOf[txn[s].id] IN
    /\ txn[s].at \in {"customer", "score"} =>
        /\ txn[s].seen = "pending"
        /\ CustomerRow(c) \in held[s]
        /\ txn[s].active = profile[c].lastActive
    /\ txn[s].at = "score" => txn[s].read = engagement[c]

\* Locks are taken in the order event, then customer or dead letter.
HoldsInOrder(s) ==
    /\ txn[s].at \in {"idle", "begun"} => held[s] = {}
    /\ txn[s].at = "event" => held[s] \subseteq {EventRow(txn[s].id)}
    /\ txn[s].at \in {"customer", "score"} =>
            held[s] \subseteq {EventRow(txn[s].id), CustomerRow(CustomerOf[txn[s].id])}
    /\ txn[s].at = "dlq" => held[s] \subseteq {EventRow(txn[s].id), DlqRow(txn[s].row)}

\* Sessions and dead letters name events that exist.
NamesDurable(id) == id \in Events => status[id] # "absent"

LockInv ==
    /\ Exclusive
    /\ \A s \in Sessions : OwnsEvent(s) /\ OwnsCustomer(s) /\ HoldsInOrder(s)
    /\ \A s \in Sessions : txn[s].op # "idle" => NamesDurable(txn[s].id)
    /\ \A i \in 1 .. Len(dlq) : NamesDurable(dlq[i].event)

LEMMA LockInit == Init => LockInv
<1> SUFFICES ASSUME Init PROVE LockInv
  OBVIOUS
<1>1. \A s \in Sessions : held[s] = {} /\ txn[s] = Idle
  BY DEF Init
<1>2. Exclusive
  BY <1>1 DEF Exclusive
<1>3. Len(dlq) = 0
  BY DEF Init
<1>4. \A s \in Sessions : txn[s].at = "idle" /\ txn[s].op = "idle"
  BY <1>1 DEF Idle
<1>5. \A s \in Sessions : OwnsEvent(s) /\ OwnsCustomer(s) /\ HoldsInOrder(s)
  BY <1>1, <1>4 DEF OwnsEvent, OwnsCustomer, HoldsInOrder
<1>6. QED
  BY <1>2, <1>3, <1>4, <1>5 DEF LockInv

\* A session that writes only rows it locked, and ends, disturbs no other.
LEMMA EndLocks ==
    ASSUME TypeInv, LockInv, NEW s \in Sessions, End(s),
           \A e \in Events : status'[e] # status[e] =>
                EventRow(e) \in held[s] /\ status'[e] # "absent",
           \A c \in Customers :
                (engagement'[c] # engagement[c] \/ profile'[c] # profile[c]) =>
                    CustomerRow(c) \in held[s],
           (\A i \in 1 .. Len(dlq) : NamesDurable(dlq[i].event))'
    PROVE  LockInv'
<1>1. /\ held'[s] = {} /\ txn'[s] = Idle
      /\ \A t \in Sessions \ {s} : held'[t] = held[t] /\ txn'[t] = txn[t]
  BY DEF TypeInv, TypeOK, End
<1>2. Exclusive'
  BY <1>1 DEF LockInv, Exclusive
<1>3. \A id : NamesDurable(id) => NamesDurable(id)'
  BY DEF NamesDurable
<1>4. ASSUME NEW t \in Sessions
      PROVE  /\ OwnsEvent(t)' /\ OwnsCustomer(t)' /\ HoldsInOrder(t)'
             /\ txn'[t].op # "idle" => NamesDurable(txn[t].id)'
  <2>1. CASE t = s
    <3>1. txn'[t].at = "idle" /\ txn'[t].op = "idle" /\ held'[t] = {}
      BY <1>1, <2>1 DEF Idle
    <3>2. QED
      BY <3>1 DEF OwnsEvent, OwnsCustomer, HoldsInOrder
  <2>2. CASE t # s
    <3>1. txn'[t] = txn[t] /\ held'[t] = held[t] /\ held[s] \cap held[t] = {}
      BY <1>1, <2>2 DEF LockInv, Exclusive
    <3>2. OwnsEvent(t) /\ OwnsCustomer(t) /\ HoldsInOrder(t) /\ WellFormed(t)
      BY DEF LockInv, TypeInv
    <3>3. OwnsEvent(t)'
      BY <3>1, <3>2 DEF OwnsEvent, StatusOf
    <3>4. HoldsInOrder(t)'
      BY <3>1, <3>2 DEF HoldsInOrder
    <3>5. OwnsCustomer(t)'
      <4>1. CASE txn[t].at \in {"customer", "score"}
        <5>1. CustomerOf[txn[t].id] \in Customers
          BY <3>2, <4>1, ProcessingAssumption DEF WellFormed
        <5>2. /\ engagement'[CustomerOf[txn[t].id]] = engagement[CustomerOf[txn[t].id]]
              /\ profile'[CustomerOf[txn[t].id]] = profile[CustomerOf[txn[t].id]]
          BY <3>1, <3>2, <4>1, <5>1 DEF OwnsCustomer
        <5>3. QED
          BY <3>1, <3>2, <4>1, <5>2 DEF OwnsCustomer
      <4>2. CASE txn[t].at \notin {"customer", "score"}
        BY <3>1, <4>2 DEF OwnsCustomer
      <4>3. QED
        BY <4>1, <4>2
    <3>6. txn'[t].op # "idle" => NamesDurable(txn[t].id)'
      BY <1>3, <3>1 DEF LockInv
    <3>7. QED
      BY <3>3, <3>4, <3>5, <3>6
  <2>3. QED
    BY <2>1, <2>2
<1>5. QED
  BY <1>2, <1>4 DEF LockInv

\* A session that only reads, and locks rows that are free, disturbs no other.
LEMMA ReadLocks ==
    ASSUME TypeInv, LockInv, NEW s \in Sessions,
           UNCHANGED <<status, engagement, profile, dlq>>,
           held' = [held EXCEPT ![s] = held'[s]],
           txn' = [txn EXCEPT ![s] = txn'[s]],
           \A t \in Sessions \ {s} : held'[s] \cap held[t] = {},
           OwnsEvent(s)', OwnsCustomer(s)', HoldsInOrder(s)',
           txn'[s].op # "idle" => NamesDurable(txn[s].id)'
    PROVE  LockInv'
<1>1. \A t \in Sessions \ {s} : held'[t] = held[t] /\ txn'[t] = txn[t]
  BY DEF TypeInv, TypeOK
<1>2. Exclusive'
  BY <1>1 DEF LockInv, Exclusive
<1>3. ASSUME NEW t \in Sessions \ {s}
      PROVE  /\ OwnsEvent(t)' /\ OwnsCustomer(t)' /\ HoldsInOrder(t)'
             /\ txn'[t].op # "idle" => NamesDurable(txn[t].id)'
  BY <1>1 DEF LockInv, OwnsEvent, OwnsCustomer, HoldsInOrder, StatusOf, NamesDurable
<1>4. (\A i \in 1 .. Len(dlq) : NamesDurable(dlq[i].event))'
  BY DEF LockInv, NamesDurable
<1>5. QED
  BY <1>2, <1>3, <1>4 DEF LockInv

LEMMA LockStep == TypeInv /\ LockInv /\ [Next]_vars => LockInv'
<1> SUFFICES ASSUME TypeInv, LockInv, [Next]_vars PROVE LockInv'
  OBVIOUS
<1>0. ASSUME NEW s \in Sessions
      PROVE  /\ OwnsEvent(s) /\ OwnsCustomer(s) /\ HoldsInOrder(s) /\ WellFormed(s)
             /\ txn[s] \in Txns /\ held[s] \in SUBSET Locks
  BY DEF LockInv, TypeInv, TypeOK
<1>1. ASSUME NEW e \in Events, Ingest(e) PROVE LockInv'
  <2>1. status[e] = "absent" /\ status' = [status EXCEPT ![e] = "pending"]
        /\ UNCHANGED <<engagement, profile, dlq, held, txn>>
    BY <1>1 DEF Ingest
  <2>2. \A id : NamesDurable(id) => NamesDurable(id)'
    BY <2>1 DEF NamesDurable, TypeInv, TypeOK
  <2>3. ASSUME NEW s \in Sessions PROVE OwnsEvent(s)'
    <3>1. CASE txn[s].op = "idle"
      BY <1>0, <2>1, <3>1 DEF OwnsEvent, WellFormed
    <3>2. CASE txn[s].op # "idle"
      <4>1. txn[s].id # e
        BY <2>1, <3>2 DEF LockInv, NamesDurable
      <4>2. QED
        BY <1>0, <2>1, <4>1 DEF OwnsEvent, StatusOf, TypeInv, TypeOK
    <3>3. QED
      BY <3>1, <3>2
  <2>4. ASSUME NEW s \in Sessions PROVE OwnsCustomer(s)' /\ HoldsInOrder(s)'
    BY <1>0, <2>1 DEF OwnsCustomer, HoldsInOrder
  <2>5. Exclusive'
    BY <2>1 DEF LockInv, Exclusive
  <2>6. /\ (\A s \in Sessions : txn[s].op # "idle" => NamesDurable(txn[s].id))'
        /\ (\A i \in 1 .. Len(dlq) : NamesDurable(dlq[i].event))'
    BY <2>1, <2>2 DEF LockInv
  <2>7. QED
    BY <2>3, <2>4, <2>5, <2>6 DEF LockInv
<1>2. ASSUME NEW s \in Sessions, NEW op, NEW id, NEW row, op # "idle",
             NamesDurable(id), Begin(s, op, id, row)
      PROVE  LockInv'
  <2>1. /\ txn[s].at = "idle" /\ held[s] = {}
        /\ UNCHANGED <<status, engagement, profile, dlq, held>>
    BY <1>0, <1>2 DEF Begin, WellFormed, HoldsInOrder
  <2>2. /\ txn' = [txn EXCEPT ![s] = txn'[s]]
        /\ txn'[s].at = "begun" /\ txn'[s].id = id
    BY <1>2 DEF Begin, Idle, TypeInv, TypeOK
  <2>3. held' = [held EXCEPT ![s] = held'[s]] /\ held'[s] = {}
    BY <2>1 DEF TypeInv, TypeOK
  <2>4. OwnsEvent(s)' /\ OwnsCustomer(s)' /\ HoldsInOrder(s)'
    BY <2>2, <2>3 DEF OwnsEvent, OwnsCustomer, HoldsInOrder
  <2>5. NamesDurable(txn[s].id)'
    BY <1>2, <2>1, <2>2 DEF NamesDurable
  <2>6. QED
    BY <2>1, <2>2, <2>3, <2>4, <2>5, ReadLocks
<1>3. ASSUME NEW s \in Sessions, LockEvent(s) PROVE LockInv'
  <2> DEFINE id == txn[s].id
  <2>1. /\ txn[s].at = "begun" /\ held[s] = {} /\ txn[s].op # "idle"
        /\ UNCHANGED <<status, engagement, profile, dlq>>
    BY <1>0, <1>3 DEF LockEvent, HoldsInOrder, WellFormed
  <2>2. /\ txn' = [txn EXCEPT ![s] = txn'[s]]
        /\ txn'[s].at = "event" /\ txn'[s].id = id /\ txn'[s].seen = StatusOf(id)
        /\ txn'[s].op = txn[s].op
    BY <1>0, <1>3 DEF LockEvent, TypeInv, TypeOK, Txns
  <2>3. /\ held' = [held EXCEPT ![s] = held'[s]]
        /\ held'[s] = IF Durable(id) THEN {EventRow(id)} ELSE {}
    BY <1>3, <2>1 DEF LockEvent, TypeInv, TypeOK
  <2>4. \A t \in Sessions \ {s} : held'[s] \cap held[t] = {}
    BY <1>3, <2>3 DEF LockEvent, Free
  <2>5. id \in Events => Durable(id)
    BY <2>1 DEF LockInv, NamesDurable, Durable, StatusOf
  <2>6. OwnsEvent(s)' /\ OwnsCustomer(s)' /\ HoldsInOrder(s)'
    BY <2>1, <2>2, <2>3, <2>5 DEF OwnsEvent, OwnsCustomer, HoldsInOrder, StatusOf
  <2>7. NamesDurable(txn[s].id)'
    BY <2>1, <2>2 DEF LockInv, NamesDurable
  <2>8. QED
    BY <2>1, <2>2, <2>3, <2>4, <2>6, <2>7, ReadLocks
<1>4. ASSUME NEW s \in Sessions, LockCustomer(s) PROVE LockInv'
  <2> DEFINE id == txn[s].id
             c == CustomerOf[id]
  <2>1. /\ txn[s].at = "event" /\ txn[s].op = "process"
        /\ txn[s].seen \notin Terminal \cup {"absent"}
        /\ UNCHANGED <<status, engagement, profile, dlq>>
    BY <1>4 DEF LockCustomer
  <2>2. /\ txn[s].seen = "pending" /\ id \in Events /\ txn[s].seen = StatusOf(id)
        /\ EventRow(id) \in held[s] /\ held[s] \subseteq {EventRow(id)}
    BY <1>0, <2>1 DEF Txns, Statuses, Terminal, WellFormed, OwnsEvent, HoldsInOrder
  <2>3. /\ txn' = [txn EXCEPT ![s] = txn'[s]]
        /\ txn'[s].at = "customer" /\ txn'[s].id = id /\ txn'[s].seen = txn[s].seen
        /\ txn'[s].op = txn[s].op /\ txn'[s].active = profile[c].lastActive
    BY <1>0, <1>4 DEF LockCustomer, TypeInv, TypeOK, Txns
  <2>4. /\ held' = [held EXCEPT ![s] = held'[s]]
        /\ held'[s] = held[s] \cup {CustomerRow(c)}
    BY <1>4 DEF LockCustomer, TypeInv, TypeOK
  <2>5. \A t \in Sessions \ {s} : held'[s] \cap held[t] = {}
    BY <1>4, <2>4 DEF LockCustomer, Free, LockInv, Exclusive
  <2>6. OwnsEvent(s)' /\ OwnsCustomer(s)' /\ HoldsInOrder(s)'
    BY <2>1, <2>2, <2>3, <2>4 DEF OwnsEvent, OwnsCustomer, HoldsInOrder, StatusOf
  <2>7. NamesDurable(txn[s].id)'
    BY <2>1, <2>3 DEF LockInv, NamesDurable
  <2>8. QED
    BY <2>1, <2>3, <2>4, <2>5, <2>6, <2>7, ReadLocks
<1>5. ASSUME NEW s \in Sessions, ReadScore(s) PROVE LockInv'
  <2>1. /\ txn[s].at = "customer" /\ txn[s].op = "process"
        /\ UNCHANGED <<status, engagement, profile, dlq, held>>
    BY <1>5 DEF ReadScore
  <2>2. /\ txn' = [txn EXCEPT ![s] = txn'[s]]
        /\ txn'[s].at = "score" /\ txn'[s].id = txn[s].id /\ txn'[s].seen = txn[s].seen
        /\ txn'[s].op = txn[s].op /\ txn'[s].active = txn[s].active
        /\ txn'[s].read = engagement[CustomerOf[txn[s].id]]
    BY <1>0, <1>5 DEF ReadScore, TypeInv, TypeOK, Txns
  <2>3. held' = [held EXCEPT ![s] = held'[s]] /\ held'[s] = held[s]
    BY <2>1 DEF TypeInv, TypeOK
  <2>4. \A t \in Sessions \ {s} : held'[s] \cap held[t] = {}
    BY <2>3 DEF LockInv, Exclusive
  <2>5. OwnsEvent(s)' /\ OwnsCustomer(s)' /\ HoldsInOrder(s)'
    BY <1>0, <2>1, <2>2, <2>3 DEF OwnsEvent, OwnsCustomer, HoldsInOrder, StatusOf
  <2>6. NamesDurable(txn[s].id)'
    BY <2>1, <2>2 DEF LockInv, NamesDurable
  <2>7. QED
    BY <2>1, <2>2, <2>3, <2>4, <2>5, <2>6, ReadLocks
<1>6. ASSUME NEW s \in Sessions, CommitProcess(s) PROVE LockInv'
  <2> DEFINE e == txn[s].id
  <2>1. /\ e \in Events /\ EventRow(e) \in held[s] /\ CustomerRow(CustomerOf[e]) \in held[s]
        /\ UNCHANGED dlq /\ End(s)
    BY <1>0, <1>6 DEF CommitProcess, WellFormed, OwnsEvent, OwnsCustomer
  <2>2. \A x \in Events : status'[x] # status[x] =>
            EventRow(x) \in held[s] /\ status'[x] # "absent"
    BY <1>6, <2>1 DEF CommitProcess, TypeInv, TypeOK
  <2>3. \A c \in Customers :
            (engagement'[c] # engagement[c] \/ profile'[c] # profile[c]) =>
                CustomerRow(c) \in held[s]
    BY <1>6, <2>1 DEF CommitProcess, TypeInv, TypeOK
  <2>4. (\A i \in 1 .. Len(dlq) : NamesDurable(dlq[i].event))'
    BY <2>1, <2>2 DEF LockInv, NamesDurable
  <2>5. QED
    BY <2>1, <2>2, <2>3, <2>4, EndLocks
<1>7. ASSUME NEW s \in Sessions, CommitFail(s) PROVE LockInv'
  <2> DEFINE id == txn[s].id
             row == [event |-> id, replayed |-> FALSE]
  <2>1. /\ txn[s].seen = StatusOf(id)
        /\ id \in Events => EventRow(id) \in held[s]
        /\ txn[s].op # "idle" /\ End(s) /\ UNCHANGED <<engagement, profile>>
        /\ dlq' = Append(dlq, row)
    BY <1>0, <1>7 DEF CommitFail, OwnsEvent
  <2>2. NamesDurable(id)
    BY <2>1 DEF LockInv
  <2>3. txn[s].seen = "absent" => id \notin Events
    BY <2>1, <2>2 DEF NamesDurable, StatusOf
  <2>4. txn[s].seen # "absent" => id \in Events
    BY <1>0 DEF WellFormed
  <2>5. \A x \in Events : status'[x] # status[x] =>
            EventRow(x) \in held[s] /\ status'[x] # "absent"
    BY <1>7, <2>1, <2>4 DEF CommitFail, TypeInv, TypeOK
  <2>6. \A x : NamesDurable(x) => NamesDurable(x)'
    BY <2>5 DEF NamesDurable
  <2>7. ASSUME NEW i \in 1 .. Len(dlq') PROVE NamesDurable(dlq[i].event)'
    <3>1. id \in Ids
      BY <1>0, <2>1 DEF WellFormed
    <3>2. row \in DlqRecords /\ dlq \in Seq(DlqRecords) /\ Len(dlq) \in Nat
      BY <3>1, LenProperties DEF TypeInv, TypeOK, DlqRecords
    <3>3. (i \in 1 .. Len(dlq) /\ dlq'[i] = dlq[i]) \/ dlq'[i] = row
      <4> HIDE DEF row
      <4> QED
        BY <2>1, <3>2, AppendProperties
    <3>4. CASE i \in 1 .. Len(dlq) /\ dlq'[i] = dlq[i]
      BY <2>6, <3>4 DEF LockInv
    <3>5. CASE dlq'[i] = row
      BY <2>2, <2>6, <3>5
    <3>6. QED
      BY <3>3, <3>4, <3>5
  <2>8. QED
    BY <2>1, <2>5, <2>7, EndLocks
<1>8. ASSUME NEW s \in Sessions, LockDlq(s) PROVE LockInv'
  <2> DEFINE id == txn[s].id
             row == txn[s].row
  <2>1. /\ txn[s].at = "event" /\ txn[s].op = "replay"
        /\ UNCHANGED <<status, engagement, profile, dlq>>
    BY <1>8 DEF LockDlq
  <2>2. /\ txn[s].seen = StatusOf(id) /\ held[s] \subseteq {EventRow(id)}
        /\ id \in Events => EventRow(id) \in held[s]
    BY <1>0, <2>1 DEF OwnsEvent, HoldsInOrder
  <2>3. /\ txn' = [txn EXCEPT ![s] = txn'[s]]
        /\ txn'[s].at = "dlq" /\ txn'[s].id = id /\ txn'[s].seen = txn[s].seen
        /\ txn'[s].op = txn[s].op /\ txn'[s].row = row
    BY <1>0, <1>8 DEF LockDlq, TypeInv, TypeOK, Txns
  <2>4. /\ held' = [held EXCEPT ![s] = held'[s]]
        /\ held'[s] = held[s] \cup {DlqRow(row)}
    BY <1>8 DEF LockDlq, TypeInv, TypeOK
  <2>5. \A t \in Sessions \ {s} : held'[s] \cap held[t] = {}
    BY <1>8, <2>4 DEF LockDlq, Free, LockInv, Exclusive
  <2>6. OwnsEvent(s)' /\ OwnsCustomer(s)' /\ HoldsInOrder(s)'
    BY <2>1, <2>2, <2>3, <2>4 DEF OwnsEvent, OwnsCustomer, HoldsInOrder, StatusOf
  <2>7. NamesDurable(txn[s].id)'
    BY <2>1, <2>3 DEF LockInv, NamesDurable
  <2>8. QED
    BY <2>1, <2>3, <2>4, <2>5, <2>6, <2>7, ReadLocks
<1>9. ASSUME NEW s \in Sessions, CommitReplay(s) PROVE LockInv'
  <2> DEFINE e == txn[s].id
  <2>1. e \in Events /\ EventRow(e) \in held[s] /\ End(s) /\ UNCHANGED <<engagement, profile>>
    BY <1>0, <1>9 DEF CommitReplay, WellFormed, OwnsEvent
  <2>2. \A x \in Events : status'[x] # status[x] =>
            EventRow(x) \in held[s] /\ status'[x] # "absent"
    BY <1>9, <2>1 DEF CommitReplay, TypeInv, TypeOK
  <2>3. \A x : NamesDurable(x) => NamesDurable(x)'
    BY <2>2 DEF NamesDurable
  <2>4. ReplayKeepsRows(s)
    BY <1>9, ReplayRows
  <2>5. (\A i \in 1 .. Len(dlq) : NamesDurable(dlq[i].event))'
    BY <2>3, <2>4 DEF LockInv, ReplayKeepsRows
  <2>6. QED
    BY <2>1, <2>2, <2>5, EndLocks
<1>10. ASSUME NEW s \in Sessions, Close(s) PROVE LockInv'
  <2>1. End(s) /\ UNCHANGED <<status, engagement, profile, dlq>>
    BY <1>10 DEF Close
  <2>2. (\A i \in 1 .. Len(dlq) : NamesDurable(dlq[i].event))'
    BY <2>1 DEF LockInv, NamesDurable
  <2>3. QED
    BY <2>1, <2>2, EndLocks
<1>11. CASE UNCHANGED vars
  BY <1>11 DEF vars, LockInv, Exclusive, OwnsEvent, OwnsCustomer, HoldsInOrder,
               NamesDurable, StatusOf
<1>12. ASSUME NEW s \in Sessions, NEW i \in 1 .. Len(dlq), BeginReplay(s, i) PROVE LockInv'
  <2>1. NamesDurable(dlq[i].event)
    BY DEF LockInv
  <2>2. QED
    BY <1>2, <1>12, <2>1 DEF BeginReplay
<1>13. ASSUME NEW s \in Sessions, NEW id \in Deliverable,
              BeginProcess(s, id) \/ BeginFail(s, id)
       PROVE  LockInv'
  <2>1. NamesDurable(id)
    BY DEF Deliverable, Durable, StatusOf, NamesDurable
  <2>2. QED
    BY <1>2, <1>13, <2>1 DEF BeginProcess, BeginFail
<1>14. QED
  BY <1>1, <1>3, <1>4, <1>5, <1>6, <1>7, <1>8, <1>9, <1>10, <1>11, <1>12, <1>13 DEF Next

\* The induction that every further theorem starts from.
LEMMA Locking == Spec => [](TypeInv /\ LockInv)
<1>1. Init => TypeInv /\ LockInv
  BY TypeInit, LockInit
<1>2. TypeInv /\ LockInv /\ [Next]_vars => (TypeInv /\ LockInv)'
  BY TypeStep, LockStep
<1>3. QED
  BY <1>1, <1>2, PTL DEF Spec

----------------------------------------------------------------------------
(* No circle of waiting sessions                                           *)

\* How far a session is in the lock order.
Rank(s) == IF txn[s].at \in {"idle", "begun"} THEN 0
           ELSE IF txn[s].at = "event" THEN 1 ELSE 2

\* Whoever holds a row is further in the lock order than whoever waits for it.
LEMMA WaitsUpward ==
    ASSUME TypeInv, LockInv, NEW s \in Sessions, NEW t \in Sessions, WaitsFor(s, t)
    PROVE  Rank(s) < Rank(t)
<1> DEFINE id == txn[t].id
<1>1. /\ held[t] \subseteq {EventRow(id), CustomerRow(CustomerOf[id]), DlqRow(txn[t].row)}
      /\ Rank(t) = 0 => held[t] = {}
      /\ Rank(t) = 1 => held[t] \subseteq {EventRow(id)}
  BY DEF LockInv, HoldsInOrder, Rank, TypeInv, TypeOK, Txns
<1>2. PICK lock : lock \in Wanted(s) /\ lock \in held[t]
  BY DEF WaitsFor
<1>3. Rank(t) \in {1, 2}
  BY <1>1, <1>2 DEF Rank
<1>4. CASE txn[s].at = "begun"
  BY <1>3, <1>4 DEF Rank
<1>5. CASE txn[s].at = "event"
  <2>1. \E x : lock = CustomerRow(x) \/ lock = DlqRow(x)
    BY <1>2, <1>5 DEF Wanted
  <2>2. lock # EventRow(id)
    BY <2>1 DEF CustomerRow, DlqRow, EventRow
  <2>3. QED
    BY <1>1, <1>2, <1>3, <1>5, <2>2 DEF Rank
<1>6. CASE txn[s].at \notin {"begun", "event"}
  BY <1>2, <1>6 DEF Wanted
<1>7. QED
  BY <1>4, <1>5, <1>6

\* The database never has to abort a transaction for a deadlock: all writers
\* lock the event, then the customer or the dead letter.
THEOREM LockOrder == Spec => []NoLockCycle
<1>1. TypeInv /\ LockInv => NoLockCycle
  <2> SUFFICES ASSUME TypeInv, LockInv, NEW waiting \in SUBSET Sessions, waiting # {}
               PROVE  \E s \in waiting : \A t \in waiting : ~WaitsFor(s, t)
    BY DEF NoLockCycle
  <2>1. \A s \in waiting : Rank(s) \in {0, 1, 2}
    BY DEF Rank
  <2>2. PICK s \in waiting : \A t \in waiting : ~(Rank(s) < Rank(t))
    <3>1. CASE \E s \in waiting : Rank(s) = 2
      BY <2>1, <3>1
    <3>2. CASE (\A s \in waiting : Rank(s) # 2) /\ \E s \in waiting : Rank(s) = 1
      BY <2>1, <3>2
    <3>3. CASE \A s \in waiting : Rank(s) = 0
      BY <3>3
    <3>4. QED
      BY <2>1, <3>1, <3>2, <3>3
  <2>3. QED
    BY <2>2, WaitsUpward
<1>2. QED
  BY <1>1, Locking, PTL
=============================================================================
