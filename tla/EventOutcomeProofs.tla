-------------------------- MODULE EventOutcomeProofs --------------------------
(***************************************************************************)
(* What becomes of an event, proved from the lock invariant of             *)
(* EventProcessingProofs: it is processed once and for all, counted once,  *)
(* reflected in its customer's profile and score, and replayable exactly   *)
(* while it is failed. An observer of committed data sees EventLifecycle.  *)
(***************************************************************************)
EXTENDS EventProcessingProofs

Safe == TypeInv /\ LockInv

\* A step that commits no processing: scores, profiles and the set of
\* processed events stay.
Quiet ==
    /\ UNCHANGED <<engagement, profile>>
    /\ \A e \in Events : status'[e] = "processed" <=> status[e] = "processed"

\* CommitProcess applies a pending event to what is still the aggregate and
\* the profile of its customer, and touches no other row.
AppliesOnce(s) ==
    LET e == txn[s].id
        c == CustomerOf[e]
    IN
    /\ e \in Events
    /\ c \in Customers
    /\ status[e] = "pending"
    /\ status' = [status EXCEPT ![e] = "processed"]
    /\ engagement' = [engagement EXCEPT ![c] = Scored(e, @)]
    /\ profile' = [profile EXCEPT ![c] = Profiled(e, @.lastActive, @)]
    /\ UNCHANGED dlq

LEMMA ProcessingApplies ==
    ASSUME Safe, NEW s \in Sessions, CommitProcess(s)
    PROVE  AppliesOnce(s)
<1> DEFINE e == txn[s].id
           c == CustomerOf[e]
<1>1. /\ e \in Events /\ txn[s].seen = StatusOf(e) /\ txn[s].seen = "pending"
      /\ txn[s].active = profile[c].lastActive /\ txn[s].read = engagement[c]
  BY DEF CommitProcess, Safe, TypeInv, LockInv, WellFormed, OwnsEvent, OwnsCustomer
<1>2. c \in Customers
  BY <1>1, ProcessingAssumption
<1>3. engagement' = [engagement EXCEPT ![c] = Scored(e, @)]
  BY <1>1 DEF CommitProcess
<1>4. profile' = [profile EXCEPT ![c] = Profiled(e, @.lastActive, @)]
  BY <1>1 DEF CommitProcess
<1>5. QED
  BY <1>1, <1>2, <1>3, <1>4 DEF CommitProcess, AppliesOnce, StatusOf

\* A failure only ever hits an event that is still pending, or no event.
LEMMA FailureHitsPending ==
    ASSUME Safe, NEW s \in Sessions, CommitFail(s)
    PROVE  /\ txn[s].id \in Ids
           /\ txn[s].id \in Events => /\ status[txn[s].id] = "pending"
                                      /\ status' = [status EXCEPT ![txn[s].id] = "failed"]
           /\ txn[s].id \notin Events => status' = status
<1>1. /\ txn[s].op # "idle" /\ txn[s].seen = StatusOf(txn[s].id) /\ txn[s].seen \notin Terminal
      /\ WellFormed(s)
  BY DEF CommitFail, Safe, TypeInv, LockInv, OwnsEvent
<1>2. txn[s].id \in Ids /\ NamesDurable(txn[s].id)
  BY <1>1 DEF Safe, LockInv, WellFormed
<1>3. CASE txn[s].id \in Events
  <2>1. status[txn[s].id] \in Statuses /\ txn[s].seen = status[txn[s].id]
        /\ status[txn[s].id] # "absent"
    BY <1>1, <1>2, <1>3 DEF Safe, TypeInv, TypeOK, StatusOf, NamesDurable
  <2>2. QED
    BY <1>1, <1>2, <1>3, <2>1 DEF CommitFail, Statuses, Terminal
<1>4. CASE txn[s].id \notin Events
  BY <1>1, <1>2, <1>4 DEF CommitFail, StatusOf
<1>5. QED
  BY <1>3, <1>4

\* A replay only ever hits an event that is still failed.
LEMMA ReplayHitsFailed ==
    ASSUME Safe, NEW s \in Sessions, CommitReplay(s)
    PROVE  /\ txn[s].id \in Events
           /\ status[txn[s].id] = "failed"
           /\ status' = [status EXCEPT ![txn[s].id] = "pending"]
           /\ dlq[txn[s].row].event = txn[s].id
<1>1. txn[s].seen = "failed" /\ txn[s].seen = StatusOf(txn[s].id) /\ WellFormed(s)
  BY DEF CommitReplay, Safe, TypeInv, LockInv, OwnsEvent
<1>2. txn[s].id \in Events
  BY <1>1 DEF WellFormed
<1>3. QED
  BY <1>1, <1>2 DEF CommitReplay, StatusOf, WellFormed

\* Every step either processes one event, or nobody.
LEMMA OnlyProcessingProcesses ==
    ASSUME Safe, [Next]_vars
    PROVE  Quiet \/ \E s \in Sessions : CommitProcess(s)
<1>1. ASSUME NEW e \in Events, Ingest(e) PROVE Quiet
  BY <1>1 DEF Ingest, Quiet, Safe, TypeInv, TypeOK
<1>2. ASSUME NEW s \in Sessions, CommitFail(s) PROVE Quiet
  <2>1. UNCHANGED <<engagement, profile>>
    BY <1>2 DEF CommitFail
  <2>2. QED
    BY <1>2, <2>1, FailureHitsPending DEF Quiet, Safe, TypeInv, TypeOK
<1>3. ASSUME NEW s \in Sessions, CommitReplay(s) PROVE Quiet
  <2>1. UNCHANGED <<engagement, profile>>
    BY <1>3 DEF CommitReplay
  <2>2. QED
    BY <1>3, <2>1, ReplayHitsFailed DEF Quiet, Safe, TypeInv, TypeOK
<1>4. ASSUME UNCHANGED <<status, engagement, profile>> PROVE Quiet
  BY <1>4 DEF Quiet
<1>5. QED
  BY <1>1, <1>2, <1>3, <1>4
     DEF Next, vars, BeginProcess, BeginFail, BeginReplay, Begin, LockEvent,
         LockCustomer, ReadScore, LockDlq, Close

----------------------------------------------------------------------------
\* A processed event is never touched again: a late failure, a duplicate
\* delivery or a replay finds it settled, under the lock of its row.
THEOREM ProcessingIsFinal == Spec => ProcessedIsFinal
<1>1. Safe /\ [Next]_vars =>
        [\A e \in Events : status[e] = "processed" => status'[e] = "processed"]_vars
  <2> SUFFICES ASSUME Safe, [Next]_vars, NEW e \in Events, status[e] = "processed"
               PROVE  status'[e] = "processed"
    OBVIOUS
  <2>1. CASE Quiet
    BY <2>1 DEF Quiet
  <2>2. CASE \E s \in Sessions : CommitProcess(s)
    BY <2>2, ProcessingApplies DEF AppliesOnce, Safe, TypeInv, TypeOK
  <2>3. QED
    BY <2>1, <2>2, OnlyProcessingProcesses
<1>2. QED
  BY <1>1, Locking, PTL DEF Spec, Safe, ProcessedIsFinal

----------------------------------------------------------------------------
(* The aggregate counts each processed event once                          *)

LEMMA ProcessedFinite == \A c : IsFiniteSet(Processed(c))
<1>1. \A c : Processed(c) \subseteq Events
  BY DEF Processed
<1>2. QED
  BY <1>1, FS_Subset, ProcessingAssumption

\* Processing adds its event to its customer's processed events, where it was
\* not before, and leaves the other customers'.
LEMMA ProcessingAdds ==
    ASSUME Safe, NEW s \in Sessions, AppliesOnce(s), NEW e, e = txn[s].id
    PROVE  /\ e \notin Processed(CustomerOf[e])
           /\ Processed(CustomerOf[e])' = Processed(CustomerOf[e]) \cup {e}
           /\ \A c \in Customers :
                c # CustomerOf[e] => Processed(c)' = Processed(c)
<1>1. /\ e \in Events /\ status[e] = "pending" /\ CustomerOf[e] \in Customers
      /\ \A x \in Events : status'[x] = IF x = e THEN "processed" ELSE status[x]
  BY DEF AppliesOnce, Safe, TypeInv, TypeOK
<1>2. QED
  BY <1>1 DEF Processed

LEMMA ExactlyOnceStep == Safe /\ ExactlyOnce /\ [Next]_vars => ExactlyOnce'
<1> SUFFICES ASSUME Safe, ExactlyOnce, [Next]_vars, NEW c \in Customers
             PROVE  engagement'[c].count = Cardinality(Processed(c)')
  BY DEF ExactlyOnce
<1>1. engagement[c].count = Cardinality(Processed(c))
  BY DEF ExactlyOnce
<1>2. CASE Quiet
  <2>1. Processed(c)' = Processed(c)
    BY <1>2 DEF Quiet, Processed
  <2>2. QED
    BY <1>1, <1>2, <2>1 DEF Quiet
<1>3. CASE \E s \in Sessions : CommitProcess(s)
  <2>1. PICK s \in Sessions : AppliesOnce(s)
    BY <1>3, ProcessingApplies
  <2>4. PICK e : e = txn[s].id
    OBVIOUS
  <2>2. CASE c = CustomerOf[e]
    <3>1. engagement'[c].count = engagement[c].count + 1
      BY <2>1, <2>2, <2>4 DEF AppliesOnce, Scored, Counted, Safe, TypeInv, TypeOK
    <3>2. Processed(c)' = Processed(c) \cup {e} /\ e \notin Processed(c)
      BY <2>1, <2>2, <2>4, ProcessingAdds
    <3>3. Cardinality(Processed(c) \cup {e}) = Cardinality(Processed(c)) + 1
      BY <3>2, ProcessedFinite, FS_AddElement
    <3>4. QED
      BY <1>1, <3>1, <3>2, <3>3
  <2>3. CASE c # CustomerOf[e]
    <3>1. engagement'[c] = engagement[c]
      BY <2>1, <2>3, <2>4 DEF AppliesOnce, Safe, TypeInv, TypeOK
    <3>2. Processed(c)' = Processed(c)
      BY <2>1, <2>3, <2>4, ProcessingAdds
    <3>3. QED
      BY <1>1, <3>1, <3>2
  <2>5. QED
    BY <2>2, <2>3
<1>4. QED
  BY <1>2, <1>3, OnlyProcessingProcesses

\* SYSTEM_DESIGN 2.B: processing side effects occur strictly once, for any
\* number of deliveries, workers, retries and replays.
THEOREM StrictlyOnce == Spec => []ExactlyOnce
<1>1. Init => ExactlyOnce
  <2> SUFFICES ASSUME Init PROVE ExactlyOnce
    OBVIOUS
  <2>1. \A c : Processed(c) = {}
    BY DEF Init, Processed
  <2>2. QED
    BY <2>1, FS_EmptySet DEF Init, ExactlyOnce, NoEngagement
<1>2. QED
  BY <1>1, ExactlyOnceStep, Locking, PTL DEF Spec, Safe

----------------------------------------------------------------------------
(* Dead letters                                                            *)

\* Failing an event adds one row to replay, and to no other id.
LEMMA FailureOpensRow ==
    ASSUME Safe, NEW s \in Sessions, CommitFail(s), NEW id, id = txn[s].id
    PROVE  /\ \E n : n \notin OpenRows(id) /\ OpenRows(id)' = OpenRows(id) \cup {n}
           /\ \A x : x # id => OpenRows(x)' = OpenRows(x)
<1> DEFINE row == [event |-> id, replayed |-> FALSE]
           n == Len(dlq) + 1
<1>1. id \in Ids /\ dlq' = Append(dlq, row)
  BY FailureHitsPending DEF CommitFail
<1>2. row \in DlqRecords /\ dlq \in Seq(DlqRecords) /\ Len(dlq) \in Nat
  BY <1>1, LenProperties DEF Safe, TypeInv, TypeOK, DlqRecords
<1>3. /\ Len(dlq') = Len(dlq) + 1
      /\ \A i \in 1 .. Len(dlq) : dlq'[i] = dlq[i]
      /\ dlq'[n] = row
  <2> HIDE DEF row
  <2> QED
    BY <1>1, <1>2, AppendProperties
<1>4. row.event = id /\ row.replayed = FALSE
  OBVIOUS
<1>5. /\ OpenRows(id)' = OpenRows(id) \cup {n}
      /\ \A x : x # id => OpenRows(x)' = OpenRows(x)
  <2> HIDE DEF row
  <2>1. ASSUME NEW x, NEW i
        PROVE  i \in OpenRows(x)' <=> i \in OpenRows(x) \/ (x = id /\ i = n)
    <3>1. i \in 1 .. Len(dlq') <=> i \in 1 .. Len(dlq) \/ i = n
      BY <1>2, <1>3
    <3>2. n \notin 1 .. Len(dlq)
      BY <1>2
    <3>3. QED
      BY <1>3, <1>4, <3>1, <3>2 DEF OpenRows
  <2> HIDE DEF n
  <2>2. OpenRows(id)' = OpenRows(id) \cup {n}
    BY <2>1
  <2>3. ASSUME NEW x, x # id PROVE OpenRows(x)' = OpenRows(x)
    BY <2>1, <2>3
  <2>4. QED
    BY <2>2, <2>3
<1>6. n \notin OpenRows(id)
  BY <1>2 DEF OpenRows
<1>7. QED
  BY <1>5, <1>6

\* Replaying an event closes the row that was replayed, and no other.
LEMMA ReplayClosesRow ==
    ASSUME Safe, NEW s \in Sessions, CommitReplay(s), NEW id, id = txn[s].id,
           NEW row, row = txn[s].row
    PROVE  /\ row \in OpenRows(id)
           /\ OpenRows(id)' = OpenRows(id) \ {row}
           /\ \A x : x # id => OpenRows(x)' = OpenRows(x)
<1>1. /\ row \in 1 .. Len(dlq) /\ Len(dlq') = Len(dlq)
      /\ \A j \in 1 .. Len(dlq) :
            /\ dlq'[j].event = dlq[j].event
            /\ dlq'[j].replayed = IF j = row THEN TRUE ELSE dlq[j].replayed
  BY ReplayRows DEF ReplayKeepsRows, Safe
<1>2. dlq[row].event = id /\ ~dlq[row].replayed
  BY ReplayHitsFailed DEF CommitReplay
<1>3. ASSUME NEW x, NEW i
      PROVE  i \in OpenRows(x)' <=> i \in OpenRows(x) /\ i # row
  <2>1. CASE i \notin 1 .. Len(dlq)
    BY <1>1, <2>1 DEF OpenRows
  <2>2. CASE i \in 1 .. Len(dlq) /\ i = row
    <3>1. dlq'[i].replayed = TRUE
      BY <1>1, <2>2
    <3>2. i \notin OpenRows(x)'
      BY <3>1 DEF OpenRows
    <3>3. QED
      BY <2>2, <3>2
  <2>3. CASE i \in 1 .. Len(dlq) /\ i # row
    <3>1. dlq'[i].replayed = dlq[i].replayed /\ dlq'[i].event = dlq[i].event
      BY <1>1, <2>3
    <3>2. QED
      BY <1>1, <2>3, <3>1 DEF OpenRows
  <2>4. QED
    BY <2>1, <2>2, <2>3
<1>4. row \in OpenRows(id)
  BY <1>1, <1>2, Zenon DEF OpenRows
<1>5. \A x : x # id => row \notin OpenRows(x)
  BY <1>2 DEF OpenRows
<1>6. \A x : OpenRows(x)' = OpenRows(x) \ {row}
  BY <1>3
<1>7. QED
  BY <1>4, <1>5, <1>6

\* The steps that neither fail nor replay an event leave dlq_events alone, and
\* make no event failed or not failed any more.
LEMMA RowsStay ==
    ASSUME Safe, [Next]_vars, \A s \in Sessions : ~CommitFail(s) /\ ~CommitReplay(s)
    PROVE  /\ dlq' = dlq
           /\ \A e \in Events : status'[e] = "failed" <=> status[e] = "failed"
<1>1. ASSUME NEW e \in Events, Ingest(e)
      PROVE  dlq' = dlq /\ \A x \in Events : status'[x] = "failed" <=> status[x] = "failed"
  BY <1>1 DEF Ingest, Safe, TypeInv, TypeOK
<1>2. ASSUME NEW s \in Sessions, CommitProcess(s)
      PROVE  dlq' = dlq /\ \A x \in Events : status'[x] = "failed" <=> status[x] = "failed"
  BY <1>2, ProcessingApplies DEF AppliesOnce, Safe, TypeInv, TypeOK
<1>3. QED
  BY <1>1, <1>2
     DEF Next, vars, BeginProcess, BeginFail, BeginReplay, Begin, LockEvent,
         LockCustomer, ReadScore, LockDlq, Close

LEMMA DeadLetterStep == Safe /\ OneOpenDeadLetter /\ [Next]_vars => OneOpenDeadLetter'
<1> SUFFICES ASSUME Safe, OneOpenDeadLetter, [Next]_vars, NEW e \in Events
             PROVE  /\ OpenRows(e)' # {} <=> status'[e] = "failed"
                    /\ \A i, j \in OpenRows(e)' : i = j
  BY DEF OneOpenDeadLetter
<1>1. /\ OpenRows(e) # {} <=> status[e] = "failed"
      /\ \A i, j \in OpenRows(e) : i = j
  BY DEF OneOpenDeadLetter
<1>2. CASE \E s \in Sessions : CommitFail(s)
  <2>1. PICK s \in Sessions : CommitFail(s)
    BY <1>2
  <2>2. PICK id : id = txn[s].id
    OBVIOUS
  <2>3. CASE id = e
    <3>1. status[e] = "pending" /\ status'[e] = "failed"
      BY <2>1, <2>2, <2>3, FailureHitsPending DEF Safe, TypeInv, TypeOK
    <3>2. \E n : OpenRows(e)' = OpenRows(e) \cup {n}
      BY <2>1, <2>2, <2>3, FailureOpensRow
    <3>3. QED
      BY <1>1, <3>1, <3>2
  <2>4. CASE id # e
    <3>1. status'[e] = status[e]
      BY <2>1, <2>2, <2>4, FailureHitsPending DEF Safe, TypeInv, TypeOK
    <3>2. OpenRows(e)' = OpenRows(e)
      BY <2>1, <2>2, <2>4, FailureOpensRow
    <3>3. QED
      BY <1>1, <3>1, <3>2
  <2>5. QED
    BY <2>3, <2>4
<1>3. CASE \E s \in Sessions : CommitReplay(s)
  <2>1. PICK s \in Sessions : CommitReplay(s)
    BY <1>3
  <2>2. PICK id, row : id = txn[s].id /\ row = txn[s].row
    OBVIOUS
  <2>3. CASE id = e
    <3>1. status'[e] = "pending"
      BY <2>1, <2>2, <2>3, ReplayHitsFailed DEF Safe, TypeInv, TypeOK
    <3>2. row \in OpenRows(e) /\ OpenRows(e)' = OpenRows(e) \ {row}
      BY <2>1, <2>2, <2>3, ReplayClosesRow
    <3>3. QED
      BY <1>1, <3>1, <3>2
  <2>4. CASE id # e
    <3>1. status'[e] = status[e]
      BY <2>1, <2>2, <2>4, ReplayHitsFailed DEF Safe, TypeInv, TypeOK
    <3>2. OpenRows(e)' = OpenRows(e)
      BY <2>1, <2>2, <2>4, ReplayClosesRow
    <3>3. QED
      BY <1>1, <3>1, <3>2
  <2>5. QED
    BY <2>3, <2>4
<1>4. CASE \A s \in Sessions : ~CommitFail(s) /\ ~CommitReplay(s)
  <2>1. dlq' = dlq /\ (status'[e] = "failed" <=> status[e] = "failed")
    BY <1>4, RowsStay
  <2>2. OpenRows(e)' = OpenRows(e)
    BY <2>1 DEF OpenRows
  <2>3. QED
    BY <1>1, <2>1, <2>2
<1>5. QED
  BY <1>2, <1>3, <1>4

\* What an operator can replay is what did fail, once each: however failures,
\* replays and duplicate deliveries of an event interleave.
THEOREM ReplayableOnce == Spec => []OneOpenDeadLetter
<1>1. Init => OneOpenDeadLetter
  <2> SUFFICES ASSUME Init, NEW e \in Events
               PROVE  OpenRows(e) = {} /\ status[e] # "failed"
    BY DEF OneOpenDeadLetter
  <2>1. Len(dlq) = 0
    BY DEF Init
  <2>2. QED
    BY <2>1 DEF Init, OpenRows
<1>2. QED
  BY <1>1, DeadLetterStep, Locking, PTL DEF Spec, Safe

----------------------------------------------------------------------------
(* The customer's profile                                                  *)

Ages(c) == {TimeOf[e] : e \in Processed(c)} \cup {Never}
Bought(c) == \E e \in Processed(c) : KindOf[e] = "purchase"
Withdraws(e) == KindOf[e] \in {"unsubscribe", "complaint"} /\ ChannelOf[e] # "web"
Withdrawn(c) == {ChannelOf[e] : e \in {x \in Processed(c) : Withdraws(x)}}

\* ProfileMatchesHistory column by column, its maximum spelled out: as it
\* stands, it would not say that the maximum exists.
ProfileInv ==
    \A c \in Customers :
        /\ profile[c].lastActive \in Ages(c)
        /\ \A t \in Ages(c) : t <= profile[c].lastActive
        /\ profile[c].converted = Bought(c)
        /\ profile[c].optedOut = Withdrawn(c)

LEMMA AgesAreInts == \A c : Ages(c) \subseteq Int
BY ProcessingAssumption DEF Ages, Processed, Never, Times

LEMMA MaxIsGreatest ==
    ASSUME NEW S, S \subseteq Int, NEW m \in S, \A t \in S : t <= m
    PROVE  Max(S) = m
<1>1. \A t \in S : m >= t
  OBVIOUS
<1>2. Max(S) \in S /\ \A t \in S : Max(S) >= t
  BY <1>1 DEF Max
<1>3. Max(S) >= m /\ m >= Max(S) /\ m \in Int /\ Max(S) \in Int
  BY <1>1, <1>2
<1>4. QED
  BY <1>3

LEMMA ProfileStep == Safe /\ ProfileInv /\ [Next]_vars => ProfileInv'
<1> SUFFICES ASSUME Safe, ProfileInv, [Next]_vars, NEW c \in Customers
             PROVE  /\ profile'[c].lastActive \in Ages(c)'
                    /\ \A t \in Ages(c)' : t <= profile'[c].lastActive
                    /\ profile'[c].converted = Bought(c)'
                    /\ profile'[c].optedOut = Withdrawn(c)'
  BY DEF ProfileInv
<1>1. /\ profile[c].lastActive \in Ages(c)
      /\ \A t \in Ages(c) : t <= profile[c].lastActive
      /\ profile[c].converted = Bought(c)
      /\ profile[c].optedOut = Withdrawn(c)
  BY DEF ProfileInv
<1>2. ASSUME Processed(c)' = Processed(c), profile'[c] = profile[c]
      PROVE  /\ profile'[c].lastActive \in Ages(c)'
             /\ \A t \in Ages(c)' : t <= profile'[c].lastActive
             /\ profile'[c].converted = Bought(c)'
             /\ profile'[c].optedOut = Withdrawn(c)'
  <2>1. Ages(c)' = Ages(c) /\ Bought(c)' = Bought(c) /\ Withdrawn(c)' = Withdrawn(c)
    BY <1>2 DEF Ages, Bought, Withdrawn, Withdraws
  <2>2. QED
    BY <1>1, <1>2, <2>1
<1>3. CASE Quiet
  <2>1. Processed(c)' = Processed(c) /\ profile'[c] = profile[c]
    BY <1>3 DEF Quiet, Processed
  <2>2. QED
    BY <1>2, <2>1
<1>4. CASE \E s \in Sessions : CommitProcess(s)
  <2>1. PICK s \in Sessions : AppliesOnce(s)
    BY <1>4, ProcessingApplies
  <2>2. PICK e : e = txn[s].id
    OBVIOUS
  <2>3. CASE c # CustomerOf[e]
    <3>1. profile'[c] = profile[c]
      BY <2>1, <2>2, <2>3 DEF AppliesOnce, Safe, TypeInv, TypeOK
    <3>2. Processed(c)' = Processed(c)
      BY <2>1, <2>2, <2>3, ProcessingAdds
    <3>3. QED
      BY <1>2, <3>1, <3>2
  <2>4. CASE c = CustomerOf[e]
    <3>1. profile'[c] = Profiled(e, profile[c].lastActive, profile[c])
      BY <2>1, <2>2, <2>4 DEF AppliesOnce, Safe, TypeInv, TypeOK
    <3>2. Processed(c)' = Processed(c) \cup {e}
      BY <2>1, <2>2, <2>4, ProcessingAdds
    <3>3. Ages(c)' = Ages(c) \cup {TimeOf[e]}
      BY <3>2 DEF Ages
    <3>4. profile'[c].lastActive = Later(TimeOf[e], profile[c].lastActive)
      BY <3>1 DEF Profiled
    <3>5. TimeOf[e] \in Int /\ Ages(c) \subseteq Int
      BY <2>1, <2>2, AgesAreInts, ProcessingAssumption DEF AppliesOnce, Times
    <3>6. /\ profile'[c].lastActive \in Ages(c)'
          /\ \A t \in Ages(c)' : t <= profile'[c].lastActive
      BY <1>1, <3>3, <3>4, <3>5 DEF Later
    <3>7. profile'[c].converted = Bought(c)'
      <4>1. Bought(c)' <=> Bought(c) \/ KindOf[e] = "purchase"
        BY <3>2 DEF Bought
      <4>2. profile'[c].converted = (profile[c].converted \/ KindOf[e] = "purchase")
        BY <3>1 DEF Profiled
      <4>3. Bought(c)' = (Bought(c) \/ KindOf[e] = "purchase")
        BY <4>1, Zenon DEF Bought
      <4>4. (profile[c].converted \/ KindOf[e] = "purchase")
                = (Bought(c) \/ KindOf[e] = "purchase")
        BY <1>1, Zenon
      <4>5. QED
        BY <4>2, <4>3, <4>4, Zenon
    <3>8. profile'[c].optedOut = Withdrawn(c)'
      <4>1. CASE Withdraws(e)
        <5>1. profile'[c].optedOut = profile[c].optedOut \cup {ChannelOf[e]}
          BY <3>1, <4>1 DEF Profiled, Withdraws
        <5>2. Withdrawn(c)' = Withdrawn(c) \cup {ChannelOf[e]}
          BY <3>2, <4>1 DEF Withdrawn, Withdraws
        <5>3. QED
          BY <1>1, <5>1, <5>2
      <4>2. CASE ~Withdraws(e)
        <5>1. profile'[c].optedOut = profile[c].optedOut
          BY <3>1, <4>2 DEF Profiled, Withdraws
        <5>2. Withdrawn(c)' = Withdrawn(c)
          BY <3>2, <4>2 DEF Withdrawn, Withdraws
        <5>3. QED
          BY <1>1, <5>1, <5>2
      <4>3. QED
        BY <4>1, <4>2
    <3>9. QED
      BY <3>6, <3>7, <3>8
  <2>5. QED
    BY <2>3, <2>4
<1>5. QED
  BY <1>3, <1>4, OnlyProcessingProcesses

\* A consent withdrawn by any processed event stays withdrawn, a conversion
\* stays, and last_active is the latest timestamp, in every order of delivery.
THEOREM ProfileFollowsHistory == Spec => []ProfileMatchesHistory
<1>1. Init => ProfileInv
  <2> SUFFICES ASSUME Init, NEW c \in Customers
               PROVE  /\ profile[c].lastActive \in Ages(c)
                      /\ \A t \in Ages(c) : t <= profile[c].lastActive
                      /\ profile[c].converted = Bought(c)
                      /\ profile[c].optedOut = Withdrawn(c)
    BY DEF ProfileInv
  <2>1. Processed(c) = {}
    BY DEF Init, Processed
  <2>2. Ages(c) = {Never} /\ ~Bought(c) /\ Withdrawn(c) = {}
    BY <2>1 DEF Ages, Bought, Withdrawn
  <2>3. profile[c] = [lastActive |-> Never, converted |-> FALSE, optedOut |-> {}]
    BY DEF Init
  <2>4. Bought(c) = FALSE
    BY <2>2, Zenon DEF Bought
  <2>5. profile[c].converted = FALSE /\ profile[c].optedOut = {} /\ profile[c].lastActive = Never
    BY <2>3
  <2>6. profile[c].converted = Bought(c)
    BY <2>4, <2>5, Zenon
  <2>7. QED
    BY <2>2, <2>5, <2>6 DEF Never
<1>2. Safe /\ ProfileInv => ProfileMatchesHistory
  <2> SUFFICES ASSUME Safe, ProfileInv, NEW c \in Customers
               PROVE  profile[c] = [lastActive |-> Max(Ages(c)),
                                    converted |-> Bought(c),
                                    optedOut |-> Withdrawn(c)]
    BY DEF ProfileMatchesHistory, Ages, Bought, Withdrawn, Withdraws
  <2>1. Max(Ages(c)) = profile[c].lastActive
    BY AgesAreInts, MaxIsGreatest DEF ProfileInv
  <2>2. profile[c] = [lastActive |-> profile[c].lastActive,
                      converted |-> profile[c].converted,
                      optedOut |-> profile[c].optedOut]
    BY DEF Safe, TypeInv, TypeOK, Profiles
  <2>3. QED
    BY <2>1, <2>2 DEF ProfileInv
<1>3. QED
  BY <1>1, <1>2, ProfileStep, Locking, PTL DEF Spec, Safe

----------------------------------------------------------------------------
(* Sums                                                                    *)

\* The units of which the positive values of f on T consist.
Units(f, T) == UNION {{t} \X (1 .. f[t]) : t \in T}

LEMMA UnitsAdd ==
    ASSUME NEW S, NEW f \in [S -> Int], NEW T \in SUBSET S, NEW x \in T,
           IsFiniteSet(Units(f, T \ {x}))
    PROVE  /\ IsFiniteSet(Units(f, T))
           /\ Cardinality(Units(f, T)) =
                Cardinality(Units(f, T \ {x})) + (IF f[x] > 0 THEN f[x] ELSE 0)
<1> DEFINE rest == Units(f, T \ {x})
           new == {x} \X (1 .. f[x])
<1>1. PICK n \in Int : n = f[x]
  OBVIOUS
<1>2. IsFiniteSet(new) /\ Cardinality(new) = IF f[x] > 0 THEN f[x] ELSE 0
  <2>1. IsFiniteSet({x}) /\ Cardinality({x}) = 1
    BY FS_Singleton
  <2>2. IsFiniteSet(1 .. n) /\ Cardinality(1 .. n) = IF 1 > n THEN 0 ELSE n - 1 + 1
    BY FS_Interval
  <2>3. IsFiniteSet({x} \X (1 .. n)) /\ Cardinality({x} \X (1 .. n)) = 1 * Cardinality(1 .. n)
    BY <2>1, <2>2, FS_Product
  <2>4. QED
    BY <1>1, <2>2, <2>3
<1>3. Units(f, T) = rest \cup new /\ rest \cap new = {}
  <2>1. \A y \in rest : \E t \in T \ {x} : y \in {t} \X (1 .. f[t])
    BY DEF Units
  <2>2. rest \cap new = {}
    BY <2>1
  <2>3. Units(f, T) = rest \cup new
    BY DEF Units
  <2>4. QED
    BY <2>2, <2>3
<1>4. Cardinality({}) = 0
  BY FS_EmptySet
<1>5. IsFiniteSet(rest) /\ Cardinality(rest) \in Nat /\ Cardinality(new) \in Nat
  BY <1>2, FS_CardinalityType
<1> HIDE DEF rest, new
<1>6. /\ IsFiniteSet(rest \cup new)
      /\ Cardinality(rest \cup new) =
            Cardinality(rest) + Cardinality(new) - Cardinality(rest \cap new)
  BY <1>2, <1>5, FS_Union
<1>7. Cardinality(rest \cup new) = Cardinality(rest) + Cardinality(new)
  <2>1. Cardinality(rest \cap new) = 0
    BY <1>3, <1>4
  <2>2. QED
    BY <1>5, <1>6, <2>1
<1>8. QED
  BY <1>2, <1>3, <1>6, <1>7 DEF rest

LEMMA UnitsFinite ==
    ASSUME NEW S, IsFiniteSet(S), NEW f \in [S -> Int], NEW T \in SUBSET S
    PROVE  IsFiniteSet(Units(f, T)) /\ Cardinality(Units(f, T)) \in Nat
<1> DEFINE parts == {{t} \X (1 .. f[t]) : t \in T}
           part == [t \in T |-> {t} \X (1 .. f[t])]
<1>1. IsFiniteSet(T)
  BY FS_Subset
<1>2. IsFiniteSet(parts)
  <2>1. part \in Surjection(T, parts)
    BY DEF Surjection
  <2> HIDE DEF part, parts
  <2>2. QED
    BY <1>1, <2>1, FS_Surjection
<1>3. ASSUME NEW t \in T PROVE IsFiniteSet({t} \X (1 .. f[t]))
  <2>1. f[t] \in Int
    OBVIOUS
  <2>2. IsFiniteSet({t})
    BY FS_Singleton
  <2>3. IsFiniteSet(1 .. f[t])
    BY <2>1, FS_Interval
  <2>4. QED
    BY <2>2, <2>3, FS_Product
<1>4. \A P \in parts : IsFiniteSet(P)
  BY <1>3
<1>5. IsFiniteSet(UNION parts)
  <2> HIDE DEF parts
  <2> QED
    BY <1>2, <1>4, FS_UNION
<1>6. QED
  BY <1>5, FS_CardinalityType DEF Units

\* g gives each subset of S the sum of f over it, whichever element is added last.
Adds(g, f, S) ==
    /\ g \in [SUBSET S -> Int]
    /\ g[{}] = 0
    /\ \A T \in SUBSET S : \A x \in T : g[T] = f[x] + g[T \ {x}]

LEMMA SumExists ==
    ASSUME NEW S, IsFiniteSet(S), NEW f \in [S -> Int]
    PROVE  \E g : Adds(g, f, S)
<1> DEFINE minus == [x \in S |-> 0 - f[x]]
           more(T) == Cardinality(Units(f, T))
           less(T) == Cardinality(Units(minus, T))
           g == [T \in SUBSET S |-> more(T) - less(T)]
<1>1. minus \in [S -> Int]
  OBVIOUS
<1>2. \A T \in SUBSET S : more(T) \in Nat /\ less(T) \in Nat
  <2> HIDE DEF minus
  <2> QED
    BY <1>1, UnitsFinite
<1>3. g \in [SUBSET S -> Int]
  <2> HIDE DEF more, less
  <2> QED
    BY <1>2
<1>4. g[{}] = 0
  <2>1. Units(f, {}) = {} /\ Units(minus, {}) = {}
    BY DEF Units
  <2>2. more({}) = 0 /\ less({}) = 0
    BY <2>1, FS_EmptySet
  <2>3. QED
    BY <2>2
<1>5. ASSUME NEW T \in SUBSET S, NEW x \in T
      PROVE  g[T] = f[x] + g[T \ {x}]
  <2>1. T \ {x} \in SUBSET S
    OBVIOUS
  <2>2. more(T) = more(T \ {x}) + (IF f[x] > 0 THEN f[x] ELSE 0)
    BY <2>1, UnitsFinite, UnitsAdd
  <2>3. less(T) = less(T \ {x}) + (IF minus[x] > 0 THEN minus[x] ELSE 0)
    <3> HIDE DEF minus
    <3> QED
      BY <1>1, <2>1, UnitsFinite, UnitsAdd
  <2>4. minus[x] = 0 - f[x] /\ f[x] \in Int
    OBVIOUS
  <2>5. PICK a \in Nat, b \in Nat : a = more(T \ {x}) /\ b = less(T \ {x})
    BY <1>2, <2>1
  <2>6. g[T] = more(T) - less(T) /\ g[T \ {x}] = a - b
    BY <2>1, <2>5
  <2> HIDE DEF g, more, less, minus
  <2>7. QED
    BY <2>2, <2>3, <2>4, <2>5, <2>6
<1>6. QED
  BY <1>3, <1>4, <1>5 DEF Adds

\* The recursive function that SumFunction is made of adds.
LEMMA SumIs ==
    ASSUME NEW f, IsFiniteSet(DOMAIN f), NEW g, Adds(g, f, DOMAIN f)
    PROVE  SumFunction(f) = g[DOMAIN f]
<1> DEFINE S == DOMAIN f
           pick(s) == CHOOSE x \in s : TRUE
           Rec(h) == h = [s \in SUBSET S |-> IF s = {} THEN 0 ELSE f[pick(s)] + h[s \ {pick(s)}]]
<1>1. \A s \in SUBSET S : s # {} => pick(s) \in s /\ s \ {pick(s)} \in SUBSET S
  OBVIOUS
<1>2. Rec(g)
  <2>1. /\ g \in [SUBSET S -> Int]
        /\ g[{}] = 0
        /\ \A s \in SUBSET S : \A x \in s : g[s] = f[x] + g[s \ {x}]
    BY DEF Adds
  <2>2. ASSUME NEW s \in SUBSET S, s # {}
        PROVE  g[s] = f[pick(s)] + g[s \ {pick(s)}]
    BY <1>1, <2>1, <2>2
  <2> HIDE DEF pick
  <2>3. \A s \in SUBSET S : g[s] = IF s = {} THEN 0 ELSE f[pick(s)] + g[s \ {pick(s)}]
    BY <2>1, <2>2
  <2>4. QED
    BY <2>1, <2>3
<1>3. ASSUME NEW h, Rec(h) PROVE h = g
  <2> DEFINE wrong == {s \in SUBSET S : h[s] # g[s]}
  <2> HIDE DEF pick
  <2>1. \A s \in SUBSET S : h[s] = IF s = {} THEN 0 ELSE f[pick(s)] + h[s \ {pick(s)}]
    BY <1>3
  <2>2. \A s \in SUBSET S : g[s] = IF s = {} THEN 0 ELSE f[pick(s)] + g[s \ {pick(s)}]
    BY <1>2
  <2>3. ASSUME wrong # {} PROVE FALSE
    <3>1. IsWellFoundedOn(StrictSubsetOrdering(S), SUBSET S)
      <4>1. FiniteSubsetsOf(S) = SUBSET S
        BY FS_FiniteSubsetsOfFinite
      <4>2. QED
        BY <4>1, FS_StrictSubsetOrderingWellFounded
    <3>2. wrong \subseteq SUBSET S
      OBVIOUS
    <3>3. PICK s \in wrong : \A t \in wrong : <<t, s>> \notin StrictSubsetOrdering(S)
      <4> HIDE DEF wrong
      <4> QED
        BY <2>3, <3>1, <3>2, WFMin
    <3>4. s \in SUBSET S /\ h[s] # g[s]
      OBVIOUS
    <3>5. s # {} /\ pick(s) \in s /\ s \ {pick(s)} \in SUBSET S
      BY <1>1, <2>1, <2>2, <3>4
    <3>6. <<s \ {pick(s)}, s>> \in StrictSubsetOrdering(S)
      BY <3>4, <3>5 DEF StrictSubsetOrdering
    <3>7. h[s \ {pick(s)}] = g[s \ {pick(s)}]
      BY <3>3, <3>5, <3>6
    <3>8. QED
      BY <2>1, <2>2, <3>4, <3>5, <3>7
  <2>4. \A s \in SUBSET S : h[s] = g[s]
    BY <2>3
  <2>5. h = [s \in SUBSET S |-> h[s]] /\ g = [s \in SUBSET S |-> g[s]]
    BY <1>3 DEF Adds
  <2>6. QED
    BY <2>4, <2>5
<1>4. QED
  BY <1>2, <1>3 DEF SumFunction, SumFunctionOnSet, FoldFunctionOnSet, MapThenFoldSet

LEMMA SumOfNone == SumFunction([x \in {} |-> 0]) = 0
<1> DEFINE f == [x \in {} |-> 0]
           g == [T \in SUBSET {} |-> 0]
<1>1. IsFiniteSet(DOMAIN f)
  BY FS_EmptySet
<1>2. Adds(g, f, DOMAIN f)
  BY DEF Adds
<1>3. g[DOMAIN f] = 0
  OBVIOUS
<1> HIDE DEF f, g
<1>4. SumFunction(f) = g[DOMAIN f]
  BY <1>1, <1>2, SumIs
<1>5. QED
  BY <1>3, <1>4 DEF f

LEMMA SumType ==
    ASSUME NEW S, IsFiniteSet(S), NEW f \in [S -> Int]
    PROVE  SumFunction(f) \in Int
<1>1. PICK g : Adds(g, f, S)
  BY SumExists
<1>2. SumFunction(f) = g[S]
  BY <1>1, SumIs
<1>3. QED
  BY <1>1, <1>2 DEF Adds

LEMMA SumAddsOne ==
    ASSUME NEW S, IsFiniteSet(S), NEW x, x \notin S, NEW f \in [S -> Int],
           NEW h \in [S \cup {x} -> Int], \A y \in S : h[y] = f[y]
    PROVE  SumFunction(h) = SumFunction(f) + h[x]
<1> DEFINE T == S \cup {x}
<1>1. IsFiniteSet(T)
  BY FS_AddElement
<1>2. PICK g : Adds(g, h, T)
  BY <1>1, SumExists
<1>3. SumFunction(h) = g[T]
  BY <1>1, <1>2, SumIs
<1> DEFINE part == [U \in SUBSET S |-> g[U]]
<1>4. Adds(part, f, S)
  <2>1. part \in [SUBSET S -> Int] /\ part[{}] = 0
    BY <1>2 DEF Adds
  <2>2. ASSUME NEW U \in SUBSET S, NEW y \in U PROVE part[U] = f[y] + part[U \ {y}]
    <3>1. g[U] = h[y] + g[U \ {y}]
      BY <1>2 DEF Adds
    <3>2. QED
      BY <3>1
  <2>3. QED
    BY <2>1, <2>2 DEF Adds
<1>5. SumFunction(f) = part[S]
  <2> HIDE DEF part
  <2> QED
    BY <1>4, SumIs
<1>6. part[S] = g[S] /\ g[S] \in Int
  BY <1>2 DEF Adds
<1>7. g[T] = h[x] + g[T \ {x}] /\ T \ {x} = S
  BY <1>2 DEF Adds
<1>8. h[x] \in Int
  OBVIOUS
<1>9. SumFunction(h) = h[x] + g[S] /\ SumFunction(f) = g[S]
  BY <1>3, <1>5, <1>6, <1>7
<1>10. QED
  BY <1>6, <1>8, <1>9

LEMMA SumScales ==
    ASSUME NEW S, IsFiniteSet(S), NEW f \in [S -> Int], NEW k \in Int,
           NEW h \in [S -> Int], \A y \in S : h[y] = k * f[y]
    PROVE  SumFunction(h) = k * SumFunction(f)
<1>1. PICK g : Adds(g, f, S)
  BY SumExists
<1>2. SumFunction(f) = g[S]
  BY <1>1, SumIs
<1> DEFINE times == [U \in SUBSET S |-> k * g[U]]
<1>3. Adds(times, h, S)
  <2>1. \A U \in SUBSET S : g[U] \in Int
    BY <1>1 DEF Adds
  <2>2. times \in [SUBSET S -> Int] /\ times[{}] = 0
    BY <1>1, <2>1 DEF Adds
  <2>3. ASSUME NEW U \in SUBSET S, NEW y \in U PROVE times[U] = h[y] + times[U \ {y}]
    <3>1. g[U] = f[y] + g[U \ {y}]
      BY <1>1 DEF Adds
    <3>2. PICK a \in Int, b \in Int : a = f[y] /\ b = g[U \ {y}]
      BY <2>1
    <3>3. k * (a + b) = k * a + k * b
      OBVIOUS
    <3>4. times[U] = k * g[U] /\ times[U \ {y}] = k * g[U \ {y}] /\ h[y] = k * f[y]
      OBVIOUS
    <3>5. QED
      BY <3>1, <3>2, <3>3, <3>4
  <2>4. QED
    BY <2>2, <2>3 DEF Adds
<1>4. SumFunction(h) = times[S]
  <2> HIDE DEF times
  <2> QED
    BY <1>3, SumIs
<1>5. QED
  BY <1>2, <1>4

----------------------------------------------------------------------------
(* The score                                                               *)

\* What an event contributes to a score that refers to time t: the division
\* of ScoreMatchesLedger is exact.
Share(e, t) == WeightOf[e] * Decay[Horizon - (t - TimeOf[e])]
Shares(P, t) == [e \in P |-> Share(e, t)]

\* The accumulator refers to the latest of its events and sums their shares.
SumsUp(eng, P) ==
    IF P = {}
    THEN eng.clock = Never
    ELSE /\ eng.clock \in {TimeOf[e] : e \in P}
         /\ \A e \in P : TimeOf[e] <= eng.clock
         /\ eng.score = SumFunction(Shares(P, eng.clock))

ScoreInv == \A c \in Customers : SumsUp(engagement[c], Processed(c))

LEMMA ExactDivision ==
    ASSUME NEW m \in Int, NEW p \in Nat \ {0}
    PROVE  (m * p) \div p = m
OBVIOUS

\* The decay of an event's weight between its own time and a later one.
LEMMA DecayedWeight ==
    ASSUME NEW e \in Events, NEW t \in Times, TimeOf[e] <= t
    PROVE  /\ t - TimeOf[e] \in Times
           /\ Share(e, t) \in Int
           /\ FullWeight(e) \div Decay[t - TimeOf[e]] = Share(e, t)
<1>1. PICK d \in Times : d = t - TimeOf[e]
  BY ProcessingAssumption DEF Times
<1>2. Horizon - d \in Times /\ (Horizon - d) + d = Horizon /\ Horizon \in Times
  BY ProcessingAssumption DEF Times
<1>3. Decay[Horizon] = Decay[Horizon - d] * Decay[d]
  BY <1>2, DecayAssumption
<1>4. /\ Decay[d] \in Nat \ {0} /\ Decay[Horizon - d] \in Int
      /\ WeightOf[e] \in Int
  BY <1>2, ProcessingAssumption, DecayAssumption
<1>5. PICK w \in Int, q \in Int, p \in Nat \ {0} :
        w = WeightOf[e] /\ q = Decay[Horizon - d] /\ p = Decay[d]
  BY <1>4
<1>6. FullWeight(e) = (w * q) * p
  BY <1>3, <1>5 DEF FullWeight
<1>7. w * q \in Int /\ ((w * q) * p) \div p = w * q
  BY ExactDivision
<1>8. Share(e, t) = w * q
  BY <1>1, <1>5 DEF Share
<1>9. QED
  BY <1>1, <1>5, <1>6, <1>7, <1>8

\* From one time to a later one, every share decays by the same factor.
LEMMA ShareDecays ==
    ASSUME NEW e \in Events, NEW t \in Times, NEW u \in Times,
           TimeOf[e] <= t, t <= u
    PROVE  /\ u - t \in Times
           /\ Share(e, t) = Decay[u - t] * Share(e, u)
<1>1. PICK x \in Times : x = TimeOf[e]
  BY ProcessingAssumption
<1>2. PICK a \in Times, b \in Times : a = Horizon - (u - x) /\ b = u - t
  BY <1>1, ProcessingAssumption DEF Times
<1>3. a + b \in Times /\ a + b = Horizon - (t - x)
  BY <1>1, <1>2, ProcessingAssumption DEF Times
<1>4. Decay[a + b] = Decay[a] * Decay[b]
  BY <1>3, DecayAssumption
<1>5. PICK w \in Int, p \in Int, q \in Int :
        w = WeightOf[e] /\ p = Decay[a] /\ q = Decay[b]
  BY ProcessingAssumption, DecayAssumption
<1>6. w * (p * q) = q * (w * p)
  OBVIOUS
<1>7. Share(e, t) = w * (p * q) /\ Share(e, u) = w * p
  BY <1>1, <1>2, <1>3, <1>4, <1>5 DEF Share
<1>8. QED
  BY <1>2, <1>5, <1>6, <1>7

LEMMA SharesType ==
    ASSUME NEW P, P \subseteq Events, NEW t \in Times,
           \A e \in P : TimeOf[e] <= t
    PROVE  Shares(P, t) \in [P -> Int] /\ \A e \in P : Shares(P, t)[e] = Share(e, t)
BY DecayedWeight DEF Shares

\* One more event, at the time the score refers to.
LEMMA SharesAdd ==
    ASSUME NEW P, P \subseteq Events, IsFiniteSet(P), NEW t \in Times,
           \A e \in P : TimeOf[e] <= t,
           NEW e \in Events, e \notin P, TimeOf[e] <= t
    PROVE  SumFunction(Shares(P \cup {e}, t)) = SumFunction(Shares(P, t)) + Share(e, t)
<1>1. /\ Shares(P, t) \in [P -> Int]
      /\ \A x \in P : Shares(P, t)[x] = Share(x, t)
  BY SharesType
<1>2. PICK Q : Q = P \cup {e}
  OBVIOUS
<1>3. /\ Shares(Q, t) \in [Q -> Int]
      /\ \A x \in Q : Shares(Q, t)[x] = Share(x, t)
  BY <1>2, SharesType
<1>4. \A x \in P : Shares(Q, t)[x] = Shares(P, t)[x]
  BY <1>1, <1>2, <1>3
<1>5. SumFunction(Shares(Q, t)) = SumFunction(Shares(P, t)) + Shares(Q, t)[e]
  <2>1. PICK f : f = Shares(P, t)
    OBVIOUS
  <2>2. PICK h : h = Shares(Q, t)
    OBVIOUS
  <2>3. f \in [P -> Int] /\ h \in [P \cup {e} -> Int] /\ \A x \in P : h[x] = f[x]
    BY <1>1, <1>2, <1>3, <1>4, <2>1, <2>2
  <2>4. SumFunction(h) = SumFunction(f) + h[e]
    BY <2>3, SumAddsOne
  <2>5. QED
    BY <2>1, <2>2, <2>4
<1>6. QED
  BY <1>2, <1>3, <1>5

\* A score brought forward: the division is exact for the sum too.
LEMMA SharesDecay ==
    ASSUME NEW P, P \subseteq Events, IsFiniteSet(P), NEW t \in Times, NEW u \in Times,
           \A e \in P : TimeOf[e] <= t, t <= u
    PROVE  SumFunction(Shares(P, t)) \div Decay[u - t] = SumFunction(Shares(P, u))
<1>1. \A e \in P : TimeOf[e] <= u
  BY ProcessingAssumption DEF Times
<1>2. /\ Shares(P, t) \in [P -> Int]
      /\ \A e \in P : Shares(P, t)[e] = Share(e, t)
  BY SharesType
<1>3. /\ Shares(P, u) \in [P -> Int]
      /\ \A e \in P : Shares(P, u)[e] = Share(e, u)
  BY <1>1, SharesType
<1>4. u - t \in Times
  BY ProcessingAssumption DEF Times
<1>5. PICK k \in Nat \ {0} : k = Decay[u - t]
  BY <1>4, DecayAssumption
<1>6. \A e \in P : Shares(P, t)[e] = k * Shares(P, u)[e]
  BY <1>2, <1>3, <1>5, ShareDecays
<1>7. SumFunction(Shares(P, t)) = k * SumFunction(Shares(P, u))
  BY <1>2, <1>3, <1>6, SumScales
<1>8. PICK m \in Int : m = SumFunction(Shares(P, u))
  BY <1>3, SumType
<1>9. (m * k) \div k = m /\ m * k = k * m
  BY ExactDivision
<1>10. QED
  BY <1>5, <1>7, <1>8, <1>9

\* process_one_event's update, late events included.
LEMMA ScoredSumsUp ==
    ASSUME NEW P, P \subseteq Events, IsFiniteSet(P), NEW eng \in Engagements, SumsUp(eng, P),
           NEW e \in Events, e \notin P
    PROVE  SumsUp(Scored(e, eng), P \cup {e})
<1>1. PICK new : new = Scored(e, eng)
  OBVIOUS
<1>2. PICK t : t = TimeOf[e]
  OBVIOUS
<1>3. t \in Times /\ t <= t
  BY <1>2, ProcessingAssumption DEF Times
<1>4. new.score = NewScore(eng, e) /\ new.clock = Later(t, eng.clock)
  BY <1>1, <1>2 DEF Scored
<1>5. FullWeight(e) = Share(e, t)
  <2>1. FullWeight(e) \in Int
    BY ProcessingAssumption, DecayAssumption DEF FullWeight, Times
  <2>2. t - TimeOf[e] = 0
    BY <1>2, <1>3 DEF Times
  <2>3. FullWeight(e) \div Decay[0] = Share(e, t)
    BY <1>2, <1>3, <2>2, DecayedWeight
  <2>4. QED
    BY <2>1, <2>3, DecayAssumption
<1>6. CASE P = {}
  <2>1. new.clock = t /\ new.score = Share(e, t)
    BY <1>3, <1>4, <1>5, <1>6 DEF SumsUp, Later, NewScore, Never, Times
  <2>2. Shares(P, t) = [x \in {} |-> 0]
    BY <1>6 DEF Shares
  <2>3. SumFunction(Shares(P, t)) = 0
    BY <2>2, SumOfNone
  <2>4. Share(e, t) \in Int
    BY <1>2, <1>3, DecayedWeight
  <2>5. SumFunction(Shares(P \cup {e}, t)) = 0 + Share(e, t)
    BY <1>2, <1>3, <1>6, <2>3, SharesAdd
  <2>6. QED
    BY <1>1, <1>2, <1>3, <1>6, <2>1, <2>4, <2>5 DEF SumsUp
<1>7. CASE P # {}
  <2>1. PICK u : u = eng.clock
    OBVIOUS
  <2>2. /\ u \in {TimeOf[x] : x \in P}
        /\ \A x \in P : TimeOf[x] <= u
        /\ eng.score = SumFunction(Shares(P, u))
    BY <1>7, <2>1 DEF SumsUp
  <2>3. u \in Times /\ u # Never
    BY <2>2, ProcessingAssumption DEF Times, Never
  <2>4. CASE t < u
    <3>1. new.clock = u /\ new.score = SumFunction(Shares(P, u)) + Share(e, u)
      <4>0. TimeOf[e] <= u
        BY <1>2, <1>3, <2>3, <2>4 DEF Times
      <4>1. FullWeight(e) \div Decay[u - t] = Share(e, u)
        BY <1>2, <2>3, <4>0, DecayedWeight
      <4>2. NewScore(eng, e) = eng.score + (FullWeight(e) \div Decay[u - t])
        BY <1>2, <2>1, <2>3, <2>4 DEF NewScore
      <4>3. QED
        BY <1>4, <2>1, <2>2, <2>4, <4>1, <4>2 DEF Later
    <3>2. TimeOf[e] <= u
      BY <1>2, <1>3, <2>3, <2>4 DEF Times
    <3>3. SumFunction(Shares(P \cup {e}, u)) = SumFunction(Shares(P, u)) + Share(e, u)
      BY <2>2, <2>3, <3>2, SharesAdd
    <3>4. QED
      BY <1>1, <2>2, <3>1, <3>2, <3>3 DEF SumsUp
  <2>5. CASE ~(t < u)
    <3>1. u <= t
      BY <1>3, <2>3, <2>5 DEF Times
    <3>2. \A x \in P : TimeOf[x] <= t
      BY <1>3, <2>2, <2>3, <3>1, ProcessingAssumption DEF Times
    <3>3. new.clock = t /\ new.score = SumFunction(Shares(P, t)) + Share(e, t)
      <4>1. SumFunction(Shares(P, u)) \div Decay[t - u] = SumFunction(Shares(P, t))
        BY <1>3, <2>2, <2>3, <3>1, SharesDecay
      <4>2. NewScore(eng, e) = (eng.score \div Decay[t - u]) + FullWeight(e)
        BY <1>2, <2>1, <2>3, <2>5 DEF NewScore
      <4>3. QED
        BY <1>4, <1>5, <2>1, <2>2, <2>5, <4>1, <4>2 DEF Later
    <3>4. SumFunction(Shares(P \cup {e}, t)) = SumFunction(Shares(P, t)) + Share(e, t)
      BY <1>2, <1>3, <3>2, SharesAdd
    <3>5. QED
      BY <1>1, <1>2, <1>3, <3>2, <3>3, <3>4 DEF SumsUp
  <2>6. QED
    BY <2>4, <2>5
<1>8. QED
  BY <1>6, <1>7

LEMMA ScoreStep == Safe /\ ScoreInv /\ [Next]_vars => ScoreInv'
<1> SUFFICES ASSUME Safe, ScoreInv, [Next]_vars, NEW c \in Customers
             PROVE  SumsUp(engagement'[c], Processed(c)')
  BY DEF ScoreInv, SumsUp, Shares, Share
<1>1. SumsUp(engagement[c], Processed(c))
  BY DEF ScoreInv
<1>2. CASE Quiet
  <2>1. Processed(c)' = Processed(c) /\ engagement' = engagement
    BY <1>2 DEF Quiet, Processed
  <2>2. QED
    BY <1>1, <2>1
<1>3. CASE \E s \in Sessions : CommitProcess(s)
  <2>1. PICK s \in Sessions : AppliesOnce(s)
    BY <1>3, ProcessingApplies
  <2>2. PICK e : e = txn[s].id
    OBVIOUS
  <2>3. e \in Events /\ CustomerOf[e] \in Customers
    BY <2>1, <2>2 DEF AppliesOnce
  <2>4. CASE c = CustomerOf[e]
    <3>1. engagement'[c] = Scored(e, engagement[c]) /\ engagement[c] \in Engagements
      BY <2>1, <2>2, <2>4 DEF AppliesOnce, Safe, TypeInv, TypeOK
    <3>2. Processed(c)' = Processed(c) \cup {e} /\ e \notin Processed(c)
      BY <2>1, <2>2, <2>4, ProcessingAdds
    <3>3. Processed(c) \subseteq Events /\ IsFiniteSet(Processed(c))
      BY ProcessedFinite DEF Processed
    <3>4. PICK P : P = Processed(c)
      OBVIOUS
    <3>5. PICK eng \in Engagements : eng = engagement[c]
      BY <3>1
    <3>6. SumsUp(Scored(e, eng), P \cup {e})
      BY <1>1, <2>3, <3>2, <3>3, <3>4, <3>5, ScoredSumsUp
    <3>7. QED
      BY <3>1, <3>2, <3>4, <3>5, <3>6
  <2>5. CASE c # CustomerOf[e]
    <3>1. engagement'[c] = engagement[c]
      BY <2>1, <2>2, <2>5 DEF AppliesOnce, Safe, TypeInv, TypeOK
    <3>2. Processed(c)' = Processed(c)
      BY <2>1, <2>2, <2>5, ProcessingAdds
    <3>3. QED
      BY <1>1, <3>1, <3>2
  <2>6. QED
    BY <2>4, <2>5
<1>4. QED
  BY <1>2, <1>3, OnlyProcessingProcesses

\* A customer's score is the decayed sum of all their processed events, for
\* any weights, any decay and any order of delivery: late events are brought
\* forward, and no contribution is lost between concurrent transactions.
THEOREM ScoreFollowsLedger == Spec => []ScoreMatchesLedger
<1>1. Init => ScoreInv
  BY DEF Init, ScoreInv, SumsUp, Processed, NoEngagement
<1>2. ScoreInv => ScoreMatchesLedger
  <2> SUFFICES ASSUME ScoreInv, NEW c \in Customers, Processed(c) # {},
                      NEW u, u = engagement[c].clock
               PROVE  /\ Max({TimeOf[e] : e \in Processed(c)}) = u
                      /\ engagement[c].score =
                            SumFunction([e \in Processed(c) |->
                                            FullWeight(e) \div Decay[u - TimeOf[e]]])
    BY DEF ScoreMatchesLedger
  <2>1. /\ u \in {TimeOf[e] : e \in Processed(c)}
        /\ \A e \in Processed(c) : TimeOf[e] <= u
        /\ engagement[c].score = SumFunction(Shares(Processed(c), u))
    BY DEF ScoreInv, SumsUp
  <2>2. \A e \in Processed(c) : e \in Events
    BY DEF Processed
  <2>3. u \in Times /\ {TimeOf[e] : e \in Processed(c)} \subseteq Int
    BY <2>1, <2>2, ProcessingAssumption DEF Times
  <2>4. Max({TimeOf[e] : e \in Processed(c)}) = u
    BY <2>1, <2>3, MaxIsGreatest
  <2>5. \A e \in Processed(c) : FullWeight(e) \div Decay[u - TimeOf[e]] = Share(e, u)
    BY <2>1, <2>2, <2>3, DecayedWeight
  <2>6. [e \in Processed(c) |-> FullWeight(e) \div Decay[u - TimeOf[e]]] = Shares(Processed(c), u)
    BY <2>5 DEF Shares
  <2>7. QED
    BY <2>1, <2>4, <2>6
<1>3. QED
  BY <1>1, <1>2, ScoreStep, Locking, PTL DEF Spec, Safe

----------------------------------------------------------------------------
(* EventProcessing implements EventLifecycle: every commit is one step of  *)
(* the lifecycle of one event, every other step of a transaction is none.  *)
(* So transactions may be taken as atomic, as EventPipeline does.          *)

TallyOf == [c \in Customers |-> engagement[c].count]
DeadOf == [id \in Ids |-> Cardinality(OpenRows(id))]

LEMMA OpenRowsFinite == Safe => \A id : IsFiniteSet(OpenRows(id))
<1> SUFFICES ASSUME Safe, NEW id PROVE IsFiniteSet(OpenRows(id))
  OBVIOUS
<1>1. Len(dlq) \in Int
  BY LenProperties DEF Safe, TypeInv, TypeOK
<1>2. IsFiniteSet(1 .. Len(dlq)) /\ OpenRows(id) \subseteq 1 .. Len(dlq)
  BY <1>1, FS_Interval DEF OpenRows
<1>3. QED
  BY <1>2, FS_Subset

\* The database starts empty.
LEMMA InitMaps == Init => Lifecycle!LifecycleInit
<1> SUFFICES ASSUME Init PROVE Lifecycle!LifecycleInit
  OBVIOUS
<1>1. TallyOf = [c \in Customers |-> 0]
  BY DEF Init, TallyOf, NoEngagement
<1>2. \A id : OpenRows(id) = {}
  BY DEF Init, OpenRows
<1>3. DeadOf = [id \in Ids |-> 0]
  BY <1>2, FS_EmptySet DEF DeadOf
<1>4. QED
  BY <1>1, <1>3 DEF Init, Lifecycle!LifecycleInit, TallyOf, DeadOf, Ids, Lifecycle!Ids

\* Committing a processing is Apply.
LEMMA ProcessMaps ==
    ASSUME Safe, NEW s \in Sessions, CommitProcess(s), NEW e, e = txn[s].id
    PROVE  e \in Events /\ Lifecycle!Apply(e)
<1> DEFINE c == CustomerOf[e]
<1>1. AppliesOnce(s)
  BY ProcessingApplies
<1>2. /\ e \in Events /\ c \in Customers /\ status[e] = "pending"
      /\ status' = [status EXCEPT ![e] = "processed"]
      /\ engagement' = [engagement EXCEPT ![c] = Scored(e, @)]
      /\ dlq' = dlq
  BY <1>1 DEF AppliesOnce
<1>3. \A k \in Customers : engagement'[k].count =
            IF k = c THEN engagement[k].count + 1 ELSE engagement[k].count
  BY <1>2 DEF Scored, Counted, Safe, TypeInv, TypeOK
<1>4. TallyOf' = [TallyOf EXCEPT ![c] = @ + 1]
  BY <1>2, <1>3 DEF TallyOf
<1>5. DeadOf' = DeadOf
  BY <1>2 DEF DeadOf, OpenRows
<1>6. QED
  BY <1>2, <1>4, <1>5 DEF Lifecycle!Apply, TallyOf, DeadOf

\* Committing a failure is DeadLetter, or Reject for an id without an event.
LEMMA FailMaps ==
    ASSUME Safe, NEW s \in Sessions, CommitFail(s), NEW id, id = txn[s].id
    PROVE  \/ id \in Events /\ Lifecycle!DeadLetter(id)
           \/ id \in Foreign /\ Lifecycle!Reject(id)
<1>1. id \in Ids
  BY FailureHitsPending
<1>2. TallyOf' = TallyOf
  BY DEF CommitFail, TallyOf
<1>3. DeadOf' = [DeadOf EXCEPT ![id] = @ + 1]
  <2>1. PICK n : n \notin OpenRows(id) /\ OpenRows(id)' = OpenRows(id) \cup {n}
    BY FailureOpensRow
  <2>2. Cardinality(OpenRows(id)') = Cardinality(OpenRows(id)) + 1
    BY <2>1, OpenRowsFinite, FS_AddElement
  <2>3. \A x : x # id => OpenRows(x)' = OpenRows(x)
    BY FailureOpensRow
  <2>4. \A x \in Ids : Cardinality(OpenRows(x)') =
            IF x = id THEN Cardinality(OpenRows(x)) + 1 ELSE Cardinality(OpenRows(x))
    BY <2>2, <2>3
  <2>5. QED
    BY <1>1, <2>4 DEF DeadOf
<1>4. CASE id \in Events
  <2>1. status[id] = "pending" /\ status' = [status EXCEPT ![id] = "failed"]
    BY <1>4, FailureHitsPending
  <2>2. QED
    BY <1>2, <1>3, <1>4, <2>1 DEF Lifecycle!DeadLetter, TallyOf, DeadOf
<1>5. CASE id \notin Events
  <2>1. status' = status /\ id \in Foreign
    BY <1>1, <1>5, FailureHitsPending DEF Ids
  <2>2. QED
    BY <1>2, <1>3, <2>1 DEF Lifecycle!Reject, TallyOf, DeadOf
<1>6. QED
  BY <1>4, <1>5

\* Committing a replay is Requeue.
LEMMA ReplayMaps ==
    ASSUME Safe, NEW s \in Sessions, CommitReplay(s), NEW e, e = txn[s].id
    PROVE  e \in Events /\ Lifecycle!Requeue(e)
<1>1. /\ e \in Events /\ status[e] = "failed"
      /\ status' = [status EXCEPT ![e] = "pending"]
  BY ReplayHitsFailed
<1>2. e \in Ids
  BY <1>1 DEF Ids
<1>3. TallyOf' = TallyOf
  BY DEF CommitReplay, TallyOf
<1>4. PICK row : row = txn[s].row
  OBVIOUS
<1>5. /\ row \in OpenRows(e) /\ OpenRows(e)' = OpenRows(e) \ {row}
      /\ \A x : x # e => OpenRows(x)' = OpenRows(x)
  BY <1>4, ReplayClosesRow
<1>6. Cardinality(OpenRows(e)') = Cardinality(OpenRows(e)) - 1
  BY <1>5, OpenRowsFinite, FS_RemoveElement
<1>7. Cardinality(OpenRows(e)) \in Nat /\ Cardinality(OpenRows(e)) # 0
  BY <1>5, OpenRowsFinite, FS_CardinalityType, FS_EmptySet
<1>8. \A x \in Ids : Cardinality(OpenRows(x)') =
            IF x = e THEN Cardinality(OpenRows(x)) - 1 ELSE Cardinality(OpenRows(x))
  BY <1>5, <1>6
<1>9. DeadOf' = [DeadOf EXCEPT ![e] = @ - 1] /\ DeadOf[e] > 0
  BY <1>2, <1>7, <1>8 DEF DeadOf
<1>10. QED
  BY <1>1, <1>3, <1>9 DEF Lifecycle!Requeue, TallyOf, DeadOf

LEMMA StepMaps ==
    ASSUME Safe, [Next]_vars
    PROVE  [Lifecycle!LifecycleNext]_Lifecycle!lifecycleVars
<1>1. ASSUME NEW e \in Events, Ingest(e) PROVE Lifecycle!Accept(e)
  BY <1>1 DEF Ingest, Lifecycle!Accept, OpenRows
<1>2. ASSUME NEW s \in Sessions, CommitProcess(s) PROVE Lifecycle!LifecycleNext
  BY <1>2, ProcessMaps DEF Lifecycle!LifecycleNext
<1>3. ASSUME NEW s \in Sessions, CommitFail(s) PROVE Lifecycle!LifecycleNext
  BY <1>3, FailMaps DEF Lifecycle!LifecycleNext
<1>4. ASSUME NEW s \in Sessions, CommitReplay(s) PROVE Lifecycle!LifecycleNext
  BY <1>4, ReplayMaps DEF Lifecycle!LifecycleNext
<1>5. ASSUME UNCHANGED <<status, engagement, dlq>> PROVE UNCHANGED Lifecycle!lifecycleVars
  BY <1>5 DEF Lifecycle!lifecycleVars, OpenRows
<1>6. QED
  BY <1>1, <1>2, <1>3, <1>4, <1>5
     DEF Next, vars, BeginProcess, BeginFail, BeginReplay, Begin, LockEvent,
         LockCustomer, ReadScore, LockDlq, Close, Lifecycle!LifecycleNext

\* Whatever the interleaving of the transactions' statements, an observer of
\* committed data sees the one-step lifecycle: the abstract specification.
THEOREM ProcessingImplementsLifecycle == Spec => RefinesLifecycle
<1>1. Safe /\ [Next]_vars => [Lifecycle!LifecycleNext]_Lifecycle!lifecycleVars
  BY StepMaps
<1>2. QED
  BY <1>1, InitMaps, Locking, PTL DEF Spec, Safe, RefinesLifecycle, Lifecycle!LifecycleSpec
=============================================================================
