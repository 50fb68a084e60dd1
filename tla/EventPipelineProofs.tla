-------------------------- MODULE EventPipelineProofs --------------------------
(***************************************************************************)
(* Proofs about the pipeline, for any number of events, workers, rows,     *)
(* messages and faults: its types, that the transactional outbox covers    *)
(* every accepted event, that only what is settled is acknowledged, that   *)
(* nothing is published twice before the first failure and how often at    *)
(* most after it, when two reconciliations can block each other, that no   *)
(* message is stranded, and that no event is dropped.                      *)
(*                                                                         *)
(* Two facts about a cleanup in progress carry the second: what the DELETE *)
(* has found are rows that existed when it looked, so a row written since  *)
(* is safe; and it found rows of settled events only, so a later replay of *)
(* such an event cannot count on its old row, but brings a new one. The    *)
(* third follows that new row until it is published: as its message it     *)
(* never takes the one that is about to be acknowledged. The fourth gives  *)
(* every message in the stream a row of its own: the one it was added for, *)
(* whose claim nobody else can have before it is committed. The fifth      *)
(* gives every message ever added a place of its own among those that the  *)
(* rows of its event had room for.                                         *)
(***************************************************************************)
EXTENDS EventPipeline, FiniteSetTheorems, TLAPS

\* x is less than y.
LessThan == {ss \in Nat \X Nat : ss[1] < ss[2]}

LEMMA LessThanWellFounded == IsWellFoundedOn(LessThan, Nat)
BY NatLessThanWellFounded DEF OpToRel, LessThan

\* The least and the greatest of a bounded set of numbers exist.
LEMMA MinIsLeast ==
    ASSUME NEW S \in SUBSET Nat, S # {}
    PROVE  Min(S) \in S /\ \A y \in S : Min(S) <= y
<1>1. \E x \in S : \A y \in S : <<y, x>> \notin LessThan
  BY LessThanWellFounded, WFMin, Zenon
<1>2. \A x, y \in Nat : y < x => <<y, x>> \in LessThan
  <2> TAKE x, y \in Nat
  <2> HAVE y < x
  <2>1. <<y, x>> \in Nat \X Nat /\ <<y, x>>[1] < <<y, x>>[2]
    OBVIOUS
  <2>2. QED
    BY <2>1 DEF LessThan
<1>3. \E x \in S : \A y \in S : ~ (y < x)
  BY <1>1, <1>2
<1>4. \E x \in S : \A y \in S : x =< y
  BY <1>3
<1>5. QED
  BY <1>4 DEF Min

LEMMA MaxIsMember ==
    ASSUME NEW n \in Nat, NEW S \in SUBSET (1 .. n), S # {}
    PROVE  Max(S) \in S
<1> DEFINE T == {n - x : x \in S}
<1>1. T \in SUBSET Nat
  <2>1. \A x \in S : n - x \in Nat
    OBVIOUS
  <2>2. QED
    BY <2>1
<1>2. T # {}
  OBVIOUS
<1>3. Min(T) \in T /\ \A y \in T : Min(T) <= y
  BY <1>1, <1>2, MinIsLeast
<1>4. PICK a \in S : Min(T) = n - a
  BY <1>3
<1>5. \A b \in S : n - a <= n - b
  BY <1>3, <1>4
<1>6. \A b \in S : a >= b
  BY <1>5
<1>7. QED
  BY <1>6 DEF Max

----------------------------------------------------------------------------
\* The conjuncts of TypeOK, by what they are about; the loop's with the shape
\* of what a worker holds.
OutboxRow(n) ==
    [event : Events, published : {"no", "fresh", "stale"}, message : 0 .. n, old : BOOLEAN]

OutboxTypes ==
    /\ nextRow \in 1 .. MaxRows + 1
    /\ DOMAIN outbox \subseteq 1 .. nextRow - 1
    /\ \A r \in DOMAIN outbox :
        outbox[r] \in OutboxRow(Len(log))

StreamTypes ==
    /\ log \in Seq(Ids)
    /\ Len(log) <= MaxMessages
    /\ idle \subseteq delivered
    /\ stream \cup delivered \subseteq 1 .. Len(log)
    /\ \A m \in delivered \ stream : Trimmable(m)
    /\ group \in BOOLEAN
    /\ lastId \in 0 .. Len(log)

ReconcileTypes ==
    /\ DOMAIN claimed = Workers
    /\ \A w \in Workers :
        /\ DOMAIN claimed[w] \subseteq DOMAIN outbox
        /\ \A r \in DOMAIN claimed[w] : claimed[w][r] \in 0 .. Len(log)
    /\ targets \in [Workers -> SUBSET Rows]

Places == {"begin", "publish", "delete", "consume", "attempt", "fail", "ack"}
Handling == {"attempt", "fail", "ack"}

ConsumeTypes ==
    /\ pc \in [Workers -> Places]
    /\ batch \in [Workers -> SUBSET (1 .. Len(log))]
    /\ \A w \in Workers : pc[w] \in Handling => batch[w] # {}
    /\ attempt \in [Workers -> 0 .. MaxRetries]
    /\ cursor \in [Workers -> 0 .. Len(log)]
    /\ faults \in 0 .. MaxFaults

Typed ==
    /\ LifecycleTypeOK
    /\ OutboxTypes
    /\ StreamTypes
    /\ ReconcileTypes
    /\ ConsumeTypes

LEMMA TypedIsTypeOK == Typed => TypeOK
BY DEF Typed, TypeOK, OutboxRow, OutboxTypes, StreamTypes, ReconcileTypes, ConsumeTypes, Places

LEMMA TypedInit == Init => Typed
<1> SUFFICES ASSUME Init PROVE Typed
  OBVIOUS
<1>1. LifecycleTypeOK
  BY DEF Init, LifecycleInit, LifecycleTypeOK, Statuses
<1>2. OutboxTypes
  BY PipelineAssumption DEF Init, OutboxTypes
<1>3. StreamTypes
  <2>1. <<>> \in Seq(Ids) /\ Len(<<>>) = 0
    OBVIOUS
  <2>2. QED
    <3>1. log = <<>> /\ Len(log) = 0 /\ Len(log) <= MaxMessages /\ log \in Seq(Ids)
      BY <2>1, PipelineAssumption DEF Init
    <3>2. /\ stream = {} /\ group = FALSE /\ lastId = 0 /\ delivered = {} /\ idle = {}
      BY DEF Init
    <3>3. {} \subseteq {} /\ {} \cup {} \subseteq 1 .. Len(log) /\ 0 \in 0 .. Len(log)
      BY <3>1
    <3>4. QED
      BY <3>1, <3>2, <3>3 DEF StreamTypes
<1>4. ReconcileTypes
  BY DEF Init, ReconcileTypes
<1>5. ConsumeTypes
  BY PipelineAssumption DEF Init, ConsumeTypes, Places, Handling
<1>6. QED
  BY <1>1, <1>2, <1>3, <1>4, <1>5 DEF Typed

\* The lifecycle's actions keep its types.
LEMMA LifecycleTyped ==
    ASSUME LifecycleTypeOK,
           \/ \E e \in Events : Accept(e) \/ Apply(e) \/ DeadLetter(e) \/ Requeue(e)
           \/ \E f \in Foreign : Reject(f)
           \/ UNCHANGED lifecycleVars
    PROVE  LifecycleTypeOK'
<1>1. CASE \E e \in Events : Accept(e)
  BY <1>1 DEF Accept, LifecycleTypeOK, Statuses
<1>2. CASE \E e \in Events : Apply(e)
  <2>1. PICK e \in Events : Apply(e)
    BY <1>2
  <2>2. CustomerOf[e] \in Customers
    BY LifecycleAssumption
  <2>3. tally[CustomerOf[e]] + 1 \in Nat
    BY <2>2 DEF LifecycleTypeOK
  <2>4. QED
    BY <2>1, <2>2, <2>3 DEF Apply, LifecycleTypeOK, Statuses
<1>3. CASE \E e \in Events : DeadLetter(e)
  BY <1>3 DEF DeadLetter, LifecycleTypeOK, Statuses, Ids
<1>4. CASE \E e \in Events : Requeue(e)
  BY <1>4 DEF Requeue, LifecycleTypeOK, Statuses, Ids
<1>5. CASE \E f \in Foreign : Reject(f)
  BY <1>5 DEF Reject, LifecycleTypeOK, Ids
<1>6. CASE UNCHANGED lifecycleVars
  BY <1>6 DEF LifecycleTypeOK, lifecycleVars
<1>7. QED
  BY <1>1, <1>2, <1>3, <1>4, <1>5, <1>6

\* A step that leaves the messages, the rows and the workers alone.
LEMMA OutboxFrame == OutboxTypes /\ UNCHANGED <<outboxVars, log>> => OutboxTypes'
BY DEF OutboxTypes, outboxVars
LEMMA StreamFrame == StreamTypes /\ UNCHANGED redisVars => StreamTypes'
BY DEF StreamTypes, Trimmable, redisVars, groupVars
LEMMA ReconcileFrame ==
    ReconcileTypes /\ UNCHANGED <<outbox, log, reconcileVars>> => ReconcileTypes'
BY DEF ReconcileTypes, reconcileVars
LEMMA ConsumeFrame ==
    ConsumeTypes /\ UNCHANGED <<log, pc, consumeVars, faults>> => ConsumeTypes'
BY DEF ConsumeTypes, consumeVars

LEMMA RowChanged ==
    ASSUME NEW n, NEW x \in OutboxRow(n), NEW m \in 0 .. n, NEW y,
           \/ y = [x EXCEPT !.published = "fresh", !.message = m]
           \/ y = [x EXCEPT !.published = "stale"]
           \/ y = [x EXCEPT !.old = TRUE]
    PROVE  y \in OutboxRow(n)
<1>1. PICK e \in Events, q \in {"no", "fresh", "stale"}, k \in 0 .. n, o \in BOOLEAN :
        x = [event |-> e, published |-> q, message |-> k, old |-> o]
  BY DEF OutboxRow
<1>2. QED
  BY <1>1 DEF OutboxRow

LEMMA RowAdded ==
    ASSUME Typed, NEW e \in Events, AddRow(e), UNCHANGED <<log, reconcileVars>>
    PROVE  OutboxTypes' /\ ReconcileTypes'
<1>1. NewRow(e) \in OutboxRow(Len(log))
  BY DEF OutboxRow, NewRow, NoMessage, Typed, StreamTypes
<1>2. /\ DOMAIN outbox' = DOMAIN outbox \cup {nextRow}
      /\ \A r \in DOMAIN outbox' : outbox'[r] = IF r = nextRow THEN NewRow(e) ELSE outbox[r]
      /\ nextRow <= MaxRows /\ nextRow' = nextRow + 1
  BY DEF AddRow
<1>3. OutboxTypes'
  BY <1>1, <1>2, PipelineAssumption DEF OutboxTypes, Typed
<1>4. ReconcileTypes'
  BY <1>2 DEF ReconcileTypes, Typed, reconcileVars
<1>5. QED
  BY <1>3, <1>4

LEMMA TypedIngest ==
    ASSUME Typed, NEW e \in Events, Ingest(e) \/ Replay(e)
    PROVE  Typed'
<1>1. /\ Accept(e) \/ Requeue(e)
      /\ AddRow(e)
      /\ UNCHANGED <<redisVars, pc, reconcileVars, consumeVars, faults>>
  BY DEF Ingest, Replay
<1>2. UNCHANGED log
  BY <1>1 DEF redisVars
<1>3. LifecycleTypeOK'
  BY <1>1, LifecycleTyped DEF Typed
<1>4. OutboxTypes' /\ ReconcileTypes'
  BY <1>1, <1>2, RowAdded
<1>5. StreamTypes' /\ ConsumeTypes'
  BY <1>1, <1>2, StreamFrame, ConsumeFrame DEF Typed
<1>6. QED
  BY <1>3, <1>4, <1>5 DEF Typed

LEMMA TypedClaim ==
    ASSUME Typed, NEW w \in Workers, Claim(w)
    PROVE  Typed'
<1>1. LifecycleTypeOK' /\ OutboxTypes'
  BY LifecycleTyped, OutboxFrame DEF Claim, Typed
<1>2. StreamTypes'
  BY DEF Claim, Typed, StreamTypes, Trimmable
<1>3. PICK rows \in SUBSET DOMAIN outbox :
        claimed' = [claimed EXCEPT ![w] = [r \in rows |-> NoMessage]]
  BY DEF Claim, FirstN
<1>4. ReconcileTypes'
  <2>1. UNCHANGED <<outbox, log, targets>> /\ Len(log) \in Nat
    BY DEF Claim, outboxVars, Typed, StreamTypes
  <2>2. /\ DOMAIN claimed' = Workers
        /\ DOMAIN claimed'[w] = rows /\ \A r \in rows : claimed'[w][r] = 0
        /\ \A v \in Workers \ {w} : claimed'[v] = claimed[v]
    BY <1>3 DEF Typed, ReconcileTypes, NoMessage
  <2>3. QED
    BY <2>1, <2>2 DEF Typed, ReconcileTypes
<1>5. ConsumeTypes'
  BY DEF Claim, Typed, ConsumeTypes, Places, Handling, consumeVars
<1>6. QED
  BY <1>1, <1>2, <1>4, <1>5 DEF Typed

\* A message is added to the end of the stream, for a claimed row or not; one of
\* seed-live pushes others out.
LEMMA MessageAdded ==
    ASSUME Typed, NEW id \in Ids, Len(log) < MaxMessages, log' = Append(log, id),
           stream' \subseteq stream \cup {Len(log) + 1},
           stream \subseteq stream' \/ id \in Demo,
           UNCHANGED <<lifecycleVars, outboxVars, groupVars, pc, targets, consumeVars, faults>>
    PROVE  /\ LifecycleTypeOK' /\ OutboxTypes' /\ StreamTypes' /\ ConsumeTypes'
           /\ Len(log) \in Nat /\ Len(log') = Len(log) + 1
<1>1. /\ Len(log) \in Nat /\ Len(log') = Len(log) + 1
      /\ 1 .. Len(log) \subseteq 1 .. Len(log') /\ Len(log) + 1 \in 1 .. Len(log')
  BY DEF Typed, StreamTypes
<1>2. LifecycleTypeOK'
  BY LifecycleTyped DEF Typed
<1>3. OutboxTypes'
  <2>1. \A x \in OutboxRow(Len(log)) : x \in OutboxRow(Len(log'))
    BY <1>1 DEF OutboxRow
  <2>2. QED
    BY <2>1 DEF Typed, OutboxTypes, outboxVars
<1>4. StreamTypes'
  <2>1. /\ log' \in Seq(Ids) /\ log'[Len(log) + 1] = id
        /\ \A n \in 1 .. Len(log) : log'[n] = log[n]
    <3>1. log \in Seq(Ids)
      BY DEF Typed, StreamTypes
    <3>2. QED
      BY <3>1
  <2>2. Len(log') <= MaxMessages
    BY <1>1, PipelineAssumption
  <2>3. UNCHANGED <<group, lastId, delivered, idle>>
    BY DEF groupVars
  <2>4. stream' \cup delivered \subseteq 1 .. Len(log')
    BY <1>1 DEF Typed, StreamTypes
  <2>5. lastId \in 0 .. Len(log')
    BY <1>1 DEF Typed, StreamTypes
  <2>6. ASSUME NEW m \in delivered \ stream' PROVE Trimmable(m)'
    <3>1. CASE m \in stream
      <4>1. id \in Demo
        BY <2>6, <3>1
      <4>2. m < Len(log) + 1
        BY <1>1, <3>1 DEF Typed, StreamTypes
      <4>3. QED
        BY <1>1, <2>1, <4>1, <4>2 DEF Trimmable
    <3>2. CASE m \notin stream
      <4>1. PICK n \in 1 .. Len(log) : m < n /\ log[n] \in Demo
        BY <2>6, <3>2 DEF Typed, StreamTypes, Trimmable
      <4>2. QED
        BY <1>1, <2>1, <4>1 DEF Trimmable
    <3>3. QED
      BY <3>1, <3>2
  <2>7. QED
    BY <2>1, <2>2, <2>3, <2>4, <2>5, <2>6 DEF Typed, StreamTypes
<1>5. ConsumeTypes'
  <2>1. batch \in [Workers -> SUBSET (1 .. Len(log'))]
    BY <1>1 DEF Typed, ConsumeTypes
  <2>2. cursor \in [Workers -> 0 .. Len(log')]
    BY <1>1 DEF Typed, ConsumeTypes
  <2>3. QED
    BY <2>1, <2>2 DEF Typed, ConsumeTypes, consumeVars
<1>6. QED
  BY <1>1, <1>2, <1>3, <1>4, <1>5

\* An entry that no row produced enters the stream.
EntryAdded(f) ==
    /\ Len(log) < MaxMessages
    /\ log' = Append(log, f)
    /\ stream' \subseteq stream \cup {Len(log) + 1}
    /\ stream \subseteq stream' \/ f \in Demo
    /\ UNCHANGED <<lifecycleVars, outboxVars, groupVars, pc, reconcileVars, consumeVars, faults>>

LEMMA EntriesAdded ==
    /\ \A f \in Foreign : ForeignMessage(f) => EntryAdded(f)
    /\ \A f \in Demo : SeedLive(f) => f \in Foreign /\ EntryAdded(f)
<1>1. ASSUME NEW f \in Foreign, ForeignMessage(f) PROVE EntryAdded(f)
  BY <1>1 DEF ForeignMessage, EntryAdded
<1>2. ASSUME NEW f \in Demo, SeedLive(f) PROVE f \in Foreign /\ EntryAdded(f)
  <2>1. stream' \subseteq stream \cup {Len(log) + 1}
    BY <1>2 DEF SeedLive
  <2>2. QED
    BY <1>2, <2>1, PipelineAssumption DEF SeedLive, EntryAdded
<1>3. QED
  BY <1>1, <1>2

LEMMA TypedEntry ==
    ASSUME Typed, NEW f \in Foreign, EntryAdded(f)
    PROVE  Typed'
<1>1. /\ LifecycleTypeOK' /\ OutboxTypes' /\ StreamTypes' /\ ConsumeTypes'
      /\ Len(log) \in Nat /\ Len(log') = Len(log) + 1
  BY MessageAdded DEF EntryAdded, Ids, reconcileVars
<1>2. ReconcileTypes'
  BY <1>1 DEF EntryAdded, Typed, ReconcileTypes, reconcileVars, outboxVars
<1>3. QED
  BY <1>1, <1>2 DEF Typed

LEMMA TypedPublish ==
    ASSUME Typed, NEW w \in Workers, PublishRow(w)
    PROVE  Typed'
<1> DEFINE r == Min(Unhandled(w))
<1>1. r \in DOMAIN claimed[w] /\ r \in DOMAIN outbox
  <2>1. Unhandled(w) \in SUBSET Nat /\ Unhandled(w) # {}
    BY DEF PublishRow, Unhandled, Typed, OutboxTypes, ReconcileTypes
  <2>2. r \in Unhandled(w)
    BY <2>1, MinIsLeast
  <2>3. QED
    BY <2>2 DEF Unhandled, Typed, ReconcileTypes
<1>2. \/ /\ claimed' = [claimed EXCEPT ![w][r] = outbox[r].message]
         /\ UNCHANGED <<log, stream>>
      \/ /\ Len(log) < MaxMessages
         /\ log' = Append(log, outbox[r].event)
         /\ stream' = stream \cup {Len(log) + 1}
         /\ claimed' = [claimed EXCEPT ![w][r] = Len(log) + 1]
  BY DEF PublishRow
<1> HIDE DEF r
<1>3. UNCHANGED <<lifecycleVars, outboxVars, groupVars, pc, targets, consumeVars, faults>>
  BY DEF PublishRow
<1>4. PICK m : claimed' = [claimed EXCEPT ![w][r] = m] /\ m \in 0 .. Len(log')
  BY <1>1, <1>2, SMTT(20) DEF Typed, OutboxTypes, OutboxRow, StreamTypes
<1>5. Len(log) \in Nat /\ Len(log') \in Nat /\ Len(log) <= Len(log')
  BY <1>1, <1>2 DEF Typed, OutboxTypes, OutboxRow, StreamTypes, Ids
<1>6. ReconcileTypes'
  <2>1. /\ DOMAIN claimed' = Workers
        /\ DOMAIN claimed'[w] = DOMAIN claimed[w]
        /\ \A x \in DOMAIN claimed[w] : claimed'[w][x] \in {m, claimed[w][x]}
        /\ \A v \in Workers \ {w} : claimed'[v] = claimed[v]
    BY <1>4 DEF Typed, ReconcileTypes
  <2>2. UNCHANGED <<outbox, targets>>
    BY <1>3 DEF outboxVars
  <2>3. QED
    BY <2>1, <2>2, <1>4, <1>5 DEF Typed, ReconcileTypes
<1>7. LifecycleTypeOK' /\ OutboxTypes' /\ StreamTypes' /\ ConsumeTypes'
  <2>1. CASE UNCHANGED <<log, stream>>
    BY <1>3, <2>1, LifecycleTyped, OutboxFrame, StreamFrame, ConsumeFrame DEF Typed, redisVars
  <2>2. CASE /\ Len(log) < MaxMessages
             /\ log' = Append(log, outbox[r].event)
             /\ stream' = stream \cup {Len(log) + 1}
    <3>1. outbox[r].event \in Ids
      BY <1>1 DEF Typed, OutboxTypes, OutboxRow, Ids
    <3>2. QED
      BY <1>3, <2>2, <3>1, MessageAdded
  <2>3. QED
    BY <1>2, <2>1, <2>2
<1>8. QED
  BY <1>6, <1>7 DEF Typed

LEMMA TypedCleanup ==
    ASSUME Typed, NEW w \in Workers, StartCleanup(w)
    PROVE  Typed'
<1>1. LifecycleTypeOK' /\ OutboxTypes' /\ StreamTypes'
  BY LifecycleTyped, OutboxFrame, StreamFrame DEF StartCleanup, Typed, redisVars
<1>2. DOMAIN outbox \subseteq Rows
  BY PipelineAssumption DEF Typed, OutboxTypes, Rows
<1>3. ReconcileTypes'
  BY <1>2 DEF StartCleanup, Typed, ReconcileTypes, outboxVars, redisVars
<1>4. ConsumeTypes'
  BY DEF StartCleanup, Typed, ConsumeTypes, Places, Handling, consumeVars, redisVars
<1>5. QED
  BY <1>1, <1>3, <1>4 DEF Typed

LEMMA TypedCommit ==
    ASSUME Typed, NEW w \in Workers, CommitReconcile(w)
    PROVE  Typed'
<1>1. LifecycleTypeOK' /\ StreamTypes'
  BY LifecycleTyped, StreamFrame DEF CommitReconcile, Typed
<1>2. OutboxTypes'
  <2>1. \A r \in DOMAIN outbox :
            r \in DOMAIN claimed[w] =>
                [outbox[r] EXCEPT !.published = "fresh", !.message = claimed[w][r]]
                    \in OutboxRow(Len(log))
    BY RowChanged DEF Typed, OutboxTypes, ReconcileTypes
  <2>2. UNCHANGED <<log, nextRow>> /\ DOMAIN outbox' \subseteq DOMAIN outbox
    BY DEF CommitReconcile, redisVars
  <2>3. \A r \in DOMAIN outbox' : outbox'[r] \in OutboxRow(Len(log))
    BY <2>1 DEF CommitReconcile, Typed, OutboxTypes
  <2>4. QED
    BY <2>2, <2>3 DEF Typed, OutboxTypes
<1>3. ReconcileTypes'
  <2>1. /\ DOMAIN claimed' = Workers /\ DOMAIN claimed'[w] = {}
        /\ \A v \in Workers \ {w} : claimed'[v] = claimed[v]
    <3>1. DOMAIN <<>> = {}
      OBVIOUS
    <3>2. DOMAIN claimed = Workers /\ claimed' = [claimed EXCEPT ![w] = <<>>]
      BY DEF CommitReconcile, Typed, ReconcileTypes
    <3>3. QED
      BY <3>1, <3>2
  <2>2. \A v \in Workers \ {w} : DOMAIN claimed[v] \cap targets[w] = {}
    BY DEF CommitReconcile, Blocked, LockedByOther
  <2>3. DOMAIN outbox' = DOMAIN outbox \ targets[w] /\ UNCHANGED log
    BY DEF CommitReconcile, redisVars
  <2>4. targets' \in [Workers -> SUBSET Rows]
    BY DEF CommitReconcile, Typed, ReconcileTypes
  <2>5. QED
    BY <2>1, <2>2, <2>3, <2>4 DEF Typed, ReconcileTypes
<1>4. ConsumeTypes'
  BY DEF CommitReconcile, Typed, ConsumeTypes, Places, Handling, consumeVars, redisVars
<1>5. QED
  BY <1>1, <1>2, <1>3, <1>4 DEF Typed

\* Abandoning: what the worker held is let go.
LEMMA LetGo ==
    ASSUME Typed, NEW w \in Workers, Abandon(w), faults' \in 0 .. MaxFaults,
           cursor' \in [Workers -> 0 .. Len(log)]
    PROVE  Typed'
<1>1. LifecycleTypeOK' /\ OutboxTypes' /\ StreamTypes'
  BY LifecycleTyped, OutboxFrame, StreamFrame DEF Abandon, Typed, redisVars
<1>2. ReconcileTypes'
  <2>1. DOMAIN <<>> = {}
    OBVIOUS
  <2>2. /\ UNCHANGED <<outbox, log>> /\ claimed' = [claimed EXCEPT ![w] = <<>>]
        /\ targets' = [targets EXCEPT ![w] = {}]
    BY DEF Abandon, outboxVars, redisVars
  <2>3. QED
    BY <2>1, <2>2 DEF Typed, ReconcileTypes
<1>3. ConsumeTypes'
  <2>1. UNCHANGED log /\ 0 \in 0 .. MaxRetries /\ {} \subseteq 1 .. Len(log)
    BY PipelineAssumption DEF Abandon, redisVars
  <2>2. pc' \in [Workers -> Places] /\ \A v \in Workers : pc'[v] \in Handling => v # w /\ pc[v] = pc'[v]
    BY DEF Abandon, Typed, ConsumeTypes, Places, Handling
  <2>3. /\ batch' \in [Workers -> SUBSET (1 .. Len(log))]
        /\ \A v \in Workers : v # w => batch'[v] = batch[v]
    BY <2>1 DEF Abandon, Typed, ConsumeTypes
  <2>4. attempt' \in [Workers -> 0 .. MaxRetries]
    BY <2>1 DEF Abandon, Typed, ConsumeTypes
  <2>5. QED
    BY <2>1, <2>2, <2>3, <2>4 DEF Typed, ConsumeTypes
<1>4. QED
  BY <1>1, <1>2, <1>3 DEF Typed

LEMMA TypedAbandon ==
    ASSUME Typed, NEW w \in Workers,
           FailEventRaises(w) \/ DeadlockAbort(w) \/ Interrupted(w)
    PROVE  Typed'
<1>1. Abandon(w)
  BY DEF FailEventRaises, DeadlockAbort, Interrupted
<1>2. faults' \in 0 .. MaxFaults
  BY PipelineAssumption DEF FailEventRaises, DeadlockAbort, Interrupted, Typed, ConsumeTypes
<1>3. cursor' \in [Workers -> 0 .. Len(log)]
  <2>1. Len(log) \in Nat
    BY DEF Typed, StreamTypes
  <2>2. QED
    BY <2>1 DEF FailEventRaises, DeadlockAbort, Interrupted, Typed, ConsumeTypes
<1>4. QED
  BY <1>1, <1>2, <1>3, LetGo

LEMMA TypedLoss ==
    ASSUME Typed, RedisLoss
    PROVE  Typed'
<1>1. LifecycleTypeOK' /\ OutboxTypes' /\ ReconcileTypes'
  BY LifecycleTyped, OutboxFrame, ReconcileFrame DEF RedisLoss, Typed, outboxVars
<1>2. StreamTypes'
  <2>1. UNCHANGED log /\ 0 \in 0 .. Len(log) /\ FALSE \in BOOLEAN
    BY DEF RedisLoss, Typed, StreamTypes
  <2>2. stream' = {} /\ group' = FALSE /\ lastId' = 0 /\ delivered' = {} /\ idle' = {}
    BY DEF RedisLoss
  <2>3. {} \subseteq {} /\ {} \subseteq 1 .. Len(log)
    OBVIOUS
  <2>4. QED
    BY <2>1, <2>2, <2>3 DEF Typed, StreamTypes
<1>3. ConsumeTypes'
  BY PipelineAssumption DEF RedisLoss, Typed, ConsumeTypes, Places, Handling, consumeVars
<1>4. QED
  BY <1>1, <1>2, <1>3 DEF Typed

LEMMA TypedTimes ==
    ASSUME Typed,
           \/ \E m \in delivered : TurnsIdle(m)
           \/ \E r \in DOMAIN outbox : TurnsStale(r) \/ TurnsOld(r)
    PROVE  Typed'
<1>1. CASE \E m \in delivered : TurnsIdle(m)
  <2>1. LifecycleTypeOK' /\ OutboxTypes' /\ ReconcileTypes' /\ ConsumeTypes'
    BY <1>1, LifecycleTyped, OutboxFrame, ReconcileFrame, ConsumeFrame
       DEF TurnsIdle, Typed, outboxVars
  <2>2. StreamTypes'
    BY <1>1 DEF TurnsIdle, Typed, StreamTypes, Trimmable
  <2>3. QED
    BY <2>1, <2>2 DEF Typed
<1>2. CASE \E r \in DOMAIN outbox : TurnsStale(r) \/ TurnsOld(r)
  <2>1. PICK r \in DOMAIN outbox : TurnsStale(r) \/ TurnsOld(r)
    BY <1>2
  <2>2. UNCHANGED <<lifecycleVars, nextRow, redisVars, pc, reconcileVars, consumeVars, faults>>
    BY <2>1 DEF TurnsStale, TurnsOld
  <2>3. LifecycleTypeOK' /\ StreamTypes' /\ ConsumeTypes'
    BY <2>2, LifecycleTyped, StreamFrame, ConsumeFrame DEF Typed, redisVars
  <2>4. DOMAIN outbox' = DOMAIN outbox
    BY <2>1 DEF TurnsStale, TurnsOld
  <2>5. ReconcileTypes'
    BY <2>2, <2>4 DEF Typed, ReconcileTypes, reconcileVars, redisVars
  <2>6. OutboxTypes'
    <3>1. \A x \in DOMAIN outbox :
            \/ outbox'[x] = outbox[x]
            \/ outbox'[x] = [outbox[x] EXCEPT !.published = "stale"]
            \/ outbox'[x] = [outbox[x] EXCEPT !.old = TRUE]
      BY <2>1 DEF TurnsStale, TurnsOld
    <3>2. \A x \in DOMAIN outbox : outbox'[x] \in
            OutboxRow(Len(log))
      <4>1. \A x \in DOMAIN outbox : outbox[x] \in OutboxRow(Len(log)) /\ 0 \in 0 .. Len(log)
        BY DEF Typed, OutboxTypes, StreamTypes
      <4>2. QED
        BY <3>1, <4>1, RowChanged
    <3>3. UNCHANGED <<nextRow, log>>
      BY <2>2 DEF redisVars
    <3>4. QED
      BY <2>4, <3>2, <3>3 DEF Typed, OutboxTypes
  <2>7. QED
    BY <2>3, <2>5, <2>6 DEF Typed
<1>3. QED
  BY <1>1, <1>2

\* What consume returns is a part of the stream.
LEMMA Taken ==
    ASSUME Typed, NEW w \in Workers, NEW S \in SUBSET (1 .. Len(log)), Take(w, S),
           cursor' \in [Workers -> 0 .. Len(log)]
    PROVE  LifecycleTypeOK' /\ OutboxTypes' /\ ReconcileTypes' /\ ConsumeTypes'
<1>1. LifecycleTypeOK' /\ OutboxTypes' /\ ReconcileTypes'
  BY LifecycleTyped, OutboxFrame, ReconcileFrame DEF Take, Typed, outboxVars
<1>2. UNCHANGED <<log, faults>> /\ 0 \in 0 .. MaxRetries
  BY PipelineAssumption DEF Take
<1>3. pc' \in [Workers -> Places]
  BY DEF Take, Typed, ConsumeTypes, Places
<1>4. batch' = [batch EXCEPT ![w] = S] /\ batch' \in [Workers -> SUBSET (1 .. Len(log))]
  BY DEF Take, Typed, ConsumeTypes
<1>5. \A v \in Workers : pc'[v] \in Handling => batch'[v] # {}
  BY <1>4 DEF Take, Typed, ConsumeTypes, Handling
<1>6. attempt' \in [Workers -> 0 .. MaxRetries]
  BY <1>2 DEF Take, Typed, ConsumeTypes
<1>7. QED
  BY <1>1, <1>2, <1>3, <1>4, <1>5, <1>6 DEF Typed, ConsumeTypes

\* XAUTOCLAIM finds pending entries, and leaves a cursor among them.
LEMMA ClaimTypes ==
    ASSUME Typed, NEW w \in Workers
    PROVE  /\ Found(w) \subseteq delivered
           /\ Claimable(w) \subseteq 1 .. Len(log)
           /\ NextCursor(w) \in 0 .. Len(log)
<1>1. Len(log) \in Nat /\ delivered \subseteq 1 .. Len(log)
  BY DEF Typed, StreamTypes
<1>2. Found(w) \subseteq delivered
  BY DEF Found, Scanned, FirstN
<1>3. NextCursor(w) \in 0 .. Len(log)
  <2>1. PICK after \in SUBSET delivered : NextCursor(w) = IF after = {} THEN 0 ELSE Min(after)
    BY DEF NextCursor
  <2>2. CASE after = {}
    BY <1>1, <2>1, <2>2
  <2>3. CASE after # {}
    <3>1. after \in SUBSET Nat
      BY <1>1
    <3>2. Min(after) \in 1 .. Len(log)
      BY <1>1, <2>3, <3>1, MinIsLeast
    <3>3. NextCursor(w) = Min(after)
      BY <2>1, <2>3
    <3>4. QED
      BY <1>1, <3>2, <3>3
  <2>4. QED
    BY <2>2, <2>3
<1>4. QED
  BY <1>1, <1>2, <1>3 DEF Claimable

LEMMA TypedConsumeClaimed ==
    ASSUME Typed, NEW w \in Workers, ConsumeClaimed(w)
    PROVE  Typed'
<1>1. cursor' \in [Workers -> 0 .. Len(log)]
  BY ClaimTypes DEF ConsumeClaimed, Typed, ConsumeTypes
<1>2. LifecycleTypeOK' /\ OutboxTypes' /\ ReconcileTypes' /\ ConsumeTypes'
  BY <1>1, ClaimTypes, Taken DEF ConsumeClaimed
<1>3. /\ delivered' = delivered \ Dangling(w) /\ idle' = idle \ Found(w)
      /\ UNCHANGED <<lastId, log, stream, group>>
  BY DEF ConsumeClaimed, Take
<1>4. idle' \subseteq delivered'
  BY <1>3 DEF Dangling, Typed, StreamTypes
<1>5. StreamTypes'
  BY <1>3, <1>4 DEF Typed, StreamTypes, Trimmable
<1>6. QED
  BY <1>2, <1>5 DEF Typed

LEMMA TypedConsumeNew ==
    ASSUME Typed, NEW w \in Workers, ConsumeNew(w)
    PROVE  Typed'
<1> DEFINE fresh == FirstN({m \in stream : m > lastId}, WorkerBatch)
<1>1. /\ Len(log) \in Nat /\ fresh \subseteq stream /\ stream \subseteq 1 .. Len(log)
      /\ lastId \in 0 .. Len(log)
  BY DEF Typed, StreamTypes, FirstN
<1>2. /\ delivered' = (delivered \ Dangling(w)) \cup fresh
      /\ lastId' = (IF fresh = {} THEN lastId ELSE Max(fresh))
      /\ cursor' = [cursor EXCEPT ![w] = NextCursor(w)]
      /\ idle' = idle \ Dangling(w)
      /\ Take(w, fresh)
  BY DEF ConsumeNew
<1> HIDE DEF fresh
<1>3. cursor' \in [Workers -> 0 .. Len(log)]
  BY <1>2, ClaimTypes DEF Typed, ConsumeTypes
<1>4. LifecycleTypeOK' /\ OutboxTypes' /\ ReconcileTypes' /\ ConsumeTypes'
  BY <1>1, <1>2, <1>3, Taken
<1>5. lastId' \in 0 .. Len(log)
  <2>1. fresh # {} => Max(fresh) \in fresh
    BY <1>1, MaxIsMember
  <2>2. QED
    BY <1>1, <1>2, <2>1
<1>6. UNCHANGED <<log, stream, group>>
  BY <1>2 DEF Take
<1>7. /\ idle' \subseteq delivered'
      /\ stream \cup delivered' \subseteq 1 .. Len(log)
      /\ \A m \in delivered' \ stream : Trimmable(m)
  BY <1>1, <1>2 DEF Typed, StreamTypes
<1>8. StreamTypes'
  BY <1>5, <1>6, <1>7 DEF Typed, StreamTypes, Trimmable
<1>9. QED
  BY <1>4, <1>8 DEF Typed

\* The message in hand is one of the batch, and carries an id.
LEMMA InHandType ==
    ASSUME Typed, NEW w \in Workers, pc[w] \in Handling
    PROVE  InHand(w) \in batch[w] /\ InHand(w) \in 1 .. Len(log) /\ Current(w) \in Ids
<1>1. batch[w] \in SUBSET (1 .. Len(log)) /\ batch[w] # {}
  BY DEF Typed, ConsumeTypes
<1>2. InHand(w) \in batch[w]
  BY <1>1, MinIsLeast DEF InHand
<1>3. QED
  BY <1>1, <1>2 DEF Current, Typed, StreamTypes

\* Handling the message in hand moves the worker on, within its batch.
LEMMA MovesOn ==
    ASSUME Typed, NEW w \in Workers, pc[w] \in Handling,
           \/ UNCHANGED <<pc, consumeVars>>
           \/ \E p \in Handling : pc' = [pc EXCEPT ![w] = p] /\ UNCHANGED consumeVars
           \/ Retry(w) /\ UNCHANGED <<batch, cursor>>,
           UNCHANGED <<log, faults>>
    PROVE  ConsumeTypes'
<1>1. pc' \in [Workers -> Places]
  BY DEF Retry, Typed, ConsumeTypes, Places, Handling
<1>2. \A v \in Workers : pc'[v] \in Handling => pc[v] \in Handling
  BY DEF Retry, Typed, ConsumeTypes, Handling
<1>3. attempt' \in [Workers -> 0 .. MaxRetries]
  BY PipelineAssumption DEF Retry, Typed, ConsumeTypes, consumeVars
<1>4. QED
  BY <1>1, <1>2, <1>3 DEF Typed, ConsumeTypes, consumeVars

LEMMA TypedAttempt ==
    ASSUME Typed, NEW w \in Workers,
           AttemptSucceeds(w) \/ AttemptFails(w) \/ AttemptUnconfirmed(w) \/ FailEvent(w)
    PROVE  Typed'
<1>1. pc[w] \in Handling
  BY DEF AttemptSucceeds, AttemptFails, AttemptUnconfirmed, FailEvent, Handling
<1>2. UNCHANGED <<outboxVars, redisVars, reconcileVars, faults>>
  BY DEF AttemptSucceeds, AttemptFails, AttemptUnconfirmed, FailEvent
<1>3. LifecycleTypeOK'
  <2>1. Current(w) \in Ids
    BY <1>1, InHandType
  <2>2. \/ \E e \in Events : Apply(e) \/ DeadLetter(e)
        \/ \E f \in Foreign : Reject(f)
        \/ UNCHANGED lifecycleVars
    BY <2>1 DEF AttemptSucceeds, AttemptFails, AttemptUnconfirmed, FailEvent, Ids
  <2>3. QED
    BY <2>2, LifecycleTyped DEF Typed
<1>4. OutboxTypes' /\ StreamTypes' /\ ReconcileTypes'
  BY <1>2, OutboxFrame, StreamFrame, ReconcileFrame DEF Typed, outboxVars, redisVars
<1>5. ConsumeTypes'
  <2>1. \/ \E p \in Handling : pc' = [pc EXCEPT ![w] = p] /\ UNCHANGED consumeVars
        \/ Retry(w) /\ UNCHANGED <<batch, cursor>>
    BY DEF AttemptSucceeds, AttemptFails, AttemptUnconfirmed, FailEvent, Handling
  <2>2. QED
    BY <1>1, <1>2, <2>1, MovesOn DEF redisVars
<1>6. QED
  BY <1>3, <1>4, <1>5 DEF Typed

LEMMA TypedAck ==
    ASSUME Typed, NEW w \in Workers, Ack(w)
    PROVE  Typed'
<1> DEFINE m == InHand(w)
<1>1. LifecycleTypeOK' /\ OutboxTypes' /\ ReconcileTypes'
  BY LifecycleTyped, OutboxFrame, ReconcileFrame DEF Ack, Typed, outboxVars
<1>2. /\ stream' = stream \ {m} /\ delivered' = delivered \ {m} /\ idle' = idle \ {m}
      /\ batch' = [batch EXCEPT ![w] = batch[w] \ {m}]
      /\ attempt' = [attempt EXCEPT ![w] = 0]
      /\ pc' = [pc EXCEPT ![w] = IF batch[w] = {m} THEN "begin" ELSE "attempt"]
      /\ UNCHANGED <<log, group, lastId, cursor, faults>>
  BY DEF Ack
<1>3. batch[w] # {}
  BY DEF Ack, Typed, ConsumeTypes, Handling
<1> HIDE DEF m
<1>4. StreamTypes'
  BY <1>2 DEF Typed, StreamTypes, Trimmable
<1>5. ConsumeTypes'
  <2>1. pc' \in [Workers -> Places]
    BY <1>2 DEF Typed, ConsumeTypes, Places
  <2>2. batch' \in [Workers -> SUBSET (1 .. Len(log))]
    BY <1>2 DEF Typed, ConsumeTypes
  <2>3. \A v \in Workers : pc'[v] \in Handling => batch'[v] # {}
    BY <1>2, <1>3 DEF Typed, ConsumeTypes, Handling
  <2>4. 0 \in 0 .. MaxRetries
    BY PipelineAssumption
  <2>5. attempt' \in [Workers -> 0 .. MaxRetries]
    BY <1>2, <2>4 DEF Typed, ConsumeTypes
  <2>6. QED
    BY <1>2, <2>1, <2>2, <2>3, <2>5 DEF Typed, ConsumeTypes
<1>6. QED
  BY <1>1, <1>4, <1>5 DEF Typed

LEMMA TypedStep == Typed /\ [Next]_vars => Typed'
<1> SUFFICES ASSUME Typed, [Next]_vars PROVE Typed'
  OBVIOUS
<1>1. ASSUME NEW e \in Events, Ingest(e) \/ Replay(e) PROVE Typed'
  BY <1>1, TypedIngest
<1>2. ASSUME NEW w \in Workers, Reconcile(w) PROVE Typed'
  BY <1>2, TypedClaim, TypedPublish, TypedCleanup, TypedCommit DEF Reconcile
<1>3. ASSUME NEW w \in Workers, ConsumeWithoutGroup(w) PROVE Typed'
  <2>1. LifecycleTypeOK' /\ OutboxTypes' /\ StreamTypes' /\ ReconcileTypes'
    BY <1>3, LifecycleTyped, OutboxFrame, StreamFrame, ReconcileFrame
       DEF ConsumeWithoutGroup, Typed, outboxVars, redisVars
  <2>2. ConsumeTypes'
    BY <1>3 DEF ConsumeWithoutGroup, Typed, ConsumeTypes, Places, Handling, consumeVars, redisVars
  <2>3. QED
    BY <2>1, <2>2 DEF Typed
<1>4. ASSUME NEW w \in Workers, Handle(w) \/ DeadlockAbort(w) \/ Interrupted(w) PROVE Typed'
  BY <1>4, TypedAttempt, TypedAck, TypedAbandon DEF Handle
<1>5. ASSUME NEW w \in Workers, Iterate(w) PROVE Typed'
  BY <1>2, <1>3, <1>4, <1>5, TypedConsumeClaimed, TypedConsumeNew DEF Iterate, Consume
<1>6. CASE UNCHANGED vars
  BY <1>6, LifecycleTyped, OutboxFrame, StreamFrame, ReconcileFrame, ConsumeFrame
     DEF Typed, vars, outboxVars, redisVars
<1>7. QED
  BY <1>1, <1>4, <1>5, <1>6, TypedLoss, EntriesAdded, TypedEntry, TypedTimes DEF Next

\* The counters, cursors and claims of the pipeline stay in their ranges, the
\* claimed rows exist, and a pending entry that is no longer in the stream is
\* older than an entry of seed-live, which may have trimmed it.
THEOREM TypeCorrect == Spec => []TypeOK
<1>1. Spec => []Typed
  BY TypedInit, TypedStep, PTL DEF Spec
<1>2. QED
  BY <1>1, TypedIsTypeOK, PTL

----------------------------------------------------------------------------
\* The columns of an outbox row.
IsRow(x) == x = [event |-> x.event, published |-> x.published,
                 message |-> x.message, old |-> x.old]

\* Rows are numbered below nextRow, and a cleanup has found existing ones.
OutboxShape ==
    /\ status \in [Events -> Statuses]
    /\ nextRow \in Nat \ {0}
    /\ DOMAIN outbox \subseteq 1 .. nextRow - 1
    /\ \A r \in DOMAIN outbox : IsRow(outbox[r]) /\ outbox[r].event \in Events
    /\ targets \in [Workers -> SUBSET (1 .. nextRow - 1)]

Covered == OutboxShape /\ PendingHasOutbox

\* Nothing in an outbox row but its event matters here.
SameEvents ==
    /\ DOMAIN outbox' = DOMAIN outbox
    /\ \A r \in DOMAIN outbox : IsRow(outbox'[r]) /\ outbox'[r].event = outbox[r].event

\* y is x but for columns other than its event.
Updates(x, y) ==
    \E p, m, o : \/ y = x
                 \/ y = [x EXCEPT !.published = p, !.message = m]
                 \/ y = [x EXCEPT !.published = p]
                 \/ y = [x EXCEPT !.old = o]

LEMMA RowUpdate ==
    ASSUME NEW x, IsRow(x), NEW y, Updates(x, y)
    PROVE  IsRow(y) /\ y.event = x.event
<1>1. PICK e, q, n, o : x = [event |-> e, published |-> q, message |-> n, old |-> o]
  BY DEF IsRow
<1>2. \E q1, n1, o1 : y = [event |-> e, published |-> q1, message |-> n1, old |-> o1]
  BY <1>1 DEF Updates
<1>3. QED
  BY <1>1, <1>2 DEF IsRow

\* Steps that neither accept nor settle an event, nor touch row or cleanup.
LEMMA QuietStep ==
    ASSUME Covered, UNCHANGED <<status, nextRow, targets>>, SameEvents
    PROVE  Covered'
<1>1. OutboxShape'
  BY DEF Covered, OutboxShape, SameEvents
<1>2. PendingHasOutbox'
  BY DEF Covered, OutboxShape, SameEvents, PendingHasOutbox
<1>3. QED
  BY <1>1, <1>2 DEF Covered

LEMMA SameOutbox == Covered /\ UNCHANGED outbox => SameEvents
BY DEF Covered, OutboxShape, SameEvents

\* Settling an event, and giving up a cleanup, ask for less than before.
LEMMA LessToCover ==
    ASSUME Covered, UNCHANGED <<outbox, nextRow>>, status' \in [Events -> Statuses],
           \A e \in Events : status'[e] = "pending" => status[e] = "pending",
           targets' \in [Workers -> SUBSET (1 .. nextRow - 1)],
           \A w \in Workers : targets'[w] \subseteq targets[w]
    PROVE  Covered'
<1>1. OutboxShape'
  BY DEF Covered, OutboxShape
<1>2. PendingHasOutbox'
  BY DEF Covered, PendingHasOutbox
<1>3. QED
  BY <1>1, <1>2 DEF Covered

\* A new row covers its event, whatever the cleanups in progress delete.
LEMMA NewRowCovers ==
    ASSUME Covered, NEW e \in Events, AddRow(e), UNCHANGED targets,
           status' = [status EXCEPT ![e] = "pending"]
    PROVE  Covered'
<1>1. /\ nextRow \in Nat \ {0} /\ nextRow' = nextRow + 1
      /\ DOMAIN outbox' = DOMAIN outbox \cup {nextRow}
      /\ outbox'[nextRow] = NewRow(e)
      /\ \A r \in DOMAIN outbox : r # nextRow /\ outbox'[r] = outbox[r]
  BY DEF AddRow, Covered, OutboxShape
<1>2. IsRow(NewRow(e)) /\ NewRow(e).event = e
  BY DEF IsRow, NewRow
<1>3. \A w \in Workers : nextRow \notin targets[w]
  BY <1>1 DEF Covered, OutboxShape
<1>4. DOMAIN outbox' \subseteq 1 .. nextRow' - 1
  BY <1>1 DEF Covered, OutboxShape
<1>5. OutboxShape'
  <2>1. status' \in [Events -> Statuses]
    BY DEF Covered, OutboxShape, Statuses
  <2>2. \A r \in DOMAIN outbox' : IsRow(outbox'[r]) /\ outbox'[r].event \in Events
    BY <1>1, <1>2 DEF Covered, OutboxShape
  <2>3. targets' \in [Workers -> SUBSET (1 .. nextRow' - 1)]
    BY <1>1 DEF Covered, OutboxShape
  <2>4. QED
    BY <1>1, <1>4, <2>1, <2>2, <2>3 DEF OutboxShape
<1>6. PendingHasOutbox'
  <2> SUFFICES ASSUME NEW x \in Events, status'[x] = "pending"
               PROVE  \E r \in DOMAIN outbox' :
                        outbox'[r].event = x /\ \A w \in Workers : r \notin targets'[w]
    BY DEF PendingHasOutbox
  <2>1. CASE x = e
    BY <1>1, <1>2, <1>3, <2>1
  <2>2. CASE x # e
    <3>1. status[x] = "pending"
      BY <2>2 DEF Covered, OutboxShape
    <3>2. PICK r \in DOMAIN outbox :
                outbox[r].event = x /\ \A w \in Workers : r \notin targets[w]
      BY <3>1 DEF Covered, PendingHasOutbox
    <3>3. QED
      BY <1>1, <3>2
  <2>3. QED
    BY <2>1, <2>2
<1>7. QED
  BY <1>5, <1>6 DEF Covered

\* A cleanup starts: it finds rows of settled events only.
LEMMA CleanupSpares ==
    ASSUME Covered, NEW w \in Workers, StartCleanup(w)
    PROVE  Covered'
<1> DEFINE found == {r \in DOMAIN outbox : outbox[r].old /\ status[outbox[r].event] \in Terminal}
<1>1. targets' = [targets EXCEPT ![w] = found] /\ UNCHANGED <<status, outbox, nextRow>>
  BY DEF StartCleanup, lifecycleVars, outboxVars
<1>2. found \subseteq 1 .. nextRow - 1
  BY DEF Covered, OutboxShape
<1>3. OutboxShape'
  BY <1>1, <1>2 DEF Covered, OutboxShape
<1>4. PendingHasOutbox'
  <2> SUFFICES ASSUME NEW e \in Events, status[e] = "pending"
               PROVE  \E r \in DOMAIN outbox :
                        outbox[r].event = e /\ \A v \in Workers : r \notin targets'[v]
    BY <1>1 DEF PendingHasOutbox
  <2>1. PICK r \in DOMAIN outbox :
            outbox[r].event = e /\ \A v \in Workers : r \notin targets[v]
    BY DEF Covered, PendingHasOutbox
  <2>2. r \notin found
    BY <2>1 DEF Terminal
  <2>3. \A v \in Workers : r \notin targets'[v]
    BY <1>1, <2>1, <2>2 DEF Covered, OutboxShape
  <2>4. QED
    BY <2>1, <2>3
<1>5. QED
  BY <1>3, <1>4 DEF Covered

\* The reconciliation commits: the rows it found are gone, and no other.
LEMMA CommitSpares ==
    ASSUME Covered, NEW w \in Workers, CommitReconcile(w)
    PROVE  Covered'
<1>1. /\ DOMAIN outbox' = DOMAIN outbox \ targets[w]
      /\ targets' = [targets EXCEPT ![w] = {}]
      /\ UNCHANGED <<status, nextRow>>
  BY DEF CommitReconcile, lifecycleVars
<1>2. \A r \in DOMAIN outbox' : IsRow(outbox'[r]) /\ outbox'[r].event = outbox[r].event
  <2> SUFFICES ASSUME NEW r \in DOMAIN outbox \ targets[w]
               PROVE  IsRow(outbox'[r]) /\ outbox'[r].event = outbox[r].event
    BY <1>1
  <2>1. IsRow(outbox[r])
    BY DEF Covered, OutboxShape
  <2>2. Updates(outbox[r], outbox'[r])
    <3>1. \/ outbox'[r] = outbox[r]
          \/ outbox'[r] = [outbox[r] EXCEPT !.published = "fresh", !.message = claimed[w][r]]
      BY DEF CommitReconcile
    <3>2. QED
      BY <3>1 DEF Updates
  <2>3. QED
    BY <2>1, <2>2, RowUpdate
<1>3. OutboxShape'
  BY <1>1, <1>2 DEF Covered, OutboxShape
<1>4. PendingHasOutbox'
  <2> SUFFICES ASSUME NEW e \in Events, status[e] = "pending"
               PROVE  \E r \in DOMAIN outbox' :
                        outbox'[r].event = e /\ \A v \in Workers : r \notin targets'[v]
    BY <1>1 DEF PendingHasOutbox
  <2>1. PICK r \in DOMAIN outbox :
            outbox[r].event = e /\ \A v \in Workers : r \notin targets[v]
    BY DEF Covered, PendingHasOutbox
  <2>2. r \in DOMAIN outbox'
    BY <1>1, <2>1
  <2>3. \A v \in Workers : r \notin targets'[v]
    BY <1>1, <2>1 DEF Covered, OutboxShape
  <2>4. QED
    BY <1>2, <2>1, <2>2, <2>3
<1>5. QED
  BY <1>3, <1>4 DEF Covered

LEMMA CoveredInit == Init => Covered
BY DEF Init, LifecycleInit, Covered, OutboxShape, PendingHasOutbox, Statuses

LEMMA CoveredStep == Covered /\ [Next]_vars => Covered'
<1> SUFFICES ASSUME Covered, [Next]_vars PROVE Covered'
  OBVIOUS
<1>1. ASSUME NEW e \in Events, Ingest(e) \/ Replay(e) PROVE Covered'
  <2>1. AddRow(e) /\ UNCHANGED targets /\ status' = [status EXCEPT ![e] = "pending"]
    BY <1>1 DEF Ingest, Replay, Accept, Requeue, reconcileVars
  <2>2. QED
    BY <2>1, NewRowCovers
<1>2. ASSUME NEW w \in Workers, StartCleanup(w) PROVE Covered'
  BY <1>2, CleanupSpares
<1>3. ASSUME NEW w \in Workers, CommitReconcile(w) PROVE Covered'
  BY <1>3, CommitSpares
<1>4. ASSUME NEW w \in Workers,
             AttemptSucceeds(w) \/ AttemptUnconfirmed(w) \/ FailEvent(w)
      PROVE  Covered'
  <2>1. UNCHANGED <<outbox, nextRow, targets>>
    BY <1>4 DEF AttemptSucceeds, AttemptUnconfirmed, FailEvent, outboxVars, reconcileVars
  <2>2. \/ UNCHANGED status
        \/ \E e, to : to \in Terminal /\ status' = [status EXCEPT ![e] = to]
    BY <1>4 DEF AttemptSucceeds, AttemptUnconfirmed, FailEvent, Apply, DeadLetter, Reject,
                lifecycleVars, Terminal
  <2>3. /\ status' \in [Events -> Statuses]
        /\ \A e \in Events : status'[e] = "pending" => status[e] = "pending"
    BY <2>2 DEF Covered, OutboxShape, Statuses, Terminal
  <2>4. QED
    BY <2>1, <2>3, LessToCover DEF Covered, OutboxShape
<1>5. ASSUME NEW w \in Workers, Abandon(w) PROVE Covered'
  <2>1. /\ UNCHANGED <<status, outbox, nextRow>>
        /\ targets' = [targets EXCEPT ![w] = {}]
    BY <1>5 DEF Abandon, lifecycleVars, outboxVars
  <2>2. /\ targets' \in [Workers -> SUBSET (1 .. nextRow - 1)]
        /\ \A v \in Workers : targets'[v] \subseteq targets[v]
    BY <2>1 DEF Covered, OutboxShape
  <2>3. QED
    BY <2>1, <2>2, LessToCover DEF Covered, OutboxShape
<1>6. ASSUME NEW r \in DOMAIN outbox, TurnsStale(r) \/ TurnsOld(r) PROVE Covered'
  <2>1. UNCHANGED <<status, nextRow, targets>>
    BY <1>6 DEF TurnsStale, TurnsOld, lifecycleVars, reconcileVars
  <2>2. /\ \/ outbox' = [outbox EXCEPT ![r] = [outbox[r] EXCEPT !.published = "stale"]]
           \/ outbox' = [outbox EXCEPT ![r] = [outbox[r] EXCEPT !.old = TRUE]]
        /\ DOMAIN outbox' = DOMAIN outbox
    BY <1>6 DEF TurnsStale, TurnsOld
  <2>3. \A x \in DOMAIN outbox : IsRow(outbox[x])
    BY DEF Covered, OutboxShape
  <2>4. SameEvents
    <3> SUFFICES ASSUME NEW x \in DOMAIN outbox
                 PROVE  IsRow(outbox'[x]) /\ outbox'[x].event = outbox[x].event
      BY <2>2 DEF SameEvents
    <3>1. Updates(outbox[x], outbox'[x])
      <4>1. \/ outbox'[x] = outbox[x]
            \/ outbox'[x] = [outbox[x] EXCEPT !.published = "stale"]
            \/ outbox'[x] = [outbox[x] EXCEPT !.old = TRUE]
        BY <2>2
      <4>2. QED
        BY <4>1 DEF Updates
    <3>2. QED
      BY <2>3, <3>1, RowUpdate
  <2>5. QED
    BY <2>1, <2>4, QuietStep
<1>7. ASSUME UNCHANGED <<status, outbox, nextRow, targets>> PROVE Covered'
  BY <1>7, SameOutbox, QuietStep
<1>8. ASSUME NEW w \in Workers, Iterate(w) PROVE Covered'
  BY <1>2, <1>3, <1>4, <1>5, <1>7, <1>8
     DEF Iterate, Reconcile, Consume, Handle, Claim, PublishRow, ConsumeClaimed, ConsumeNew,
         ConsumeWithoutGroup, Take, AttemptFails, FailEventRaises, Ack, DeadlockAbort,
         lifecycleVars, outboxVars, reconcileVars
<1>9. QED
  BY <1>1, <1>5, <1>6, <1>7, <1>8
     DEF Next, vars, Interrupted, RedisLoss, ForeignMessage, SeedLive, TurnsIdle,
         lifecycleVars, outboxVars, reconcileVars

\* README 3, zero dropped events: at every moment each accepted event that is
\* not settled has an outbox row that survives the cleanups in progress.
THEOREM OutboxCoversPending == Spec => []PendingHasOutbox
<1>1. Spec => []Covered
  BY CoveredInit, CoveredStep, PTL DEF Spec
<1>2. Covered => PendingHasOutbox
  BY DEF Covered
<1>3. QED
  BY <1>1, <1>2, PTL
----------------------------------------------------------------------------

\* No row and no message belongs to an event that was not accepted.
Known ==
    /\ \A r \in DOMAIN outbox : status[outbox[r].event] # "absent"
    /\ \A m \in 1 .. Len(log) : log[m] \in Events => status[log[m]] # "absent"

\* Row r will publish its event by another message than m.
Elsewhere(r, m) ==
    /\ outbox[r].message # m
    /\ \A w \in Workers :
        /\ r \notin targets[w]
        /\ r \in DOMAIN claimed[w] => claimed[w][r] # m

\* SettledBy, with a row that stays.
Settling(m) ==
    IF log[m] \in Foreign
    THEN dead[log[m]] > 0
    ELSE \/ status[log[m]] \in Terminal
         \/ \E r \in DOMAIN outbox : outbox[r].event = log[m] /\ Elsewhere(r, m)

AckInv ==
    /\ Typed
    /\ Covered
    /\ Known
    /\ \A w \in Workers : pc[w] = "ack" => Settling(InHand(w))

\* No step changes the event of a row, and a row keeps its message until a
\* reconciliation commits.
LEMMA CommitKeepsEvents ==
    ASSUME Typed, NEW w \in Workers, CommitReconcile(w)
    PROVE  \A r \in DOMAIN outbox' :
                /\ r \in DOMAIN outbox
                /\ outbox'[r].event = outbox[r].event
                /\ \/ outbox'[r].message = outbox[r].message
                   \/ r \in DOMAIN claimed[w] /\ outbox'[r].message = claimed[w][r]
<1> SUFFICES ASSUME NEW r \in DOMAIN outbox'
             PROVE  /\ r \in DOMAIN outbox
                    /\ outbox'[r].event = outbox[r].event
                    /\ \/ outbox'[r].message = outbox[r].message
                       \/ r \in DOMAIN claimed[w] /\ outbox'[r].message = claimed[w][r]
  OBVIOUS
<1>1. /\ r \in DOMAIN outbox
      /\ \/ outbox'[r] = outbox[r]
         \/ /\ r \in DOMAIN claimed[w]
            /\ outbox'[r] = [outbox[r] EXCEPT !.published = "fresh", !.message = claimed[w][r]]
  BY DEF CommitReconcile
<1>2. outbox[r] \in OutboxRow(Len(log))
  BY <1>1 DEF Typed, OutboxTypes
<1>3. PICK e, q, k, o : outbox[r] = [event |-> e, published |-> q, message |-> k, old |-> o]
  BY <1>2 DEF OutboxRow
<1>4. QED
  BY <1>1, <1>3

LEMMA AgesKeepEvents ==
    ASSUME Typed, NEW x \in DOMAIN outbox, TurnsStale(x) \/ TurnsOld(x)
    PROVE  /\ DOMAIN outbox' = DOMAIN outbox
           /\ \A r \in DOMAIN outbox : /\ outbox'[r].event = outbox[r].event
                                        /\ outbox'[r].message = outbox[r].message
<1>1. DOMAIN outbox' = DOMAIN outbox
  BY DEF TurnsStale, TurnsOld
<1> SUFFICES ASSUME NEW r \in DOMAIN outbox
             PROVE  /\ outbox'[r].event = outbox[r].event
                    /\ outbox'[r].message = outbox[r].message
  BY <1>1
<1>2. \/ outbox'[r] = outbox[r]
      \/ outbox'[r] = [outbox[r] EXCEPT !.published = "stale"]
      \/ outbox'[r] = [outbox[r] EXCEPT !.old = TRUE]
  BY DEF TurnsStale, TurnsOld
<1>3. PICK e, q, k, o : outbox[r] = [event |-> e, published |-> q, message |-> k, old |-> o]
  BY DEF Typed, OutboxTypes, OutboxRow
<1>4. QED
  BY <1>2, <1>3

\* The row a worker publishes next is one it has claimed.
LEMMA PublishedRow ==
    ASSUME Typed, NEW w \in Workers, PublishRow(w)
    PROVE  log' = log \/ \E r \in DOMAIN outbox : log' = Append(log, outbox[r].event)
<1>1. Unhandled(w) \in SUBSET Nat /\ Unhandled(w) # {} /\ Unhandled(w) \subseteq DOMAIN outbox
  BY DEF PublishRow, Unhandled, Typed, OutboxTypes, ReconcileTypes
<1>2. Min(Unhandled(w)) \in DOMAIN outbox
  BY <1>1, MinIsLeast
<1>3. QED
  BY <1>2 DEF PublishRow

\* Enough for a message to stay settled, or about to be.
LEMMA SettlingKept ==
    ASSUME NEW m, Settling(m), log'[m] = log[m],
           log[m] \in Foreign => dead'[log[m]] >= dead[log[m]] /\ dead[log[m]] \in Nat
                                 /\ dead'[log[m]] \in Nat,
           log[m] \notin Foreign =>
                (status[log[m]] \in Terminal => status'[log[m]] \in Terminal),
           \A r \in DOMAIN outbox :
                /\ outbox[r].event = log[m]
                /\ Elsewhere(r, m)
                /\ status'[log[m]] \notin Terminal
                => /\ r \in DOMAIN outbox'
                   /\ outbox'[r].event = outbox[r].event
                   /\ Elsewhere(r, m)'
    PROVE  Settling(m)'
<1>1. CASE log[m] \in Foreign
  BY <1>1 DEF Settling
<1>2. CASE log[m] \notin Foreign
  BY <1>2 DEF Settling
<1>3. QED
  BY <1>1, <1>2

\* What a step leaves alone keeps messages settled.
LEMMA SettlingQuiet ==
    ASSUME Typed, NEW m, Settling(m), log'[m] = log[m], log[m] \in Ids,
           UNCHANGED <<lifecycleVars, outbox, reconcileVars>>
    PROVE  Settling(m)'
<1>1. UNCHANGED <<status, dead, outbox, claimed, targets>>
  BY DEF lifecycleVars, reconcileVars
<1>2. dead[log[m]] \in Nat
  BY DEF Typed, LifecycleTypeOK
<1>3. dead[log[m]] >= dead[log[m]]
  BY <1>2
<1>4. QED
  BY <1>1, <1>2, <1>3, SettlingKept DEF Elsewhere

\* A replay makes an event pending again, with a row that has no message.
LEMMA SettlingIngest ==
    ASSUME Typed, Covered, NEW m \in 1 .. Len(log), Settling(m),
           NEW e \in Events, Ingest(e) \/ Replay(e)
    PROVE  Settling(m)'
<1>1. /\ AddRow(e) /\ UNCHANGED <<log, claimed, targets>>
      /\ status' = [status EXCEPT ![e] = "pending"]
  BY DEF Ingest, Replay, Accept, Requeue, redisVars, reconcileVars
<1>2. log[m] \in Ids /\ Events \cap Foreign = {}
  BY LifecycleAssumption DEF Typed, StreamTypes
<1>3. PICK k \in Nat :
        /\ k = nextRow
        /\ DOMAIN outbox' = DOMAIN outbox \cup {k}
        /\ k \notin DOMAIN outbox
        /\ outbox'[k] = NewRow(e)
        /\ \A r \in DOMAIN outbox : outbox'[r] = outbox[r]
  BY <1>1 DEF AddRow, Typed, OutboxTypes
<1>4. CASE log[m] = e
  <2>1. k \in DOMAIN outbox' /\ outbox'[k].event = log'[m]
    BY <1>1, <1>3, <1>4 DEF NewRow
  <2>2. outbox'[k].message # m
    BY <1>3 DEF NewRow, NoMessage
  <2>3. \A w \in Workers : k \notin targets[w] /\ k \notin DOMAIN claimed[w]
    BY <1>3 DEF Covered, OutboxShape, Typed, ReconcileTypes
  <2>4. Elsewhere(k, m)'
    BY <1>1, <2>2, <2>3 DEF Elsewhere
  <2>5. log'[m] \notin Foreign
    BY <1>1, <1>2, <1>4
  <2>6. QED
    BY <2>1, <2>4, <2>5 DEF Settling
<1>5. CASE log[m] # e
  <2>1. log[m] \in Foreign => dead'[log[m]] = dead[log[m]] /\ dead[log[m]] \in Nat
    BY <1>2, <1>5 DEF Ingest, Replay, Accept, Requeue, Typed, LifecycleTypeOK
  <2>2. log[m] \notin Foreign => status'[log[m]] = status[log[m]]
    BY <1>1, <1>5
  <2>3. QED
    BY <1>1, <1>3, <2>1, <2>2, SettlingKept DEF Elsewhere
<1>6. QED
  BY <1>4, <1>5

\* Handling a message settles events, and replays none.
LEMMA SettlingHandled ==
    ASSUME Typed, NEW m, log[m] \in Ids, Settling(m), NEW w \in Workers,
           AttemptSucceeds(w) \/ AttemptUnconfirmed(w) \/ FailEvent(w)
    PROVE  Settling(m)'
<1>1. UNCHANGED <<outbox, log, claimed, targets>>
  BY DEF AttemptSucceeds, AttemptUnconfirmed, FailEvent, outboxVars, redisVars, reconcileVars
<1>2. Current(w) \in Ids
  BY InHandType
     DEF AttemptSucceeds, AttemptUnconfirmed, FailEvent, Handling
<1>3. \/ \E e \in Events : Apply(e) \/ DeadLetter(e)
      \/ \E f \in Foreign : Reject(f)
      \/ UNCHANGED lifecycleVars
  BY <1>2 DEF AttemptSucceeds, AttemptUnconfirmed, FailEvent, Ids
<1>4. /\ dead[log[m]] \in Nat /\ dead'[log[m]] \in Nat /\ dead'[log[m]] >= dead[log[m]]
      /\ log[m] \in Events /\ status[log[m]] \in Terminal => status'[log[m]] \in Terminal
  BY <1>3 DEF Apply, DeadLetter, Reject, lifecycleVars, Typed, LifecycleTypeOK, Ids, Terminal
<1>5. log[m] \notin Foreign => log[m] \in Events
  BY DEF Ids
<1>6. QED
  BY <1>1, <1>4, <1>5, SettlingKept DEF Elsewhere

\* A row is claimed with no message yet.
LEMMA SettlingClaim ==
    ASSUME Typed, NEW m \in 1 .. Len(log), log[m] \in Ids, Settling(m), NEW w \in Workers, Claim(w)
    PROVE  Settling(m)'
<1>1. PICK rows :
        claimed' = [claimed EXCEPT ![w] = [r \in rows |-> NoMessage]]
  BY DEF Claim
<1>2. UNCHANGED <<status, dead, outbox, log, targets>>
  BY DEF Claim, lifecycleVars, outboxVars
<1>3. \A v \in Workers : \A r \in DOMAIN claimed'[v] :
        claimed'[v][r] = 0 \/ (r \in DOMAIN claimed[v] /\ claimed'[v][r] = claimed[v][r])
  <2>1. DOMAIN claimed = Workers
    BY DEF Typed, ReconcileTypes
  <2>2. \A v \in Workers \ {w} : claimed'[v] = claimed[v]
    BY <1>1, <2>1
  <2>3. claimed'[w] = [r \in rows |-> 0]
    BY <1>1, <2>1 DEF NoMessage
  <2>4. \A r \in DOMAIN claimed'[w] : claimed'[w][r] = 0
    BY <2>3
  <2>5. ASSUME NEW v \in Workers, NEW r \in DOMAIN claimed'[v]
        PROVE  claimed'[v][r] = 0 \/ (r \in DOMAIN claimed[v] /\ claimed'[v][r] = claimed[v][r])
    <3>1. CASE v = w
      BY <2>4, <3>1
    <3>2. CASE v # w
      BY <2>2, <3>2
    <3>3. QED
      BY <3>1, <3>2
  <2>6. QED
    BY <2>5
<1>4. m # 0
  OBVIOUS
<1>5. \A r : Elsewhere(r, m) => Elsewhere(r, m)'
  BY <1>2, <1>3, <1>4 DEF Elsewhere
<1>6. dead[log[m]] \in Nat /\ dead[log[m]] >= dead[log[m]]
  BY DEF Typed, LifecycleTypeOK
<1>7. QED
  BY <1>2, <1>5, <1>6, SettlingKept

\* A row is published by the message it had, or by a new one.
LEMMA SettlingPublish ==
    ASSUME Typed, NEW m \in 1 .. Len(log), log[m] \in Ids, Settling(m),
           NEW w \in Workers, PublishRow(w)
    PROVE  Settling(m)'
<1>1. PICK x, k :
        /\ claimed' = [claimed EXCEPT ![w][x] = k]
        /\ k \in {outbox[x].message, Len(log) + 1}
  BY DEF PublishRow
<1>2. UNCHANGED <<status, dead, outbox, targets>> /\ log'[m] = log[m]
  <2>1. UNCHANGED <<status, dead, outbox, targets>>
    BY DEF PublishRow, lifecycleVars, outboxVars
  <2>2. log \in Seq(Ids) /\ \A id : Append(log, id)[m] = log[m]
    BY DEF Typed, StreamTypes
  <2>3. QED
    BY <2>1, <2>2 DEF PublishRow
<1>3. \A v \in Workers : \A r \in DOMAIN claimed'[v] :
        /\ r \in DOMAIN claimed[v]
        /\ claimed'[v][r] = claimed[v][r] \/ (claimed'[v][r] = k /\ r = x)
  <2>1. DOMAIN claimed = Workers
    BY DEF Typed, ReconcileTypes
  <2>2. \A v \in Workers \ {w} : claimed'[v] = claimed[v]
    BY <1>1, <2>1
  <2>3. claimed'[w] = [claimed[w] EXCEPT ![x] = k]
    BY <1>1, <2>1
  <2>4. \A r \in DOMAIN claimed'[w] :
            /\ r \in DOMAIN claimed[w]
            /\ claimed'[w][r] = claimed[w][r] \/ (claimed'[w][r] = k /\ r = x)
    <3>1. DOMAIN claimed'[w] = DOMAIN claimed[w]
      BY <2>3
    <3>2. \A r \in DOMAIN claimed[w] :
            claimed'[w][r] = IF r = x THEN k ELSE claimed[w][r]
      BY <2>3
    <3>3. QED
      BY <3>1, <3>2
  <2>5. ASSUME NEW v \in Workers, NEW r \in DOMAIN claimed'[v]
        PROVE  /\ r \in DOMAIN claimed[v]
               /\ claimed'[v][r] = claimed[v][r] \/ (claimed'[v][r] = k /\ r = x)
    <3>1. CASE v = w
      BY <2>4, <3>1
    <3>2. CASE v # w
      BY <2>2, <3>2
    <3>3. QED
      BY <3>1, <3>2
  <2>6. QED
    BY <2>5
<1>4. m # Len(log) + 1
  BY DEF Typed, StreamTypes
<1>5. \A r : Elsewhere(r, m) => Elsewhere(r, m)'
  BY <1>1, <1>2, <1>3, <1>4 DEF Elsewhere
<1>6. dead[log[m]] \in Nat /\ dead[log[m]] >= dead[log[m]]
  BY DEF Typed, LifecycleTypeOK
<1>7. QED
  BY <1>2, <1>5, <1>6, SettlingKept

\* A cleanup finds no row of an event that is not settled.
LEMMA SettlingCleanup ==
    ASSUME Typed, NEW m \in 1 .. Len(log), log[m] \in Ids, Settling(m),
           NEW w \in Workers, StartCleanup(w)
    PROVE  Settling(m)'
<1>1. UNCHANGED <<status, dead, outbox, log, claimed>>
  BY DEF StartCleanup, lifecycleVars, outboxVars, redisVars
<1>2. \A v \in Workers : \A r \in targets'[v] :
        r \in targets[v] \/ status[outbox[r].event] \in Terminal
  BY DEF StartCleanup, Typed, ReconcileTypes
<1>3. \A r : Elsewhere(r, m) /\ status[outbox[r].event] \notin Terminal => Elsewhere(r, m)'
  BY <1>1, <1>2 DEF Elsewhere
<1>4. dead[log[m]] \in Nat /\ dead[log[m]] >= dead[log[m]]
  BY DEF Typed, LifecycleTypeOK
<1>5. QED
  BY <1>1, <1>3, <1>4, SettlingKept

\* The rows that stay when a reconciliation commits bear the messages of
\* their claims.
LEMMA SettlingCommit ==
    ASSUME Typed, Covered, NEW m \in 1 .. Len(log), log[m] \in Ids, Settling(m),
           NEW w \in Workers, CommitReconcile(w)
    PROVE  Settling(m)'
<1>1. /\ UNCHANGED <<status, dead, log>>
      /\ DOMAIN outbox' = DOMAIN outbox \ targets[w]
      /\ claimed' = [claimed EXCEPT ![w] = <<>>]
      /\ targets' = [targets EXCEPT ![w] = {}]
  BY DEF CommitReconcile, lifecycleVars, redisVars
<1>2. \A r \in DOMAIN outbox' :
        /\ outbox'[r].event = outbox[r].event
        /\ \/ outbox'[r].message = outbox[r].message
           \/ r \in DOMAIN claimed[w] /\ outbox'[r].message = claimed[w][r]
  BY CommitKeepsEvents
<1>3. DOMAIN <<>> = {} /\ DOMAIN claimed = Workers /\ DOMAIN targets = Workers
  <2>1. DOMAIN <<>> = {}
    OBVIOUS
  <2>2. QED
    BY <2>1 DEF Typed, ReconcileTypes
<1>4. \A v \in Workers : targets'[v] \subseteq targets[v]
  BY <1>1, <1>3
<1>5. \A v \in Workers : \A r \in DOMAIN claimed'[v] :
        r \in DOMAIN claimed[v] /\ claimed'[v][r] = claimed[v][r]
  BY <1>1, <1>3
<1>6. \A r \in DOMAIN outbox :
        Elsewhere(r, m) => /\ r \in DOMAIN outbox'
                           /\ outbox'[r].event = outbox[r].event
                           /\ Elsewhere(r, m)'
  <2> SUFFICES ASSUME NEW r \in DOMAIN outbox, Elsewhere(r, m)
               PROVE  /\ r \in DOMAIN outbox'
                      /\ outbox'[r].event = outbox[r].event
                      /\ Elsewhere(r, m)'
    OBVIOUS
  <2>1. r \in DOMAIN outbox'
    BY <1>1 DEF Elsewhere
  <2>2. outbox'[r].message # m
    BY <1>2, <2>1 DEF Elsewhere
  <2>3. QED
    BY <1>2, <1>4, <1>5, <2>1, <2>2 DEF Elsewhere
<1>7. dead[log[m]] \in Nat /\ dead[log[m]] >= dead[log[m]]
  BY DEF Typed, LifecycleTypeOK
<1>8. QED
  BY <1>1, <1>6, <1>7, SettlingKept

\* What is let go of is neither claimed nor found.
LEMMA SettlingAbandon ==
    ASSUME Typed, NEW m \in 1 .. Len(log), log[m] \in Ids, Settling(m),
           NEW w \in Workers, Abandon(w)
    PROVE  Settling(m)'
<1>1. /\ UNCHANGED <<status, dead, log, outbox>>
      /\ claimed' = [claimed EXCEPT ![w] = <<>>]
      /\ targets' = [targets EXCEPT ![w] = {}]
  BY DEF Abandon, lifecycleVars, outboxVars, redisVars
<1>2. DOMAIN <<>> = {} /\ DOMAIN claimed = Workers /\ DOMAIN targets = Workers
  <2>1. DOMAIN <<>> = {}
    OBVIOUS
  <2>2. QED
    BY <2>1 DEF Typed, ReconcileTypes
<1>3. \A v \in Workers : targets'[v] \subseteq targets[v]
  BY <1>1, <1>2
<1>4. \A v \in Workers : \A r \in DOMAIN claimed'[v] :
        r \in DOMAIN claimed[v] /\ claimed'[v][r] = claimed[v][r]
  BY <1>1, <1>2
<1>5. \A r : Elsewhere(r, m) => Elsewhere(r, m)'
  BY <1>1, <1>3, <1>4 DEF Elsewhere
<1>6. dead[log[m]] \in Nat /\ dead[log[m]] >= dead[log[m]]
  BY DEF Typed, LifecycleTypeOK
<1>7. QED
  BY <1>1, <1>5, <1>6, SettlingKept

\* Age changes neither the event nor the message of a row.
LEMMA SettlingAges ==
    ASSUME Typed, NEW m \in 1 .. Len(log), log[m] \in Ids, Settling(m),
           NEW x \in DOMAIN outbox, TurnsStale(x) \/ TurnsOld(x)
    PROVE  Settling(m)'
<1>1. /\ UNCHANGED <<status, dead, log, claimed, targets>>
      /\ DOMAIN outbox' = DOMAIN outbox
  BY DEF TurnsStale, TurnsOld, lifecycleVars, redisVars, reconcileVars
<1>2. \A r \in DOMAIN outbox :
        outbox'[r].event = outbox[r].event /\ outbox'[r].message = outbox[r].message
  BY AgesKeepEvents
<1>3. \A r \in DOMAIN outbox : Elsewhere(r, m) => Elsewhere(r, m)'
  BY <1>1, <1>2 DEF Elsewhere
<1>4. dead[log[m]] \in Nat /\ dead[log[m]] >= dead[log[m]]
  BY DEF Typed, LifecycleTypeOK
<1>5. QED
  BY <1>1, <1>2, <1>3, <1>4, SettlingKept

\* Once settled, or about to be, a message stays so, whatever happens.
LEMMA SettlingStays ==
    ASSUME Typed, Covered, NEW m \in 1 .. Len(log), Settling(m), [Next]_vars
    PROVE  Settling(m)' /\ log'[m] = log[m]
<1>1. log[m] \in Ids /\ \A id : Append(log, id)[m] = log[m]
  BY DEF Typed, StreamTypes
<1>2. log'[m] = log[m]
  <2>1. log' = log \/ \E id : log' = Append(log, id)
    BY DEF Next, vars, Ingest, Replay, Iterate, Reconcile, Claim, PublishRow, StartCleanup,
           CommitReconcile, Consume, ConsumeClaimed, ConsumeNew, ConsumeWithoutGroup, Take,
           Handle, AttemptSucceeds, AttemptFails, AttemptUnconfirmed, FailEvent,
           FailEventRaises, Ack, DeadlockAbort, Interrupted, Abandon, RedisLoss,
           ForeignMessage, SeedLive, TurnsIdle, TurnsStale, TurnsOld, redisVars
  <2>2. QED
    BY <1>1, <2>1
<1>3. ASSUME UNCHANGED <<lifecycleVars, outbox, reconcileVars>> PROVE Settling(m)'
  BY <1>1, <1>2, <1>3, SettlingQuiet
<1>4. ASSUME NEW w \in Workers, Reconcile(w) PROVE Settling(m)'
  BY <1>1, <1>4, SettlingClaim, SettlingPublish, SettlingCleanup, SettlingCommit DEF Reconcile
<1>5. ASSUME NEW w \in Workers, Consume(w) PROVE Settling(m)'
  BY <1>3, <1>5 DEF Consume, ConsumeClaimed, ConsumeNew, ConsumeWithoutGroup, Take, outboxVars
<1>6. ASSUME NEW w \in Workers, Handle(w) \/ DeadlockAbort(w) \/ Interrupted(w)
      PROVE  Settling(m)'
  <2>1. CASE AttemptSucceeds(w) \/ AttemptUnconfirmed(w) \/ FailEvent(w)
    BY <1>1, <2>1, SettlingHandled
  <2>2. CASE AttemptFails(w) \/ Ack(w)
    BY <1>3, <2>2 DEF AttemptFails, Ack, outboxVars
  <2>3. CASE FailEventRaises(w) \/ DeadlockAbort(w) \/ Interrupted(w)
    BY <1>1, <2>3, SettlingAbandon DEF FailEventRaises, DeadlockAbort, Interrupted
  <2>4. QED
    BY <1>6, <2>1, <2>2, <2>3 DEF Handle
<1>7. ASSUME \/ RedisLoss
             \/ \E f \in Foreign : ForeignMessage(f)
             \/ \E f \in Demo : SeedLive(f)
             \/ \E i \in delivered : TurnsIdle(i)
      PROVE  Settling(m)'
  BY <1>3, <1>7 DEF RedisLoss, ForeignMessage, SeedLive, TurnsIdle, outboxVars
<1>8. ASSUME UNCHANGED vars PROVE Settling(m)'
  <2>1. UNCHANGED <<lifecycleVars, outbox, reconcileVars>>
    BY <1>8 DEF vars, lifecycleVars, outboxVars, reconcileVars
  <2>2. QED
    BY <1>3, <2>1
<1>9. ASSUME NEW w \in Workers, Iterate(w) PROVE Settling(m)'
  BY <1>4, <1>5, <1>6, <1>9 DEF Iterate
<1>10. Settling(m)'
  BY <1>1, <1>6, <1>7, <1>8, <1>9, SettlingIngest, SettlingAges DEF Next
<1>11. QED
  BY <1>2, <1>10

\* An event never becomes absent, and what is published was accepted.
LEMMA KnownStep ==
    ASSUME Typed, Covered, Known, [Next]_vars
    PROVE  Known'
<1>1. \A e \in Events : status[e] # "absent" => status'[e] # "absent"
  <2>1. \/ UNCHANGED status
        \/ \E e, to : to # "absent" /\ status' = [status EXCEPT ![e] = to]
    BY ZenonT(20) DEF Next, vars, Ingest, Replay, Iterate, Reconcile, Claim, PublishRow, StartCleanup,
           CommitReconcile, Consume, ConsumeClaimed, ConsumeNew, ConsumeWithoutGroup, Take,
           Handle, AttemptSucceeds, AttemptFails, AttemptUnconfirmed, FailEvent,
           FailEventRaises, Ack, DeadlockAbort, Interrupted, Abandon, RedisLoss,
           ForeignMessage, SeedLive, TurnsIdle, TurnsStale, TurnsOld, lifecycleVars,
           Accept, Apply, DeadLetter, Requeue, Reject
  <2>2. QED
    BY <2>1 DEF Typed, LifecycleTypeOK
<1>2. \A r \in DOMAIN outbox : outbox[r].event \in Events
  BY DEF Covered, OutboxShape
<1>3. \A r \in DOMAIN outbox' : status'[outbox'[r].event] # "absent"
  <2>1. ASSUME NEW e \in Events, Ingest(e) \/ Replay(e), NEW r \in DOMAIN outbox'
        PROVE  status'[outbox'[r].event] # "absent"
    <3>1. AddRow(e) /\ status' = [status EXCEPT ![e] = "pending"] /\ e \in DOMAIN status
      BY <2>1 DEF Ingest, Replay, Accept, Requeue, Typed, LifecycleTypeOK
    <3>2. \/ r \in DOMAIN outbox /\ outbox'[r] = outbox[r]
          \/ outbox'[r] = NewRow(e)
      BY <2>1, <3>1 DEF AddRow
    <3>3. NewRow(e).event = e
      BY DEF NewRow
    <3>4. QED
      BY <1>1, <1>2, <3>1, <3>2, <3>3 DEF Known
  <2>2. ASSUME \A r \in DOMAIN outbox' :
                    r \in DOMAIN outbox /\ outbox'[r].event = outbox[r].event
        PROVE  \A r \in DOMAIN outbox' : status'[outbox'[r].event] # "absent"
    BY <1>1, <1>2, <2>2 DEF Known
  <2>3. ASSUME NEW w \in Workers, CommitReconcile(w)
        PROVE  \A r \in DOMAIN outbox' : status'[outbox'[r].event] # "absent"
    BY <2>2, <2>3, CommitKeepsEvents
  <2>4. ASSUME NEW x \in DOMAIN outbox, TurnsStale(x) \/ TurnsOld(x)
        PROVE  \A r \in DOMAIN outbox' : status'[outbox'[r].event] # "absent"
    BY <2>2, <2>4, AgesKeepEvents
  <2>5. ASSUME UNCHANGED outbox
        PROVE  \A r \in DOMAIN outbox' : status'[outbox'[r].event] # "absent"
    BY <2>2, <2>5
  <2>6. ASSUME NEW w \in Workers, Iterate(w) \/ Interrupted(w)
        PROVE  \A r \in DOMAIN outbox' : status'[outbox'[r].event] # "absent"
    BY <2>3, <2>5, <2>6
       DEF Iterate, Reconcile, Claim, PublishRow, StartCleanup, Consume, ConsumeClaimed,
           ConsumeNew, ConsumeWithoutGroup, Take, Handle, AttemptSucceeds, AttemptFails,
           AttemptUnconfirmed, FailEvent, FailEventRaises, Ack, DeadlockAbort, Interrupted,
           Abandon, outboxVars
  <2>7. CASE \/ RedisLoss
             \/ \E f \in Foreign : ForeignMessage(f)
             \/ \E f \in Demo : SeedLive(f)
             \/ \E m \in delivered : TurnsIdle(m)
             \/ UNCHANGED vars
    BY <2>5, <2>7 DEF RedisLoss, ForeignMessage, SeedLive, TurnsIdle, vars, outboxVars
  <2>8. QED
    BY <2>1, <2>4, <2>6, <2>7 DEF Next
<1>4. \A m \in 1 .. Len(log') : log'[m] \in Events => status'[log'[m]] # "absent"
  <2>1. \/ log' = log
        \/ \E r \in DOMAIN outbox : log' = Append(log, outbox[r].event)
        \/ \E f \in Foreign : log' = Append(log, f)
    <3>1. ASSUME NEW w \in Workers, PublishRow(w)
          PROVE  log' = log \/ \E r \in DOMAIN outbox : log' = Append(log, outbox[r].event)
      BY <3>1, PublishedRow
    <3>2. ASSUME NEW w \in Workers, Iterate(w), ~ PublishRow(w)
          PROVE  log' = log
      BY <3>2
         DEF Iterate, Reconcile, Claim, StartCleanup, CommitReconcile, Consume,
             ConsumeClaimed, ConsumeNew, ConsumeWithoutGroup, Take, Handle, AttemptSucceeds,
             AttemptFails, AttemptUnconfirmed, FailEvent, FailEventRaises, Ack, DeadlockAbort,
             Abandon, redisVars
    <3>3. QED
      BY <3>1, <3>2, EntriesAdded
         DEF Next, vars, Ingest, Replay, Interrupted, Abandon, RedisLoss, EntryAdded,
             TurnsIdle, TurnsStale, TurnsOld, redisVars
  <2>2. log \in Seq(Ids) /\ Events \cap Foreign = {}
    BY LifecycleAssumption DEF Typed, StreamTypes
  <2>3. \A id \in Ids : /\ Len(Append(log, id)) = Len(log) + 1
                        /\ \A m \in 1 .. Len(log) + 1 :
                                Append(log, id)[m] = IF m = Len(log) + 1 THEN id ELSE log[m]
    BY <2>2
  <2>4. ASSUME NEW id \in Ids, log' = Append(log, id),
               id \in Events => status[id] # "absent"
        PROVE  \A m \in 1 .. Len(log') : log'[m] \in Events => status'[log'[m]] # "absent"
    <3>1. \A m \in 1 .. Len(log') : log'[m] = id \/ (m \in 1 .. Len(log) /\ log'[m] = log[m])
      BY <2>2, <2>3, <2>4
    <3>2. QED
      BY <1>1, <2>4, <3>1 DEF Known
  <2>5. CASE log' = log
    BY <1>1, <2>5 DEF Known
  <2>6. CASE \E r \in DOMAIN outbox : log' = Append(log, outbox[r].event)
    BY <1>2, <2>4, <2>6 DEF Known, Ids
  <2>7. CASE \E f \in Foreign : log' = Append(log, f)
    BY <2>2, <2>4, <2>7 DEF Ids
  <2>8. QED
    BY <2>1, <2>5, <2>6, <2>7
<1>5. QED
  BY <1>3, <1>4 DEF Known

LEMMA AckInit == Init => AckInv
<1> SUFFICES ASSUME Init PROVE AckInv
  OBVIOUS
<1>1. Typed /\ Covered
  BY TypedInit, CoveredInit
<1>2. Known
  <2>1. DOMAIN outbox = {} /\ log = <<>> /\ Len(<<>>) = 0
    BY DEF Init
  <2>2. QED
    BY <2>1 DEF Known
<1>3. \A w \in Workers : pc[w] # "ack"
  BY DEF Init
<1>4. QED
  BY <1>1, <1>2, <1>3 DEF AckInv

\* A worker comes to acknowledge by a commit that settled the event, or by
\* finding it settled.
LEMMA CommitSettles ==
    ASSUME AckInv, NEW w \in Workers, AttemptSucceeds(w) \/ FailEvent(w)
    PROVE  Settling(InHand(w))'
<1> DEFINE m == InHand(w)
<1>1. m \in 1 .. Len(log) /\ log[m] \in Ids /\ Current(w) = log[m]
  BY InHandType DEF AckInv, AttemptSucceeds, FailEvent, Handling, Current
<1>2. UNCHANGED <<log, batch>> /\ m' = m
  BY DEF AttemptSucceeds, FailEvent, redisVars, consumeVars, InHand
<1> HIDE DEF m
<1>3. PICK k : k = m
  OBVIOUS
<1>4. log'[k] \in Foreign => dead'[log'[k]] > 0
  BY <1>1, <1>2, <1>3, LifecycleAssumption
     DEF AttemptSucceeds, FailEvent, Reject, AckInv, Typed, LifecycleTypeOK
<1>5. log'[k] \notin Foreign => status'[log'[k]] \in Terminal
  <2>1. ASSUME log[k] \notin Foreign
        PROVE  status'[log[k]] \in Terminal
    <3>1. log[k] \in Events /\ status[log[k]] # "absent" /\ status[log[k]] \in Statuses
      BY <1>1, <1>3, <2>1 DEF Ids, AckInv, Known, Typed, LifecycleTypeOK
    <3>2. \/ Apply(log[k]) \/ DeadLetter(log[k])
          \/ status[log[k]] # "pending" /\ UNCHANGED lifecycleVars
      BY <1>1, <1>3, <2>1 DEF AttemptSucceeds, FailEvent
    <3>3. QED
      BY <3>1, <3>2
         DEF Apply, DeadLetter, lifecycleVars, Statuses, Terminal, AckInv, Typed, LifecycleTypeOK
  <2>2. QED
    BY <1>2, <2>1
<1>6. Settling(k)'
  BY <1>4, <1>5 DEF Settling
<1>7. QED
  BY <1>2, <1>3, <1>6 DEF m

LEMMA AckStep == AckInv /\ [Next]_vars => AckInv'
<1> SUFFICES ASSUME AckInv, [Next]_vars PROVE AckInv'
  OBVIOUS
<1>1. Typed' /\ Covered' /\ Known'
  BY TypedStep, CoveredStep, KnownStep DEF AckInv
<1>2. ASSUME NEW w \in Workers, pc'[w] = "ack" PROVE Settling(InHand(w))'
  <2>1. CASE AttemptSucceeds(w) \/ FailEvent(w)
    BY <2>1, CommitSettles
  <2>2. CASE pc[w] = "ack" /\ batch'[w] = batch[w]
    <3>1. InHand(w) \in 1 .. Len(log) /\ Settling(InHand(w)) /\ InHand(w)' = InHand(w)
      BY <2>2, InHandType DEF AckInv, Handling, InHand
    <3>2. PICK m \in 1 .. Len(log) : m = InHand(w)
      BY <3>1
    <3>3. Settling(m)'
      BY <3>1, <3>2, SettlingStays DEF AckInv
    <3>4. QED
      BY <3>1, <3>2, <3>3
  <2>3. \/ AttemptSucceeds(w) \/ FailEvent(w)
        \/ pc[w] = "ack" /\ batch'[w] = batch[w]
    <3>1. DOMAIN pc = Workers /\ DOMAIN batch = Workers
      BY DEF AckInv, Typed, ConsumeTypes
    <3>2. ASSUME UNCHANGED <<pc, batch>> PROVE pc[w] = "ack" /\ batch'[w] = batch[w]
      BY <1>2, <3>2
    <3>3. ASSUME NEW v \in Workers, Iterate(v) \/ Interrupted(v), v # w
          PROVE  pc'[w] = pc[w] /\ batch'[w] = batch[w]
      BY <3>1, <3>3
         DEF Iterate, Reconcile, Claim, PublishRow, StartCleanup, CommitReconcile, Consume,
             ConsumeClaimed, ConsumeNew, ConsumeWithoutGroup, Take, Handle, AttemptSucceeds,
             AttemptFails, AttemptUnconfirmed, FailEvent, FailEventRaises, Ack, DeadlockAbort,
             Interrupted, Abandon, Retry, consumeVars
    <3>4. ASSUME Iterate(w) \/ Interrupted(w), ~ AttemptSucceeds(w), ~ FailEvent(w)
          PROVE  pc[w] = "ack" /\ batch'[w] = batch[w]
      BY <1>2, <3>1, <3>4
         DEF Iterate, Reconcile, Claim, PublishRow, StartCleanup, CommitReconcile, Consume,
             ConsumeClaimed, ConsumeNew, ConsumeWithoutGroup, Take, Handle,
             AttemptFails, AttemptUnconfirmed, FailEventRaises, Ack, DeadlockAbort,
             Interrupted, Abandon, Retry, consumeVars
    <3>5. ASSUME NEW v \in Workers, Iterate(v) \/ Interrupted(v)
          PROVE  \/ AttemptSucceeds(w) \/ FailEvent(w)
                 \/ pc[w] = "ack" /\ batch'[w] = batch[w]
      BY <1>2, <3>3, <3>4, <3>5
    <3>6. QED
      BY <3>2, <3>5
         DEF Next, vars, Ingest, Replay, RedisLoss, ForeignMessage, SeedLive, TurnsIdle,
             TurnsStale, TurnsOld, consumeVars
  <2>4. QED
    BY <2>1, <2>2, <2>3
<1>3. QED
  BY <1>1, <1>2 DEF AckInv

\* README 2, no messages are acknowledged until the commit succeeds: with any
\* number of workers, replays, cleanups, claims of slow consumers, crashes and
\* losses of Redis, an acknowledged message's event is settled, or another row
\* will publish it.
THEOREM OnlySettledIsAcknowledged == Spec => AckAfterSettled
<1>1. AckInv => \A w \in Workers : pc[w] = "ack" => SettledBy(InHand(w))
  BY DEF AckInv, Settling, SettledBy, Elsewhere
<1>2. AckInv =>
        [\A w \in Workers :
            /\ pc[w] = "ack"
            /\ InHand(w) \in stream \ stream'
            /\ group'
            => SettledBy(InHand(w))]_vars
  BY <1>1
<1>3. QED
  BY <1>2, AckInit, AckStep, PTL DEF Spec, AckAfterSettled

----------------------------------------------------------------------------
(* One message for each row                                                *)

\* r's message is m, or will be once the reconciliation in progress commits.
HoldsMessage(r, m) ==
    \/ outbox[r].message = m
    \/ \E w \in Workers : r \in DOMAIN claimed[w] /\ claimed[w][r] = m

\* FOR UPDATE SKIP LOCKED: a row is claimed by one transaction, until its end,
\* and the end comes after the last row has its message.
RowLocks ==
    /\ \A w \in Workers : pc[w] \notin {"publish", "delete"} => DOMAIN claimed[w] = {}
    /\ \A w \in Workers : pc[w] = "delete" => Unhandled(w) = {}
    /\ \A v, w \in Workers : v # w => DOMAIN claimed[v] \cap DOMAIN claimed[w] = {}

Calm == faults = 0 /\ NothingExpired

\* Every message of an event in the stream belongs to a row of its own, and
\* no claim of a row disregards a message that is still there.
Owned ==
    /\ \A w \in Workers : targets[w] = {}
    /\ \A m \in stream : log[m] \in Events =>
        \E r \in DOMAIN outbox : outbox[r].event = log[m] /\ HoldsMessage(r, m)
    /\ \A r \in DOMAIN outbox : \A m, n \in stream :
            HoldsMessage(r, m) /\ HoldsMessage(r, n) => m = n
    /\ \A w \in Workers : \A r \in DOMAIN claimed[w] :
            claimed[w][r] # NoMessage /\ outbox[r].message \in stream
                => claimed[w][r] = outbox[r].message

PublicationInv == Typed /\ RowLocks /\ (Calm => Owned)

\* Who has claimed what is not touched.
LEMMA LocksFrame ==
    ASSUME RowLocks, UNCHANGED claimed,
           \A w \in Workers : /\ pc'[w] = "delete" => pc[w] = "delete"
                              /\ pc[w] \in {"publish", "delete"} => pc'[w] \in {"publish", "delete"}
    PROVE  RowLocks'
BY DEF RowLocks, Unhandled

\* A worker without claims, or that lets go of them.
LEMMA LocksReleased ==
    ASSUME Typed, RowLocks, NEW w \in Workers, claimed' = [claimed EXCEPT ![w] = <<>>],
           \A v \in Workers \ {w} : pc'[v] = pc[v]
    PROVE  RowLocks' /\ DOMAIN claimed'[w] = {} /\ \A v \in Workers \ {w} : claimed'[v] = claimed[v]
<1>1. DOMAIN <<>> = {} /\ DOMAIN claimed = Workers
  <2>1. DOMAIN <<>> = {}
    OBVIOUS
  <2>2. QED
    BY <2>1 DEF Typed, ReconcileTypes
<1>2. DOMAIN claimed'[w] = {} /\ \A v \in Workers \ {w} : claimed'[v] = claimed[v]
  BY <1>1
<1>3. \A v \in Workers \ {w} : Unhandled(v)' = Unhandled(v)
  BY <1>2 DEF Unhandled
<1>4. Unhandled(w)' = {}
  BY <1>2 DEF Unhandled
<1>5. QED
  BY <1>2, <1>3, <1>4 DEF RowLocks

LEMMA LocksClaim ==
    ASSUME Typed, RowLocks, NEW w \in Workers, Claim(w)
    PROVE  /\ RowLocks'
           /\ DOMAIN claimed[w] = {}
           /\ \A r \in DOMAIN claimed'[w] : claimed'[w][r] = NoMessage
           /\ \A v \in Workers \ {w} : claimed'[v] = claimed[v]
<1>1. PICK rows \in SUBSET {r \in DOMAIN outbox : ~LockedByOther(r, w)} :
        claimed' = [claimed EXCEPT ![w] = [r \in rows |-> NoMessage]]
  BY DEF Claim, FirstN
<1>2. DOMAIN claimed = Workers /\ DOMAIN pc = Workers
  BY DEF Typed, ReconcileTypes, ConsumeTypes
<1>3. /\ DOMAIN claimed'[w] = rows
      /\ \A r \in rows : claimed'[w][r] = NoMessage
      /\ \A v \in Workers \ {w} : claimed'[v] = claimed[v]
  BY <1>1, <1>2
<1>4. \A v \in Workers \ {w} : DOMAIN claimed[v] \cap rows = {}
  BY <1>1 DEF LockedByOther
<1>5. pc[w] = "begin" /\ pc' = [pc EXCEPT ![w] = "publish"]
  BY DEF Claim
<1>6. DOMAIN claimed[w] = {}
  BY <1>5 DEF RowLocks
<1>7. RowLocks'
  <2>1. \A v \in Workers \ {w} : Unhandled(v)' = Unhandled(v) /\ pc'[v] = pc[v]
    BY <1>2, <1>3, <1>5 DEF Unhandled
  <2>2. pc'[w] = "publish"
    BY <1>2, <1>5
  <2>3. \A u, v \in Workers : u # v => DOMAIN claimed'[u] \cap DOMAIN claimed'[v] = {}
    BY <1>3, <1>4 DEF RowLocks
  <2>4. \A v \in Workers : pc'[v] \notin {"publish", "delete"} => DOMAIN claimed'[v] = {}
    BY <1>3, <2>1, <2>2 DEF RowLocks
  <2>5. \A v \in Workers : pc'[v] = "delete" => Unhandled(v)' = {}
    BY <2>1, <2>2 DEF RowLocks
  <2>6. QED
    BY <2>3, <2>4, <2>5 DEF RowLocks
<1>8. QED
  BY <1>3, <1>6, <1>7

\* The row that is published next, and what the worker's claims become.
LEMMA LocksPublish ==
    ASSUME Typed, RowLocks, NEW w \in Workers, PublishRow(w)
    PROVE  LET r == Min(Unhandled(w)) IN
           /\ RowLocks'
           /\ r \in DOMAIN outbox /\ r \in DOMAIN claimed[w] /\ claimed[w][r] = NoMessage
           /\ \A v \in Workers \ {w} : claimed'[v] = claimed[v]
           /\ DOMAIN claimed'[w] = DOMAIN claimed[w]
           /\ \A x \in DOMAIN claimed[w] \ {r} : claimed'[w][x] = claimed[w][x]
           /\ \/ /\ outbox[r].message \in stream
                 /\ claimed'[w][r] = outbox[r].message
                 /\ UNCHANGED <<log, stream>>
              \/ /\ outbox[r].message \notin stream
                 /\ claimed'[w][r] = Len(log) + 1
                 /\ log' = Append(log, outbox[r].event)
                 /\ stream' = stream \cup {Len(log) + 1}
<1> DEFINE r == Min(Unhandled(w))
<1>1. Unhandled(w) \in SUBSET Nat /\ Unhandled(w) # {}
  BY DEF PublishRow, Unhandled, Typed, OutboxTypes, ReconcileTypes
<1>2. r \in Unhandled(w)
  BY <1>1, MinIsLeast
<1>3. r \in DOMAIN claimed[w] /\ claimed[w][r] = NoMessage /\ r \in DOMAIN outbox
  BY <1>2 DEF Unhandled, Typed, ReconcileTypes
<1>4. NoMessage \notin stream
  BY DEF NoMessage, Typed, StreamTypes
<1>5. \/ /\ outbox[r].message \in stream
         /\ claimed' = [claimed EXCEPT ![w][r] = outbox[r].message]
         /\ UNCHANGED <<log, stream>>
      \/ /\ outbox[r].message \notin stream
         /\ claimed' = [claimed EXCEPT ![w][r] = Len(log) + 1]
         /\ log' = Append(log, outbox[r].event)
         /\ stream' = stream \cup {Len(log) + 1}
  BY <1>4 DEF PublishRow
<1>6. DOMAIN claimed = Workers /\ UNCHANGED pc /\ pc[w] = "publish"
  BY DEF Typed, ReconcileTypes, PublishRow
<1> HIDE DEF r
<1>7. PICK k : claimed' = [claimed EXCEPT ![w][r] = k]
  BY <1>5
<1>8. /\ \A v \in Workers \ {w} : claimed'[v] = claimed[v]
      /\ DOMAIN claimed'[w] = DOMAIN claimed[w]
      /\ \A x \in DOMAIN claimed[w] \ {r} : claimed'[w][x] = claimed[w][x]
      /\ claimed'[w][r] = k
  BY <1>3, <1>6, <1>7
<1>9. \/ /\ outbox[r].message \in stream
         /\ claimed'[w][r] = outbox[r].message
         /\ UNCHANGED <<log, stream>>
      \/ /\ outbox[r].message \notin stream
         /\ claimed'[w][r] = Len(log) + 1
         /\ log' = Append(log, outbox[r].event)
         /\ stream' = stream \cup {Len(log) + 1}
  BY <1>3, <1>5, <1>6
<1>10. RowLocks'
  <2>1. \A v \in Workers \ {w} : Unhandled(v)' = Unhandled(v)
    BY <1>8 DEF Unhandled
  <2>2. \A v \in Workers : DOMAIN claimed'[v] = DOMAIN claimed[v]
    BY <1>8
  <2>3. QED
    BY <1>6, <2>1, <2>2 DEF RowLocks
<1>11. QED
  BY <1>3, <1>8, <1>9, <1>10 DEF r

LEMMA LocksStep == Typed /\ RowLocks /\ [Next]_vars => RowLocks'
<1> SUFFICES ASSUME Typed, RowLocks, [Next]_vars PROVE RowLocks'
  OBVIOUS
<1>1. DOMAIN pc = Workers /\ DOMAIN claimed = Workers
  BY DEF Typed, ReconcileTypes, ConsumeTypes
<1>2. ASSUME UNCHANGED <<pc, claimed>> PROVE RowLocks'
  BY <1>2, LocksFrame
<1>3. ASSUME NEW w \in Workers, Reconcile(w) PROVE RowLocks'
  <2>1. CASE StartCleanup(w)
    <3>1. /\ pc' = [pc EXCEPT ![w] = "delete"] /\ pc[w] = "publish" /\ Unhandled(w) = {}
          /\ UNCHANGED claimed
      BY <2>1 DEF StartCleanup
    <3>2. \A v \in Workers : Unhandled(v)' = Unhandled(v)
      BY <3>1 DEF Unhandled
    <3>3. QED
      BY <1>1, <3>1, <3>2 DEF RowLocks
  <2>2. CASE CommitReconcile(w)
    BY <1>1, <2>2, LocksReleased DEF CommitReconcile
  <2>3. QED
    BY <1>3, <2>1, <2>2, LocksClaim, LocksPublish DEF Reconcile
<1>4. ASSUME NEW w \in Workers, Consume(w) PROVE RowLocks'
  <2>1. /\ UNCHANGED claimed /\ pc[w] = "consume"
        /\ \A v \in Workers \ {w} : pc'[v] = pc[v]
        /\ pc'[w] \in {"begin", "attempt"}
    BY <1>1, <1>4
       DEF Consume, ConsumeClaimed, ConsumeNew, ConsumeWithoutGroup, Take, reconcileVars
  <2>2. QED
    BY <2>1, LocksFrame
<1>5. ASSUME NEW w \in Workers,
             FailEventRaises(w) \/ DeadlockAbort(w) \/ Interrupted(w)
      PROVE  RowLocks'
  <2>1. Abandon(w)
    BY <1>5 DEF FailEventRaises, DeadlockAbort, Interrupted
  <2>2. QED
    BY <1>1, <2>1, LocksReleased DEF Abandon
<1>6. ASSUME NEW w \in Workers, Handle(w), ~ FailEventRaises(w) PROVE RowLocks'
  <2>1. /\ UNCHANGED claimed /\ pc[w] \notin {"publish", "delete"}
        /\ \A v \in Workers \ {w} : pc'[v] = pc[v]
        /\ pc'[w] # "delete"
    BY <1>1, <1>6
       DEF Handle, AttemptSucceeds, AttemptFails, AttemptUnconfirmed, Retry, FailEvent, Ack,
           reconcileVars
  <2>2. QED
    BY <2>1, LocksFrame
<1>7. ASSUME NEW w \in Workers, Iterate(w) \/ Interrupted(w) PROVE RowLocks'
  BY <1>3, <1>4, <1>5, <1>6, <1>7 DEF Iterate
<1>8. QED
  BY <1>2, <1>7
     DEF Next, Ingest, Replay, RedisLoss, ForeignMessage, SeedLive, TurnsIdle, TurnsStale,
         TurnsOld, vars, reconcileVars

\* The end of a row's retention is never undone.
LEMMA NothingExpiredBefore ==
    ASSUME Typed, [Next]_vars, NothingExpired'
    PROVE  NothingExpired /\ \A r \in DOMAIN outbox : ~TurnsOld(r)
<1>1. nextRow \in Nat /\ DOMAIN outbox \subseteq 1 .. nextRow - 1
  BY DEF Typed, OutboxTypes
<1>2. /\ DOMAIN outbox' = 1 .. nextRow' - 1
      /\ \A r \in DOMAIN outbox' : ~outbox'[r].old
  BY DEF NothingExpired
<1>3. ASSUME NEW r \in DOMAIN outbox PROVE ~TurnsOld(r)
  <2>1. PICK e, q, k, o : outbox[r] = [event |-> e, published |-> q, message |-> k, old |-> o]
    BY DEF Typed, OutboxTypes, OutboxRow
  <2>2. TurnsOld(r) => r \in DOMAIN outbox' /\ outbox'[r] = [outbox[r] EXCEPT !.old = TRUE]
    BY DEF TurnsOld
  <2>3. QED
    BY <1>2, <2>1, <2>2
<1>4. ASSUME UNCHANGED <<outbox, nextRow>> PROVE NothingExpired
  BY <1>2, <1>4 DEF NothingExpired
<1>5. ASSUME NEW e \in Events, AddRow(e) PROVE NothingExpired
  <2>1. /\ DOMAIN outbox' = DOMAIN outbox \cup {nextRow} /\ nextRow' = nextRow + 1
        /\ \A r \in DOMAIN outbox : r # nextRow => outbox'[r] = outbox[r]
    BY <1>5 DEF AddRow
  <2>2. nextRow \notin DOMAIN outbox
    BY <1>1
  <2>3. DOMAIN outbox = 1 .. nextRow - 1
    <3>1. \A i \in 1 .. nextRow - 1 : i \in 1 .. nextRow' - 1 /\ i # nextRow
      BY <1>1, <2>1
    <3>2. QED
      BY <1>1, <1>2, <2>1, <3>1
  <2>4. \A r \in DOMAIN outbox : ~outbox[r].old
    BY <1>2, <2>1, <2>2
  <2>5. QED
    BY <2>3, <2>4 DEF NothingExpired
<1>6. ASSUME NEW w \in Workers, CommitReconcile(w) PROVE NothingExpired
  <2>1. UNCHANGED nextRow /\ DOMAIN outbox' \subseteq DOMAIN outbox
    BY <1>6 DEF CommitReconcile
  <2>2. DOMAIN outbox = 1 .. nextRow - 1 /\ DOMAIN outbox' = DOMAIN outbox
    BY <1>1, <1>2, <2>1
  <2>3. ASSUME NEW r \in DOMAIN outbox PROVE ~outbox[r].old
    <3>1. PICK e, q, k, o : outbox[r] = [event |-> e, published |-> q, message |-> k, old |-> o]
      BY DEF Typed, OutboxTypes, OutboxRow
    <3>2. \/ outbox'[r] = outbox[r]
          \/ outbox'[r] = [outbox[r] EXCEPT !.published = "fresh", !.message = claimed[w][r]]
      BY <1>6, <2>2 DEF CommitReconcile
    <3>3. QED
      BY <1>2, <2>2, <3>1, <3>2
  <2>4. QED
    BY <2>2, <2>3 DEF NothingExpired
<1>7. ASSUME NEW x \in DOMAIN outbox, TurnsStale(x) PROVE NothingExpired
  <2>1. UNCHANGED nextRow /\ DOMAIN outbox' = DOMAIN outbox
    BY <1>7 DEF TurnsStale
  <2>2. ASSUME NEW r \in DOMAIN outbox PROVE ~outbox[r].old
    <3>1. PICK e, q, k, o : outbox[r] = [event |-> e, published |-> q, message |-> k, old |-> o]
      BY DEF Typed, OutboxTypes, OutboxRow
    <3>2. outbox'[r] = outbox[r] \/ outbox'[r] = [outbox[r] EXCEPT !.published = "stale"]
      BY <1>7 DEF TurnsStale
    <3>3. QED
      BY <1>2, <2>1, <3>1, <3>2
  <2>3. QED
    BY <1>2, <2>1, <2>2 DEF NothingExpired
<1>8. ASSUME NEW w \in Workers, Iterate(w) PROVE NothingExpired
  BY <1>4, <1>6, <1>8
     DEF Iterate, Reconcile, Claim, PublishRow, StartCleanup, Consume, ConsumeClaimed,
         ConsumeNew, ConsumeWithoutGroup, Take, Handle, AttemptSucceeds, AttemptFails,
         AttemptUnconfirmed, FailEvent, FailEventRaises, Ack, DeadlockAbort, Abandon, outboxVars
<1>9. NothingExpired
  BY <1>3, <1>4, <1>5, <1>7, <1>8
     DEF Next, vars, Ingest, Replay, Interrupted, Abandon, RedisLoss, ForeignMessage, SeedLive,
         TurnsIdle, outboxVars
<1>10. QED
  BY <1>3, <1>9

\* A fault is never undone.
LEMMA CalmBefore ==
    ASSUME Typed, [Next]_vars, Calm'
    PROVE  Calm /\ ~RedisLoss /\ (\A w \in Workers : ~Interrupted(w))
                /\ \A r \in DOMAIN outbox : ~TurnsOld(r)
<1>1. faults \in Nat /\ faults' = 0
  BY PipelineAssumption DEF Typed, ConsumeTypes, Calm
<1>2. ~RedisLoss /\ \A w \in Workers : ~Interrupted(w)
  BY <1>1 DEF RedisLoss, Interrupted
<1>3. UNCHANGED faults
  BY <1>2 DEF Next, vars, Ingest, Replay, Iterate, Reconcile, Claim, PublishRow, StartCleanup,
         CommitReconcile, Consume, ConsumeClaimed, ConsumeNew, ConsumeWithoutGroup, Take,
         Handle, AttemptSucceeds, AttemptFails, AttemptUnconfirmed, FailEvent,
         FailEventRaises, Ack, DeadlockAbort, ForeignMessage, SeedLive, TurnsIdle, TurnsStale,
         TurnsOld
<1>4. NothingExpired /\ \A r \in DOMAIN outbox : ~TurnsOld(r)
  BY NothingExpiredBefore DEF Calm
<1>5. QED
  BY <1>1, <1>2, <1>3, <1>4 DEF Calm

\* A step that touches neither claims nor the messages of rows.
LEMMA OwnedFrame ==
    ASSUME Owned, UNCHANGED <<claimed, targets>>, DOMAIN outbox' = DOMAIN outbox,
           \A r \in DOMAIN outbox : /\ outbox'[r].event = outbox[r].event
                                    /\ outbox'[r].message = outbox[r].message,
           stream' \subseteq stream,
           \A m \in stream : log'[m] = log[m],
           \A w \in Workers : DOMAIN claimed[w] \subseteq DOMAIN outbox
    PROVE  Owned'
<1>1. \A r \in DOMAIN outbox : \A m : HoldsMessage(r, m)' <=> HoldsMessage(r, m)
  BY DEF HoldsMessage
<1>2. \A w \in Workers : targets'[w] = {}
  BY DEF Owned
<1>3. \A m \in stream' : log'[m] \in Events =>
        \E r \in DOMAIN outbox' : outbox'[r].event = log'[m] /\ HoldsMessage(r, m)'
  BY <1>1 DEF Owned
<1>4. \A r \in DOMAIN outbox' : \A m, n \in stream' :
            HoldsMessage(r, m)' /\ HoldsMessage(r, n)' => m = n
  BY <1>1 DEF Owned
<1>5. \A w \in Workers : \A r \in DOMAIN claimed'[w] :
            claimed'[w][r] # NoMessage /\ outbox'[r].message \in stream'
                => claimed'[w][r] = outbox'[r].message
  BY DEF Owned
<1>6. QED
  BY <1>2, <1>3, <1>4, <1>5 DEF Owned

\* A new row has no message and takes none from another.
LEMMA OwnedIngest ==
    ASSUME Typed, Owned, NEW e \in Events, AddRow(e), UNCHANGED <<log, stream, claimed, targets>>
    PROVE  Owned'
<1>0. PICK new : new = nextRow
  OBVIOUS
<1>1. /\ DOMAIN outbox' = DOMAIN outbox \cup {new} /\ new \notin DOMAIN outbox
      /\ \A r \in DOMAIN outbox : outbox'[r] = outbox[r]
      /\ outbox'[new].message = NoMessage
  BY <1>0 DEF AddRow, NewRow, Typed, OutboxTypes
<1>2. NoMessage \notin stream /\ \A w \in Workers : DOMAIN claimed[w] \subseteq DOMAIN outbox
  BY DEF NoMessage, Typed, StreamTypes, ReconcileTypes
<1>3. \A r \in DOMAIN outbox : \A m : HoldsMessage(r, m)' <=> HoldsMessage(r, m)
  <2> TAKE r \in DOMAIN outbox
  <2>1. outbox'[r].message = outbox[r].message /\ claimed' = claimed
    BY <1>1
  <2>2. QED
    BY <2>1 DEF HoldsMessage
<1>4. \A m \in stream : ~HoldsMessage(new, m)'
  BY <1>1, <1>2 DEF HoldsMessage
<1>5. \A m \in stream' : log'[m] \in Events =>
        \E r \in DOMAIN outbox' : outbox'[r].event = log'[m] /\ HoldsMessage(r, m)'
  BY <1>1, <1>3 DEF Owned
<1>6. \A r \in DOMAIN outbox' : \A m, n \in stream' :
            HoldsMessage(r, m)' /\ HoldsMessage(r, n)' => m = n
  <2> TAKE r \in DOMAIN outbox'
  <2>1. CASE r = new
    BY <1>4, <2>1
  <2>2. CASE r \in DOMAIN outbox
    BY <1>3, <2>2 DEF Owned
  <2>3. QED
    BY <1>1, <2>1, <2>2
<1>7. \A w \in Workers : \A r \in DOMAIN claimed'[w] :
            claimed'[w][r] # NoMessage /\ outbox'[r].message \in stream'
                => claimed'[w][r] = outbox'[r].message
  BY <1>1, <1>2 DEF Owned
<1>8. QED
  BY <1>5, <1>6, <1>7 DEF Owned

\* Claims begin without messages.
LEMMA OwnedClaim ==
    ASSUME Typed, RowLocks, Owned, NEW w \in Workers, Claim(w)
    PROVE  Owned'
<1>1. /\ DOMAIN claimed[w] = {}
      /\ \A r \in DOMAIN claimed'[w] : claimed'[w][r] = NoMessage
      /\ \A v \in Workers \ {w} : claimed'[v] = claimed[v]
  BY LocksClaim
<1>2. UNCHANGED <<outbox, log, stream, targets>>
  BY DEF Claim, outboxVars
<1>3. NoMessage \notin stream
  BY DEF NoMessage, Typed, StreamTypes
<1>4. \A r, m : m \in stream => (HoldsMessage(r, m)' <=> HoldsMessage(r, m))
  <2> TAKE r, m
  <2> HAVE m \in stream
  <2>1. \A v \in Workers : (r \in DOMAIN claimed'[v] /\ claimed'[v][r] = m)
                            <=> (r \in DOMAIN claimed[v] /\ claimed[v][r] = m)
    BY <1>1, <1>3
  <2>2. QED
    BY <1>2, <2>1 DEF HoldsMessage
<1>5. \A m \in stream' : log'[m] \in Events =>
        \E r \in DOMAIN outbox' : outbox'[r].event = log'[m] /\ HoldsMessage(r, m)'
  BY <1>2, <1>4 DEF Owned
<1>6. \A r \in DOMAIN outbox' : \A m, n \in stream' :
            HoldsMessage(r, m)' /\ HoldsMessage(r, n)' => m = n
  BY <1>2, <1>4 DEF Owned
<1>7. \A v \in Workers : \A r \in DOMAIN claimed'[v] :
            claimed'[v][r] # NoMessage /\ outbox'[r].message \in stream'
                => claimed'[v][r] = outbox'[r].message
  BY <1>1, <1>2 DEF Owned
<1>8. QED
  BY <1>2, <1>5, <1>6, <1>7 DEF Owned

\* A message that is still there is confirmed; a new one is the row's only one.
LEMMA OwnedPublish ==
    ASSUME Typed, RowLocks, Owned, NEW w \in Workers, PublishRow(w)
    PROVE  Owned'
<1>0. PICK r, k : r = Min(Unhandled(w)) /\ k = Len(log) + 1
  OBVIOUS
<1>1. /\ r \in DOMAIN outbox /\ r \in DOMAIN claimed[w] /\ claimed[w][r] = NoMessage
      /\ \A v \in Workers \ {w} : claimed'[v] = claimed[v]
      /\ DOMAIN claimed'[w] = DOMAIN claimed[w]
      /\ \A x \in DOMAIN claimed[w] \ {r} : claimed'[w][x] = claimed[w][x]
      /\ \/ /\ outbox[r].message \in stream
            /\ claimed'[w][r] = outbox[r].message
            /\ UNCHANGED <<log, stream>>
         \/ /\ outbox[r].message \notin stream
            /\ claimed'[w][r] = k
            /\ log' = Append(log, outbox[r].event)
            /\ stream' = stream \cup {k}
  BY <1>0, LocksPublish
<1>2. UNCHANGED <<outbox, targets>>
  BY DEF PublishRow, outboxVars
<1>3. NoMessage \notin stream
  BY DEF NoMessage, Typed, StreamTypes
<1>4. \A v \in Workers \ {w} : r \notin DOMAIN claimed[v]
  BY <1>1 DEF RowLocks
<1>5. \A x, m : x # r => (HoldsMessage(x, m)' <=> HoldsMessage(x, m))
  <2> TAKE x, m
  <2> HAVE x # r
  <2>1. \A v \in Workers : (x \in DOMAIN claimed'[v] /\ claimed'[v][x] = m)
                            <=> (x \in DOMAIN claimed[v] /\ claimed[v][x] = m)
    BY <1>1
  <2>2. QED
    BY <1>2, <2>1 DEF HoldsMessage
<1>6. \A m : HoldsMessage(r, m)' <=> m \in {outbox[r].message, claimed'[w][r]}
  <2>1. r \in DOMAIN claimed'[w] /\ \A v \in Workers \ {w} : r \notin DOMAIN claimed'[v]
    BY <1>1, <1>4
  <2>2. outbox' = outbox
    BY <1>2
  <2>3. QED
    BY <2>1, <2>2 DEF HoldsMessage
<1>7. \A m : HoldsMessage(r, m) <=> m \in {outbox[r].message, NoMessage}
  BY <1>1, <1>4 DEF HoldsMessage
<1>8. CASE /\ outbox[r].message \in stream
           /\ claimed'[w][r] = outbox[r].message
           /\ UNCHANGED <<log, stream>>
  <2>1. \A x, m : m \in stream => (HoldsMessage(x, m)' <=> HoldsMessage(x, m))
    BY <1>3, <1>5, <1>6, <1>7, <1>8
  <2>2. \A m \in stream' : log'[m] \in Events =>
            \E x \in DOMAIN outbox' : outbox'[x].event = log'[m] /\ HoldsMessage(x, m)'
    BY <1>2, <1>8, <2>1 DEF Owned
  <2>3. \A x \in DOMAIN outbox' : \A m, n \in stream' :
                HoldsMessage(x, m)' /\ HoldsMessage(x, n)' => m = n
    BY <1>2, <1>8, <2>1 DEF Owned
  <2>4. \A v \in Workers : \A x \in DOMAIN claimed'[v] :
                claimed'[v][x] # NoMessage /\ outbox'[x].message \in stream'
                    => claimed'[v][x] = outbox'[x].message
    BY <1>1, <1>2, <1>8 DEF Owned
  <2>5. QED
    BY <1>2, <2>2, <2>3, <2>4 DEF Owned
<1>9. CASE /\ outbox[r].message \notin stream
           /\ claimed'[w][r] = k
           /\ log' = Append(log, outbox[r].event)
           /\ stream' = stream \cup {k}
  <2>1. k \notin stream /\ \A x \in DOMAIN outbox : ~HoldsMessage(x, k) /\ outbox[x].message # k
    <3>1. Len(log) \in Nat /\ stream \subseteq 1 .. Len(log)
      BY DEF Typed, StreamTypes
    <3>2. \A x \in DOMAIN outbox : outbox[x].message \in 0 .. Len(log)
      BY DEF Typed, OutboxTypes, OutboxRow
    <3>3. \A v \in Workers : \A x \in DOMAIN claimed[v] : claimed[v][x] \in 0 .. Len(log)
      BY DEF Typed, ReconcileTypes
    <3>4. k \notin 0 .. Len(log)
      BY <1>0, <3>1
    <3>5. k \notin stream
      <4>1. \A m \in stream : m \in 0 .. Len(log)
        BY <3>1
      <4>2. QED
        BY <3>4, <4>1
    <3>6. ASSUME NEW x \in DOMAIN outbox PROVE ~HoldsMessage(x, k) /\ outbox[x].message # k
      BY <3>2, <3>3, <3>4 DEF HoldsMessage
    <3>7. QED
      BY <3>5, <3>6
  <2>2. log'[k] = outbox[r].event /\ \A m \in stream : log'[m] = log[m]
    <3>1. log \in Seq(Ids) /\ stream \subseteq 1 .. Len(log) /\ outbox[r].event \in Ids
      BY <1>1 DEF Typed, StreamTypes, OutboxTypes, OutboxRow, Ids
    <3>2. \A id \in Ids : /\ Append(log, id)[Len(log) + 1] = id
                          /\ \A m \in stream : Append(log, id)[m] = log[m]
      BY <3>1
    <3>3. QED
      BY <1>0, <1>9, <3>1, <3>2
  <2>3. \A m \in stream' : HoldsMessage(r, m)' <=> m = k
    BY <1>6, <1>9
  <2>4. \A m \in stream : ~HoldsMessage(r, m)
    BY <1>3, <1>7, <1>9
  <2>5. \A m \in stream' : log'[m] \in Events =>
            \E x \in DOMAIN outbox' : outbox'[x].event = log'[m] /\ HoldsMessage(x, m)'
    <3>1. ASSUME NEW m \in stream, log'[m] \in Events
          PROVE  \E x \in DOMAIN outbox' : outbox'[x].event = log'[m] /\ HoldsMessage(x, m)'
      <4>1. PICK x \in DOMAIN outbox : outbox[x].event = log[m] /\ HoldsMessage(x, m)
        BY <2>2, <3>1 DEF Owned
      <4>2. x # r
        BY <2>4, <4>1
      <4>3. QED
        BY <1>2, <1>5, <2>2, <4>1, <4>2
    <3>2. outbox'[r].event = log'[k] /\ HoldsMessage(r, k)' /\ r \in DOMAIN outbox'
      BY <1>1, <1>2, <1>9, <2>2, <2>3
    <3>3. QED
      BY <1>9, <3>1, <3>2
  <2>6. \A x \in DOMAIN outbox' : \A m, n \in stream' :
                HoldsMessage(x, m)' /\ HoldsMessage(x, n)' => m = n
    <3>1. ASSUME NEW x \in DOMAIN outbox, x # r, NEW m \in stream', NEW n \in stream',
                 HoldsMessage(x, m)', HoldsMessage(x, n)'
          PROVE  m = n
      <4>1. HoldsMessage(x, m) /\ HoldsMessage(x, n)
        BY <1>5, <3>1
      <4>2. m \in stream /\ n \in stream
        BY <1>9, <2>1, <3>1, <4>1
      <4>3. QED
        BY <4>1, <4>2 DEF Owned
    <3>2. QED
      BY <1>2, <2>3, <3>1
  <2>7. \A v \in Workers : \A x \in DOMAIN claimed'[v] :
                claimed'[v][x] # NoMessage /\ outbox'[x].message \in stream'
                    => claimed'[v][x] = outbox'[x].message
    <3>1. ASSUME NEW v \in Workers, NEW x \in DOMAIN claimed'[v], x # r,
                 claimed'[v][x] # NoMessage, outbox'[x].message \in stream'
          PROVE  claimed'[v][x] = outbox'[x].message
      <4>1. x \in DOMAIN claimed[v] /\ claimed'[v][x] = claimed[v][x] /\ x \in DOMAIN outbox
        BY <1>1, <3>1 DEF Typed, ReconcileTypes
      <4>2. outbox[x].message \in stream
        BY <1>2, <1>9, <2>1, <3>1, <4>1
      <4>3. QED
        BY <1>2, <3>1, <4>1, <4>2 DEF Owned
    <3>2. outbox'[r].message \notin stream'
      BY <1>1, <1>2, <1>9, <2>1
    <3>3. QED
      BY <3>1, <3>2
  <2>8. QED
    BY <1>2, <2>5, <2>6, <2>7 DEF Owned
<1>10. QED
  BY <1>1, <1>8, <1>9

\* The rows take the messages of their claims, and lose none that is there.
LEMMA OwnedCommit ==
    ASSUME Typed, RowLocks, Owned, NEW w \in Workers, CommitReconcile(w)
    PROVE  Owned'
<1>1. /\ UNCHANGED <<log, stream>>
      /\ DOMAIN outbox' = DOMAIN outbox
      /\ targets' = [targets EXCEPT ![w] = {}]
  BY DEF CommitReconcile, redisVars, Owned
<1>2. DOMAIN claimed'[w] = {} /\ \A v \in Workers \ {w} : claimed'[v] = claimed[v]
  BY LocksReleased DEF CommitReconcile, Typed, ConsumeTypes
<1>3. \A r \in DOMAIN outbox : outbox'[r].event = outbox[r].event
  BY <1>1, CommitKeepsEvents
<1>4. \A r \in DOMAIN outbox :
        outbox'[r].message = IF r \in DOMAIN claimed[w] THEN claimed[w][r] ELSE outbox[r].message
  <2> TAKE r \in DOMAIN outbox
  <2>1. PICK e, q, k, o : outbox[r] = [event |-> e, published |-> q, message |-> k, old |-> o]
    BY DEF Typed, OutboxTypes, OutboxRow
  <2>2. outbox'[r] = IF r \in DOMAIN claimed[w]
                     THEN [outbox[r] EXCEPT !.published = "fresh", !.message = claimed[w][r]]
                     ELSE outbox[r]
    BY <1>1 DEF CommitReconcile
  <2>3. QED
    BY <2>1, <2>2
<1>5. \A r \in DOMAIN claimed[w] : claimed[w][r] # NoMessage
  BY DEF CommitReconcile, RowLocks, Unhandled
<1>6. \A v \in Workers : DOMAIN claimed[v] \subseteq DOMAIN outbox
  BY DEF Typed, ReconcileTypes
<1>7. \A v \in Workers \ {w} : DOMAIN claimed[v] \cap DOMAIN claimed[w] = {}
  BY DEF RowLocks
<1>8. ASSUME NEW r \in DOMAIN outbox, NEW m \in stream
      PROVE  HoldsMessage(r, m)' <=> HoldsMessage(r, m)
  <2>1. CASE r \in DOMAIN claimed[w]
    <3>1. HoldsMessage(r, m)' <=> claimed[w][r] = m
      BY <1>2, <1>4, <1>7, <2>1 DEF HoldsMessage
    <3>2. HoldsMessage(r, m) <=> outbox[r].message = m \/ claimed[w][r] = m
      BY <1>7, <2>1 DEF HoldsMessage
    <3>3. outbox[r].message = m => claimed[w][r] = m
      BY <1>5, <2>1 DEF Owned
    <3>4. QED
      BY <3>1, <3>2, <3>3
  <2>2. CASE r \notin DOMAIN claimed[w]
    BY <1>2, <1>4, <2>2 DEF HoldsMessage
  <2>3. QED
    BY <2>1, <2>2
<1>9. \A v \in Workers : targets'[v] = {}
  BY <1>1 DEF Owned, Typed, ReconcileTypes
<1>10. \A m \in stream' : log'[m] \in Events =>
            \E r \in DOMAIN outbox' : outbox'[r].event = log'[m] /\ HoldsMessage(r, m)'
  BY <1>1, <1>3, <1>8 DEF Owned
<1>11. \A r \in DOMAIN outbox' : \A m, n \in stream' :
                HoldsMessage(r, m)' /\ HoldsMessage(r, n)' => m = n
  BY <1>1, <1>8 DEF Owned
<1>12. \A v \in Workers : \A r \in DOMAIN claimed'[v] :
                claimed'[v][r] # NoMessage /\ outbox'[r].message \in stream'
                    => claimed'[v][r] = outbox'[r].message
  BY <1>1, <1>2, <1>4, <1>6, <1>7 DEF Owned
<1>13. QED
  BY <1>9, <1>10, <1>11, <1>12 DEF Owned

LEMMA OwnedStep ==
    ASSUME PublicationInv, [Next]_vars, Calm'
    PROVE  Owned'
<1>1. /\ Typed /\ RowLocks /\ Owned
      /\ ~RedisLoss /\ (\A w \in Workers : ~Interrupted(w))
      /\ \A r \in DOMAIN outbox : ~TurnsOld(r) /\ ~outbox[r].old
  BY CalmBefore DEF PublicationInv, Calm, NothingExpired
<1>2. \A w \in Workers : DOMAIN claimed[w] \subseteq DOMAIN outbox
  BY <1>1 DEF Typed, ReconcileTypes
<1>3. ASSUME UNCHANGED <<outbox, log, claimed, targets>>, stream' \subseteq stream
      PROVE  Owned'
  BY <1>1, <1>2, <1>3, OwnedFrame
<1>4. ASSUME NEW e \in Events, Ingest(e) \/ Replay(e) PROVE Owned'
  BY <1>1, <1>4, OwnedIngest DEF Ingest, Replay, redisVars, reconcileVars
<1>5. ASSUME NEW w \in Workers, StartCleanup(w) PROVE Owned'
  <2>1. {r \in DOMAIN outbox : outbox[r].old /\ status[outbox[r].event] \in Terminal} = {}
    BY <1>1
  <2>2. targets' = targets
    BY <1>1, <1>5, <2>1 DEF StartCleanup, Typed, ReconcileTypes, Owned
  <2>3. UNCHANGED <<outbox, log, claimed>> /\ stream' \subseteq stream
    BY <1>5 DEF StartCleanup, outboxVars, redisVars
  <2>4. QED
    BY <1>3, <2>2, <2>3
<1>6. ASSUME NEW w \in Workers, DeadlockAbort(w) PROVE FALSE
  BY <1>1, <1>6 DEF DeadlockAbort, Deadlocked, Owned
<1>7. ASSUME NEW w \in Workers, FailEventRaises(w) PROVE Owned'
  <2>1. /\ UNCHANGED <<outbox, log, stream>> /\ DOMAIN claimed[w] = {}
        /\ targets' = [targets EXCEPT ![w] = {}]
        /\ claimed' = [claimed EXCEPT ![w] = <<>>]
    BY <1>1, <1>7 DEF FailEventRaises, Abandon, RowLocks, outboxVars, redisVars
  <2>2. DOMAIN claimed'[w] = {} /\ \A v \in Workers \ {w} : claimed'[v] = claimed[v]
    BY <1>1, <1>7, LocksReleased, <2>1 DEF FailEventRaises, Abandon, Typed, ConsumeTypes
  <2>3. \A v \in Workers : targets'[v] = {}
    BY <1>1, <2>1 DEF Owned, Typed, ReconcileTypes
  <2>4. \A r, m : HoldsMessage(r, m)' <=> HoldsMessage(r, m)
    BY <2>1, <2>2 DEF HoldsMessage
  <2>5. \A m \in stream' : log'[m] \in Events =>
            \E r \in DOMAIN outbox' : outbox'[r].event = log'[m] /\ HoldsMessage(r, m)'
    BY <1>1, <2>1, <2>4 DEF Owned
  <2>6. \A r \in DOMAIN outbox' : \A m, n \in stream' :
                HoldsMessage(r, m)' /\ HoldsMessage(r, n)' => m = n
    BY <1>1, <2>1, <2>4 DEF Owned
  <2>7. \A v \in Workers : \A r \in DOMAIN claimed'[v] :
                claimed'[v][r] # NoMessage /\ outbox'[r].message \in stream'
                    => claimed'[v][r] = outbox'[r].message
    BY <1>1, <2>1, <2>2 DEF Owned
  <2>8. QED
    BY <2>3, <2>5, <2>6, <2>7 DEF Owned
<1>8. ASSUME NEW w \in Workers, Handle(w), ~FailEventRaises(w) PROVE Owned'
  BY <1>3, <1>8
     DEF Handle, AttemptSucceeds, AttemptFails, AttemptUnconfirmed, FailEvent, Ack,
         outboxVars, redisVars, reconcileVars
<1>9. ASSUME NEW w \in Workers, Consume(w) PROVE Owned'
  BY <1>3, <1>9
     DEF Consume, ConsumeClaimed, ConsumeNew, ConsumeWithoutGroup, Take, outboxVars, redisVars,
         reconcileVars
<1>10. ASSUME NEW f \in Foreign, EntryAdded(f) PROVE Owned'
  <2>1. UNCHANGED <<outbox, claimed, targets>> /\ log' = Append(log, f)
        /\ stream' \subseteq stream \cup {Len(log) + 1}
    BY <1>10 DEF EntryAdded, outboxVars, reconcileVars
  <2>2. log'[Len(log) + 1] = f /\ \A m \in stream : log'[m] = log[m]
    <3>1. log \in Seq(Ids) /\ stream \subseteq 1 .. Len(log) /\ f \in Ids
      BY <1>1 DEF Typed, StreamTypes, Ids
    <3>2. \A m \in 1 .. Len(log) : log'[m] = log[m]
      BY <2>1, <3>1
    <3>3. QED
      BY <2>1, <3>1, <3>2
  <2>3. \A r, m : HoldsMessage(r, m)' <=> HoldsMessage(r, m)
    BY <2>1 DEF HoldsMessage
  <2>4. f \notin Events
    BY LifecycleAssumption
  <2>5. \A r \in DOMAIN outbox : outbox[r].message # Len(log) + 1 /\ ~HoldsMessage(r, Len(log) + 1)
    <3>1. Len(log) \in Nat
      BY <1>1 DEF Typed, StreamTypes
    <3>2. \A r \in DOMAIN outbox : outbox[r].message \in 0 .. Len(log)
      BY <1>1 DEF Typed, OutboxTypes, OutboxRow
    <3>3. \A v \in Workers : \A r \in DOMAIN claimed[v] : claimed[v][r] \in 0 .. Len(log)
      BY <1>1 DEF Typed, ReconcileTypes
    <3>4. Len(log) + 1 \notin 0 .. Len(log)
      BY <3>1
    <3>5. ASSUME NEW r \in DOMAIN outbox
          PROVE  outbox[r].message # Len(log) + 1 /\ ~HoldsMessage(r, Len(log) + 1)
      BY <3>2, <3>3, <3>4 DEF HoldsMessage
    <3>6. QED
      BY <3>5
  <2>6. \A m \in stream' : log'[m] \in Events =>
            \E r \in DOMAIN outbox' : outbox'[r].event = log'[m] /\ HoldsMessage(r, m)'
    BY <1>1, <2>1, <2>2, <2>3, <2>4 DEF Owned
  <2>7. \A r \in DOMAIN outbox' : \A m, n \in stream' :
                HoldsMessage(r, m)' /\ HoldsMessage(r, n)' => m = n
    BY <1>1, <2>1, <2>3, <2>5 DEF Owned
  <2>8. \A v \in Workers : \A r \in DOMAIN claimed'[v] :
                claimed'[v][r] # NoMessage /\ outbox'[r].message \in stream'
                    => claimed'[v][r] = outbox'[r].message
    BY <1>1, <1>2, <2>1, <2>5 DEF Owned
  <2>9. \A v \in Workers : targets'[v] = {}
    BY <1>1, <2>1 DEF Owned
  <2>10. QED
    BY <2>6, <2>7, <2>8, <2>9 DEF Owned
<1>11. ASSUME NEW x \in DOMAIN outbox, TurnsStale(x) PROVE Owned'
  <2>1. /\ DOMAIN outbox' = DOMAIN outbox
        /\ \A r \in DOMAIN outbox : /\ outbox'[r].event = outbox[r].event
                                    /\ outbox'[r].message = outbox[r].message
    BY <1>1, <1>11, AgesKeepEvents
  <2>2. UNCHANGED <<log, stream, claimed, targets>>
    BY <1>11 DEF TurnsStale, redisVars, reconcileVars
  <2>3. QED
    BY <1>1, <1>2, <2>1, <2>2, OwnedFrame
<1>12. ASSUME NEW w \in Workers, Iterate(w) PROVE Owned'
  BY <1>1, <1>5, <1>6, <1>7, <1>8, <1>9, <1>12, OwnedClaim, OwnedPublish, OwnedCommit
     DEF Iterate, Reconcile
<1>13. CASE UNCHANGED vars \/ \E m \in delivered : TurnsIdle(m)
  BY <1>3, <1>13 DEF vars, TurnsIdle, outboxVars, redisVars, reconcileVars
<1>14. QED
  BY <1>1, <1>4, <1>10, <1>11, <1>12, <1>13, EntriesAdded DEF Next

LEMMA PublicationStep == PublicationInv /\ [Next]_vars => PublicationInv'
BY TypedStep, LocksStep, OwnedStep DEF PublicationInv

LEMMA PublicationInit == Init => PublicationInv
<1> SUFFICES ASSUME Init PROVE PublicationInv
  OBVIOUS
<1>1. DOMAIN <<>> = {}
  OBVIOUS
<1>2. RowLocks
  BY <1>1 DEF Init, RowLocks, Unhandled
<1>3. Owned
  BY <1>1 DEF Init, Owned
<1>4. QED
  BY <1>2, <1>3, TypedInit DEF PublicationInv

\* Each message of an event is matched with the row that holds it.
LEMMA MessagesMatchRows ==
    ASSUME Typed, Owned, NEW e \in Events
    PROVE  Cardinality({m \in stream : log[m] = e})
                <= Cardinality({r \in DOMAIN outbox : outbox[r].event = e})
<1> DEFINE M == {m \in stream : log[m] = e}
           R == {r \in DOMAIN outbox : outbox[r].event = e}
           holder == [m \in M |-> CHOOSE r \in R : HoldsMessage(r, m)]
<1>1. \A m \in M : \E r \in R : HoldsMessage(r, m)
  BY DEF Owned
<1>2. \A m \in M : holder[m] \in R /\ HoldsMessage(holder[m], m)
  BY <1>1
<1>3. \A m, n \in M : holder[m] = holder[n] => m = n
  <2> HIDE DEF holder
  <2>1. M \subseteq stream /\ R \subseteq DOMAIN outbox
    OBVIOUS
  <2>2. QED
    BY <1>2, <2>1 DEF Owned
<1>4. holder \in Injection(M, R)
  <2>1. holder \in [M -> R]
    BY <1>2
  <2>2. DOMAIN holder = M
    OBVIOUS
  <2> HIDE DEF M, R, holder
  <2>3. QED
    BY <1>3, <2>1, <2>2 DEF Injection, IsInjective
<1>5. IsFiniteSet(R)
  <2>1. nextRow \in Int /\ R \in SUBSET (1 .. nextRow - 1)
    BY DEF Typed, OutboxTypes
  <2>2. IsFiniteSet(1 .. nextRow - 1)
    BY <2>1, FS_Interval
  <2>3. QED
    BY <2>1, <2>2, FS_Subset
<1> HIDE DEF M, R, holder
<1>6. Cardinality(M) <= Cardinality(R)
  BY <1>4, <1>5, FS_Injection
<1>7. QED
  BY <1>6 DEF M, R

\* event_worker.py, a slow consumer is not a lost message: with any number of
\* workers whose deliveries, claims and acknowledgements are late, no event has
\* more messages in the stream than outbox rows before the first failure.
THEOREM NothingIsPublishedTwice == Spec => []NoDuplicatePublication
<1>1. PublicationInv => NoDuplicatePublication
  BY MessagesMatchRows DEF PublicationInv, Calm, NoDuplicatePublication
<1>2. QED
  BY <1>1, PublicationInit, PublicationStep, PTL DEF Spec

----------------------------------------------------------------------------
(* How often a row is published                                            *)

\* r and the later rows of its event: each was written by a replay, after the
\* event had settled once more.
Since(r) == {x \in DOMAIN outbox : outbox[x].event = outbox[r].event /\ x >= r}

\* A worker has claimed r and has yet to see to its message.
Busy(r) == \E w \in Workers : r \in DOMAIN claimed[w] /\ claimed[w][r] = NoMessage

\* If nothing fails, m is what a reconciliation of r confirms.
Keeps(r, m) ==
    \/ \E w \in Workers : r \in DOMAIN claimed[w] /\ claimed[w][r] = m
    \/ /\ outbox[r].message = m
       /\ \A w \in Workers : r \in DOMAIN claimed[w] => claimed[w][r] = NoMessage

\* A worker is about to acknowledge m.
Doomed(m) == \E w \in Workers : pc[w] = "ack" /\ InHand(w) = m

\* r has a message that will not go before its event has settled.
Lasting(r) == \E m \in stream : Keeps(r, m) /\ log[m] = outbox[r].event /\ ~Doomed(m)

\* The messages that may still be added for r before the next row of its event.
Need(r) ==
    IF status[outbox[r].event] = "pending"
    THEN IF Lasting(r) THEN 1 ELSE 2
    ELSE IF Busy(r) THEN 1 ELSE 0

\* The messages that r may have had so far: two for itself and for each later
\* row (the one that settles the event, and one for what had been claimed by
\* then), one for each fault and each trim, less what it may still need.
Room(r) == 2 * Cardinality(Since(r)) + Disturbances - Need(r)

\* Every message of an event was added for a row of it, within the row's room.
Assigned(row, slot) ==
    /\ \A m \in 1 .. Len(log) : log[m] \in Events =>
        /\ row[m] \in DOMAIN outbox
        /\ outbox[row[m]].event = log[m]
        /\ slot[m] \in 1 .. Room(row[m])
    /\ \A m, n \in 1 .. Len(log) :
        /\ log[m] \in Events /\ log[n] \in Events
        /\ row[m] = row[n] /\ slot[m] = slot[n]
        => m = n

NoTargets == \A w \in Workers : targets[w] = {}

FloodInv ==
    /\ Typed
    /\ RowLocks
    /\ NothingExpired => NoTargets /\ \E row, slot : Assigned(row, slot)

\* A row's own position is at least one.
LEMMA SinceType ==
    ASSUME Typed
    PROVE  \A r \in DOMAIN outbox :
                /\ IsFiniteSet(Since(r)) /\ r \in Since(r)
                /\ Cardinality(Since(r)) \in Nat \ {0}
<1> SUFFICES ASSUME NEW r \in DOMAIN outbox
             PROVE  /\ IsFiniteSet(Since(r)) /\ r \in Since(r)
                    /\ Cardinality(Since(r)) \in Nat \ {0}
  OBVIOUS
<1>1. nextRow \in Int /\ DOMAIN outbox \in SUBSET (1 .. nextRow - 1)
  BY DEF Typed, OutboxTypes
<1>2. IsFiniteSet(1 .. nextRow - 1)
  BY <1>1, FS_Interval
<1>3. IsFiniteSet(DOMAIN outbox)
  BY <1>1, <1>2, FS_Subset
<1>4. Since(r) \in SUBSET DOMAIN outbox /\ r \in Since(r)
  <2>1. r >= r
    BY <1>1
  <2>2. QED
    BY <2>1 DEF Since
<1>5. IsFiniteSet(Since(r))
  BY <1>3, <1>4, FS_Subset
<1>6. Cardinality(Since(r)) \in Nat
  BY <1>5, FS_CardinalityType
<1>7. Cardinality(Since(r)) # 0
  BY <1>4, <1>5, FS_EmptySet
<1>8. QED
  BY <1>4, <1>5, <1>6, <1>7

LEMMA NeedType == \A r : Need(r) \in 0 .. 2
BY DEF Need

\* Disturbances are faults and entries of seed-live.
DemoEntries == {m \in 1 .. Len(log) : log[m] \in Demo}

LEMMA DisturbancesType ==
    Typed => IsFiniteSet(DemoEntries) /\ Cardinality(DemoEntries) \in Nat /\ Disturbances \in Nat
<1> HAVE Typed
<1>1. Len(log) \in Nat /\ faults \in Nat
  BY PipelineAssumption DEF Typed, StreamTypes, ConsumeTypes
<1>2. IsFiniteSet(1 .. Len(log)) /\ DemoEntries \in SUBSET (1 .. Len(log))
  BY <1>1, FS_Interval DEF DemoEntries
<1>3. IsFiniteSet(DemoEntries)
  BY <1>2, FS_Subset
<1>4. Cardinality(DemoEntries) \in Nat
  BY <1>3, FS_CardinalityType
<1>5. QED
  BY <1>1, <1>3, <1>4 DEF Disturbances, DemoEntries

LEMMA DisturbancesKept ==
    ASSUME Typed, log' = log \/ \E id \in Ids \ Demo : log' = Append(log, id)
    PROVE  /\ UNCHANGED faults => UNCHANGED Disturbances
           /\ faults' = faults + 1 => Disturbances' = Disturbances + 1
<1>1. DemoEntries' = DemoEntries
  <2>1. ASSUME NEW id \in Ids \ Demo, log' = Append(log, id) PROVE DemoEntries' = DemoEntries
    <3>1. /\ Len(log) \in Nat /\ Len(log') = Len(log) + 1
          /\ log'[Len(log) + 1] = id /\ \A m \in 1 .. Len(log) : log'[m] = log[m]
      BY <2>1 DEF Typed, StreamTypes
    <3>2. \A m \in 1 .. Len(log) + 1 : m = Len(log) + 1 \/ m \in 1 .. Len(log)
      BY <3>1
    <3>3. \A m \in 1 .. Len(log) : m \in 1 .. Len(log) + 1
      BY <3>1
    <3>4. QED
      BY <2>1, <3>1, <3>2, <3>3 DEF DemoEntries
  <2>2. QED
    BY <2>1 DEF DemoEntries
<1>2. PICK d \in Nat : d = Cardinality(DemoEntries)
  BY DisturbancesType
<1>3. Disturbances = faults + d /\ Disturbances' = faults' + d
  BY <1>1, <1>2 DEF Disturbances, DemoEntries
<1> faults \in Nat
  BY PipelineAssumption DEF Typed, ConsumeTypes
<1>4. QED
  BY <1>2, <1>3

LEMMA DisturbancesTrim ==
    ASSUME Typed, NEW f \in Demo, SeedLive(f)
    PROVE  Disturbances' = Disturbances + 1
<1>1. PICK k : k = Len(log) + 1
  OBVIOUS
<1>2. /\ Len(log) \in Nat /\ Len(log') = k
      /\ log'[k] = f /\ \A m \in 1 .. Len(log) : log'[m] = log[m]
  <2>1. f \in Ids /\ log \in Seq(Ids) /\ log' = Append(log, f)
    BY PipelineAssumption DEF SeedLive, Typed, StreamTypes, Ids
  <2>2. QED
    BY <1>1, <2>1
<1>3. DemoEntries' = DemoEntries \cup {k}
  <2>1. \A m : m \in 1 .. k <=> m = k \/ m \in 1 .. Len(log)
    BY <1>1, <1>2
  <2>2. QED
    BY <1>2, <2>1 DEF DemoEntries
<1>4. k \notin DemoEntries
  BY <1>1, <1>2 DEF DemoEntries
<1>5. Cardinality(DemoEntries \cup {k}) = Cardinality(DemoEntries) + 1
  BY <1>4, DisturbancesType, FS_AddElement
<1>6. UNCHANGED faults /\ faults \in Nat
  BY PipelineAssumption DEF SeedLive, Typed, ConsumeTypes
<1>7. Cardinality(DemoEntries') = Cardinality(DemoEntries) + 1
  BY <1>3, <1>5
<1>8. Disturbances = faults + Cardinality(DemoEntries)
      /\ Disturbances' = faults' + Cardinality(DemoEntries')
  BY DEF Disturbances, DemoEntries
<1>9. QED
  BY <1>6, <1>7, <1>8, DisturbancesType

LEMMA RoomType == Typed => \A r \in DOMAIN outbox : Room(r) \in Nat
<1> HAVE Typed
<1> TAKE r \in DOMAIN outbox
<1>1. Cardinality(Since(r)) \in Nat \ {0} /\ Need(r) \in 0 .. 2 /\ Disturbances \in Nat
  BY SinceType, NeedType, DisturbancesType
<1>2. QED
  BY <1>1 DEF Room

\* The messages stay assigned while no room shrinks.
LEMMA AssignedKept ==
    ASSUME Typed, NEW row, NEW slot, Assigned(row, slot),
           \/ log' = log
           \/ \E f \in Foreign : log' = Append(log, f),
           \A r \in DOMAIN outbox :
                /\ r \in DOMAIN outbox' /\ outbox'[r].event = outbox[r].event
                /\ Room(r)' \in Nat /\ Room(r) <= Room(r)'
    PROVE  Assigned(row, slot)'
<1>1. \A m \in 1 .. Len(log') : log'[m] \in Events => m \in 1 .. Len(log) /\ log'[m] = log[m]
  <2>1. ASSUME NEW f \in Foreign, log' = Append(log, f), NEW m \in 1 .. Len(log'), log'[m] \in Events
        PROVE  m \in 1 .. Len(log) /\ log'[m] = log[m]
    <3>1. log \in Seq(Ids) /\ f \in Ids /\ f \notin Events
      BY LifecycleAssumption DEF Typed, StreamTypes, Ids
    <3>2. QED
      BY <2>1, <3>1
  <2>2. QED
    BY <2>1
<1>2. ASSUME NEW m \in 1 .. Len(log'), log'[m] \in Events
      PROVE  /\ row[m] \in DOMAIN outbox'
             /\ outbox'[row[m]].event = log'[m]
             /\ slot[m] \in 1 .. Room(row[m])'
  <2>1. /\ m \in 1 .. Len(log) /\ log'[m] = log[m] /\ row[m] \in DOMAIN outbox
        /\ outbox[row[m]].event = log[m] /\ slot[m] \in 1 .. Room(row[m])
    BY <1>1, <1>2 DEF Assigned
  <2>2. PICK r \in DOMAIN outbox : r = row[m]
    BY <2>1
  <2>3. Room(r) \in Nat /\ Room(r)' \in Nat /\ Room(r) <= Room(r)'
    BY RoomType
  <2>4. slot[m] \in 1 .. Room(r)'
    BY <2>1, <2>2, <2>3
  <2>5. QED
    BY <2>1, <2>2, <2>4
<1>3. \A m, n \in 1 .. Len(log') :
        /\ log'[m] \in Events /\ log'[n] \in Events
        /\ row[m] = row[n] /\ slot[m] = slot[n]
        => m = n
  BY <1>1 DEF Assigned
<1>4. QED
  BY <1>2, <1>3 DEF Assigned

----------------------------------------------------------------------------
\* The same rows, for the same events.
SameRows ==
    /\ DOMAIN outbox' = DOMAIN outbox
    /\ \A r \in DOMAIN outbox : outbox'[r].event = outbox[r].event

\* The step asks for no more messages of r than could be added before it.
AsksNoMore(r) ==
    /\ status'[outbox[r].event] = "pending" =>
        status[outbox[r].event] = "pending" /\ (Lasting(r) => Lasting(r)')
    /\ Busy(r)' => Busy(r) \/ status[outbox[r].event] = "pending"

LEMMA NeedKept ==
    ASSUME NEW r \in DOMAIN outbox, outbox'[r].event = outbox[r].event, AsksNoMore(r)
    PROVE  Need(r)' <= Need(r)
BY DEF AsksNoMore, Need

LEMMA SameSince == SameRows => \A r \in DOMAIN outbox : Since(r)' = Since(r)
BY DEF SameRows, Since

LEMMA RoomKept ==
    ASSUME Typed, SameRows, NEW r \in DOMAIN outbox,
           \/ UNCHANGED Disturbances /\ Need(r)' <= Need(r)
           \/ Disturbances' = Disturbances + 1 /\ Need(r)' <= Need(r) + 1
    PROVE  Room(r)' \in Nat /\ Room(r) <= Room(r)'
<1>1. Cardinality(Since(r)') = Cardinality(Since(r))
  BY SameSince DEF SameRows
<1>2. /\ Cardinality(Since(r)) \in Nat /\ Disturbances \in Nat
      /\ Need(r) \in 0 .. 2 /\ Need(r)' \in 0 .. 2
  BY SinceType, NeedType, DisturbancesType DEF Need
<1>3. Room(r)' = 2 * Cardinality(Since(r)) + Disturbances' - Need(r)'
  BY <1>1 DEF Room
<1>4. Room(r) \in Nat
  BY RoomType
<1>5. QED
  BY <1>2, <1>3, <1>4 DEF Room

\* A step that keeps the rows and asks for no more than before, or disturbs once.
LEMMA AssignedFrame ==
    ASSUME Typed, NEW row, NEW slot, Assigned(row, slot), SameRows,
           log' = log \/ \E f \in Foreign : log' = Append(log, f),
           \A r \in DOMAIN outbox :
                \/ UNCHANGED Disturbances /\ Need(r)' <= Need(r)
                \/ Disturbances' = Disturbances + 1 /\ Need(r)' <= Need(r) + 1
    PROVE  Assigned(row, slot)'
<1>1. \A r \in DOMAIN outbox :
        /\ r \in DOMAIN outbox' /\ outbox'[r].event = outbox[r].event
        /\ Room(r)' \in Nat /\ Room(r) <= Room(r)'
  BY RoomKept DEF SameRows
<1>2. QED
  BY <1>1, AssignedKept

\* Enough for a lasting message to stay one.
LEMMA LastingKept ==
    ASSUME NEW r \in DOMAIN outbox, outbox'[r].event = outbox[r].event,
           \A m \in stream :
                Keeps(r, m) /\ log[m] = outbox[r].event /\ ~Doomed(m)
                    => /\ m \in stream' /\ log'[m] = log[m]
                       /\ Keeps(r, m)' /\ ~Doomed(m)'
    PROVE  Lasting(r) => Lasting(r)'
BY DEF Lasting

\* Who keeps which message depends on the claims and the rows' messages only.
LEMMA KeepsFrame ==
    ASSUME UNCHANGED claimed, NEW r \in DOMAIN outbox, outbox'[r].message = outbox[r].message
    PROVE  /\ \A m : Keeps(r, m)' <=> Keeps(r, m)
           /\ Busy(r)' <=> Busy(r)
BY DEF Keeps, Busy

\* No worker has come to acknowledge what it had not.
LEMMA DoomedFrame ==
    ASSUME \A w \in Workers : pc'[w] = "ack" => pc[w] = "ack" /\ batch'[w] = batch[w]
    PROVE  \A m : Doomed(m)' => Doomed(m)
BY DEF Doomed, InHand

----------------------------------------------------------------------------
\* A step that leaves rows and claims alone, settles an event before its
\* message is about to go, and takes only messages that were about to go.
LEMMA AsksFrame ==
    ASSUME Typed, UNCHANGED <<outbox, log>>,
           \A r \in DOMAIN outbox :
                /\ \A m \in stream : Keeps(r, m) => Keeps(r, m)'
                /\ Busy(r)' => Busy(r),
           \A e \in Events : status'[e] = "pending" => status[e] = "pending",
           \A m \in stream :
                log[m] \in Events /\ status'[log[m]] = "pending" /\ ~Doomed(m)
                    => m \in stream' /\ ~Doomed(m)'
    PROVE  SameRows /\ \A r \in DOMAIN outbox : AsksNoMore(r)
<1>1. SameRows
  BY DEF SameRows
<1>2. ASSUME NEW r \in DOMAIN outbox, status'[outbox[r].event] = "pending"
      PROVE  Lasting(r) => Lasting(r)'
  <2>1. outbox[r].event \in Events
    BY DEF Typed, OutboxTypes, OutboxRow
  <2>2. \A m \in stream :
            Keeps(r, m) /\ log[m] = outbox[r].event /\ ~Doomed(m)
                => /\ m \in stream' /\ log'[m] = log[m]
                   /\ Keeps(r, m)' /\ ~Doomed(m)'
    BY <1>2, <2>1
  <2>3. QED
    BY <2>2, LastingKept
<1>3. \A r \in DOMAIN outbox : outbox[r].event \in Events
  BY DEF Typed, OutboxTypes, OutboxRow
<1>4. QED
  BY <1>1, <1>2, <1>3 DEF AsksNoMore

LEMMA AsksConsume ==
    ASSUME Typed, NEW w \in Workers, Consume(w)
    PROVE  SameRows /\ \A r \in DOMAIN outbox : AsksNoMore(r)
<1>1. UNCHANGED <<outbox, log, stream, claimed, status>>
  BY DEF Consume, ConsumeClaimed, ConsumeNew, ConsumeWithoutGroup, Take, lifecycleVars,
         outboxVars, redisVars, reconcileVars
<1>2. \A v \in Workers : pc'[v] = "ack" => pc[v] = "ack" /\ batch'[v] = batch[v]
  BY DEF Consume, ConsumeClaimed, ConsumeNew, ConsumeWithoutGroup, Take, consumeVars,
         Typed, ConsumeTypes
<1>3. \A m : Doomed(m)' => Doomed(m)
  BY <1>2, DoomedFrame
<1>4. \A r \in DOMAIN outbox :
        /\ \A m \in stream : Keeps(r, m) => Keeps(r, m)'
        /\ Busy(r)' => Busy(r)
  BY <1>1, KeepsFrame
<1>5. QED
  BY <1>1, <1>3, <1>4, AsksFrame

\* An attempt ends with the event of the message in hand settled.
LEMMA AsksHandled ==
    ASSUME Typed, NEW w \in Workers,
           AttemptSucceeds(w) \/ AttemptFails(w) \/ AttemptUnconfirmed(w) \/ FailEvent(w)
    PROVE  SameRows /\ \A r \in DOMAIN outbox : AsksNoMore(r)
<1>1. UNCHANGED <<outbox, log, stream, claimed, batch>>
  BY DEF AttemptSucceeds, AttemptFails, AttemptUnconfirmed, FailEvent,
         outboxVars, redisVars, reconcileVars, consumeVars
<1>2. Current(w) \in Ids /\ Current(w) = log[InHand(w)]
  BY InHandType
     DEF AttemptSucceeds, AttemptFails, AttemptUnconfirmed, FailEvent, Handling, Current
<1>3. /\ \A e \in Events : status'[e] = "pending" => status[e] = "pending"
      /\ pc'[w] = "ack" /\ Current(w) \in Events => status'[Current(w)] # "pending"
  BY <1>2, LifecycleAssumption
     DEF AttemptSucceeds, AttemptFails, AttemptUnconfirmed, Retry, FailEvent, Apply, DeadLetter,
         Reject, lifecycleVars, Typed, LifecycleTypeOK, ConsumeTypes, Ids
<1>4. \A v \in Workers \ {w} : pc'[v] = pc[v]
  BY DEF AttemptSucceeds, AttemptFails, AttemptUnconfirmed, Retry, FailEvent, Typed, ConsumeTypes
<1>5. ASSUME NEW m \in stream, log[m] \in Events, status'[log[m]] = "pending", ~Doomed(m)
      PROVE  m \in stream' /\ ~Doomed(m)'
  <2>1. InHand(w) = m => pc'[w] # "ack"
    BY <1>2, <1>3, <1>5
  <2>2. QED
    BY <1>1, <1>4, <1>5, <2>1 DEF Doomed, InHand
<1>6. \A r \in DOMAIN outbox :
        /\ \A m \in stream : Keeps(r, m) => Keeps(r, m)'
        /\ Busy(r)' => Busy(r)
  BY <1>1, KeepsFrame
<1>7. QED
  BY <1>1, <1>3, <1>5, <1>6, AsksFrame

\* What is acknowledged was about to go.
LEMMA AsksAck ==
    ASSUME Typed, NEW w \in Workers, Ack(w)
    PROVE  SameRows /\ \A r \in DOMAIN outbox : AsksNoMore(r)
<1>1. /\ UNCHANGED <<outbox, log, claimed, status>>
      /\ stream' = stream \ {InHand(w)} /\ pc[w] = "ack" /\ pc'[w] # "ack"
      /\ \A v \in Workers \ {w} : pc'[v] = pc[v] /\ batch'[v] = batch[v]
  BY DEF Ack, outboxVars, reconcileVars, lifecycleVars, Typed, ConsumeTypes
<1>2. \A m : Doomed(m)' => Doomed(m)
  BY <1>1, DoomedFrame
<1>3. \A m \in stream : ~Doomed(m) => m \in stream'
  BY <1>1 DEF Doomed
<1>4. \A r \in DOMAIN outbox :
        /\ \A m \in stream : Keeps(r, m) => Keeps(r, m)'
        /\ Busy(r)' => Busy(r)
  BY <1>1, KeepsFrame
<1>5. QED
  BY <1>1, <1>2, <1>3, <1>4, AsksFrame

\* A failed fail_event has no claims to lose: only a reconciliation has.
LEMMA AsksRaises ==
    ASSUME Typed, RowLocks, NEW w \in Workers, FailEventRaises(w)
    PROVE  SameRows /\ \A r \in DOMAIN outbox : AsksNoMore(r)
<1>1. /\ UNCHANGED <<outbox, log, stream, status>> /\ DOMAIN claimed[w] = {}
      /\ claimed' = [claimed EXCEPT ![w] = <<>>]
      /\ \A v \in Workers \ {w} : pc'[v] = pc[v] /\ batch'[v] = batch[v]
      /\ pc'[w] # "ack"
  BY DEF FailEventRaises, Abandon, RowLocks, outboxVars, redisVars, lifecycleVars,
         Typed, ConsumeTypes
<1>2. DOMAIN claimed'[w] = {} /\ \A v \in Workers \ {w} : claimed'[v] = claimed[v]
  BY <1>1, LocksReleased
<1>3. \A r \in DOMAIN outbox :
        /\ \A m \in stream : Keeps(r, m) => Keeps(r, m)'
        /\ Busy(r)' => Busy(r)
  BY <1>1, <1>2 DEF Keeps, Busy
<1>4. \A m : Doomed(m)' => Doomed(m)
  BY <1>1, DoomedFrame
<1>5. QED
  BY <1>1, <1>3, <1>4, AsksFrame

\* A claim is of pending events, and of rows nobody else has.
LEMMA AsksClaim ==
    ASSUME Typed, RowLocks, NEW w \in Workers, Claim(w)
    PROVE  SameRows /\ \A r \in DOMAIN outbox : AsksNoMore(r)
<1>1. /\ DOMAIN claimed[w] = {}
      /\ \A r \in DOMAIN claimed'[w] : claimed'[w][r] = NoMessage
      /\ \A v \in Workers \ {w} : claimed'[v] = claimed[v]
  BY LocksClaim
<1>2. /\ UNCHANGED <<outbox, log, stream, status, batch>> /\ pc'[w] # "ack"
      /\ \A v \in Workers \ {w} : pc'[v] = pc[v]
  BY DEF Claim, outboxVars, lifecycleVars, consumeVars, Typed, ConsumeTypes
<1>3. \A r \in DOMAIN claimed'[w] : status[outbox[r].event] = "pending"
  <2>1. PICK rows \in SUBSET {r \in DOMAIN outbox : Publishable(r)} :
            claimed' = [claimed EXCEPT ![w] = [r \in rows |-> NoMessage]]
    BY DEF Claim, FirstN
  <2>2. DOMAIN claimed'[w] = rows
    BY <2>1 DEF Typed, ReconcileTypes
  <2>3. QED
    BY <2>1, <2>2 DEF Publishable
<1>4. \A m : Doomed(m)' => Doomed(m)
  BY <1>2, DoomedFrame
<1>5. ASSUME NEW r \in DOMAIN outbox
      PROVE  /\ \A m \in stream : Keeps(r, m) => Keeps(r, m)'
             /\ Busy(r)' => Busy(r) \/ status[outbox[r].event] = "pending"
  BY <1>1, <1>2, <1>3 DEF Keeps, Busy
<1>6. ASSUME NEW r \in DOMAIN outbox PROVE Lasting(r) => Lasting(r)'
  <2>1. \A m \in stream :
            Keeps(r, m) /\ log[m] = outbox[r].event /\ ~Doomed(m)
                => /\ m \in stream' /\ log'[m] = log[m]
                   /\ Keeps(r, m)' /\ ~Doomed(m)'
    BY <1>2, <1>4, <1>5
  <2>2. QED
    BY <1>2, <2>1, LastingKept
<1>7. QED
  BY <1>2, <1>5, <1>6 DEF SameRows, AsksNoMore

\* The rows keep what their claims have become.
LEMMA AsksCommit ==
    ASSUME Typed, RowLocks, NoTargets, NEW w \in Workers, CommitReconcile(w)
    PROVE  SameRows /\ \A r \in DOMAIN outbox : AsksNoMore(r)
<1>1. UNCHANGED <<log, stream, status, batch>> /\ DOMAIN outbox' = DOMAIN outbox
  BY DEF CommitReconcile, redisVars, lifecycleVars, consumeVars, NoTargets
<1>2. \A r \in DOMAIN outbox : outbox'[r].event = outbox[r].event
  BY <1>1, CommitKeepsEvents
<1>3. \A r \in DOMAIN outbox :
        outbox'[r].message = IF r \in DOMAIN claimed[w] THEN claimed[w][r] ELSE outbox[r].message
  <2> TAKE r \in DOMAIN outbox
  <2>1. PICK e, q, k, o : outbox[r] = [event |-> e, published |-> q, message |-> k, old |-> o]
    BY DEF Typed, OutboxTypes, OutboxRow
  <2>2. outbox'[r] = IF r \in DOMAIN claimed[w]
                     THEN [outbox[r] EXCEPT !.published = "fresh", !.message = claimed[w][r]]
                     ELSE outbox[r]
    BY <1>1 DEF CommitReconcile
  <2>3. QED
    BY <2>1, <2>2
<1>4. \A r \in DOMAIN claimed[w] : claimed[w][r] # NoMessage
  BY DEF CommitReconcile, RowLocks, Unhandled
<1>5. \A v \in Workers \ {w} : DOMAIN claimed[v] \cap DOMAIN claimed[w] = {}
  BY DEF RowLocks
<1>6. DOMAIN claimed'[w] = {} /\ \A v \in Workers \ {w} : claimed'[v] = claimed[v]
  BY LocksReleased DEF CommitReconcile, Typed, ConsumeTypes
<1>7. ASSUME NEW r \in DOMAIN outbox
      PROVE  /\ \A m \in stream : Keeps(r, m) => Keeps(r, m)'
             /\ Busy(r)' => Busy(r)
  <2>1. Busy(r)' => Busy(r)
    BY <1>6 DEF Busy
  <2>2. CASE r \in DOMAIN claimed[w]
    <3>1. PICK k : k = claimed[w][r]
      OBVIOUS
    <3>2. \A m : Keeps(r, m) => m = k
      BY <1>4, <1>5, <2>2, <3>1 DEF Keeps
    <3>3. \A v \in Workers : r \notin DOMAIN claimed'[v]
      BY <1>5, <1>6, <2>2
    <3>4. Keeps(r, k)'
      BY <1>3, <2>2, <3>1, <3>3 DEF Keeps
    <3>5. QED
      BY <2>1, <3>2, <3>4
  <2>3. CASE r \notin DOMAIN claimed[w]
    <3>1. outbox'[r].message = outbox[r].message
      BY <1>3, <2>3
    <3>2. \A v \in Workers : r \in DOMAIN claimed'[v] <=> r \in DOMAIN claimed[v]
      BY <1>6, <2>3
    <3>3. \A v \in Workers : r \in DOMAIN claimed[v] => claimed'[v][r] = claimed[v][r]
      BY <1>6, <2>3
    <3>4. QED
      BY <2>1, <3>1, <3>2, <3>3 DEF Keeps
  <2>4. QED
    BY <2>2, <2>3
<1>8. pc'[w] # "ack" /\ \A v \in Workers \ {w} : pc'[v] = pc[v]
  BY DEF CommitReconcile, Typed, ConsumeTypes
<1>9. \A m : Doomed(m)' => Doomed(m)
  BY <1>1, <1>8, DoomedFrame
<1>10. ASSUME NEW r \in DOMAIN outbox PROVE Lasting(r) => Lasting(r)'
  <2>1. \A m \in stream :
            Keeps(r, m) /\ log[m] = outbox[r].event /\ ~Doomed(m)
                => /\ m \in stream' /\ log'[m] = log[m]
                   /\ Keeps(r, m)' /\ ~Doomed(m)'
    BY <1>1, <1>7, <1>9
  <2>2. QED
    BY <1>2, <2>1, LastingKept
<1>11. QED
  BY <1>1, <1>2, <1>7, <1>10 DEF SameRows, AsksNoMore

\* Claims and messages are lost: each row may need one message more.
LEMMA NeedAfterFault ==
    ASSUME NEW r \in DOMAIN outbox, outbox'[r].event = outbox[r].event, UNCHANGED status,
           Busy(r)' => Busy(r)
    PROVE  Need(r)' <= Need(r) + 1
BY DEF Need

LEMMA AsksAfterFault ==
    ASSUME Typed, RowLocks, RedisLoss \/ \E w \in Workers : Interrupted(w)
    PROVE  /\ SameRows /\ Disturbances' = Disturbances + 1 /\ UNCHANGED log
           /\ \A r \in DOMAIN outbox : Need(r)' <= Need(r) + 1
<1>1. UNCHANGED <<outbox, status, log>> /\ faults' = faults + 1
  BY DEF RedisLoss, Interrupted, Abandon, outboxVars, redisVars, lifecycleVars
<1>2. SameRows
  BY <1>1 DEF SameRows
<1>3. ASSUME NEW r \in DOMAIN outbox PROVE Busy(r)' => Busy(r)
  <2>1. CASE RedisLoss
    BY <2>1 DEF RedisLoss, reconcileVars, Busy
  <2>2. CASE \E w \in Workers : Interrupted(w)
    <3>1. PICK w \in Workers : Interrupted(w)
      BY <2>2
    <3>2. DOMAIN claimed'[w] = {} /\ \A v \in Workers \ {w} : claimed'[v] = claimed[v]
      BY <3>1, LocksReleased DEF Interrupted, Abandon, Typed, ConsumeTypes
    <3>3. QED
      BY <3>2 DEF Busy
  <2>3. QED
    BY <2>1, <2>2
<1>4. QED
  BY <1>1, <1>2, <1>3, NeedAfterFault, DisturbancesKept

\* A trim takes messages, and leaves the claims.
LEMMA AsksAfterTrim ==
    ASSUME Typed, NEW f \in Demo, SeedLive(f)
    PROVE  /\ SameRows /\ Disturbances' = Disturbances + 1
           /\ f \in Foreign /\ log' = Append(log, f)
           /\ \A r \in DOMAIN outbox : Need(r)' <= Need(r) + 1
<1>1. UNCHANGED <<outbox, status, claimed>> /\ log' = Append(log, f)
  BY DEF SeedLive, outboxVars, lifecycleVars, reconcileVars
<1>2. SameRows /\ \A r \in DOMAIN outbox : Busy(r)' => Busy(r)
  BY <1>1 DEF SameRows, Busy
<1>3. QED
  BY <1>1, <1>2, NeedAfterFault, DisturbancesTrim, PipelineAssumption

\* A new row of an event gives each older one two messages more.
LEMMA RoomIngest ==
    ASSUME Typed, NEW e \in Events, AddRow(e), UNCHANGED Disturbances
    PROVE  \A r \in DOMAIN outbox :
                /\ r \in DOMAIN outbox' /\ outbox'[r].event = outbox[r].event
                /\ outbox[r].event = e => Room(r)' \in Nat /\ Room(r) <= Room(r)'
                /\ outbox[r].event # e => Since(r)' = Since(r)
<1>1. /\ DOMAIN outbox' = DOMAIN outbox \cup {nextRow} /\ nextRow \notin DOMAIN outbox
      /\ \A r \in DOMAIN outbox : outbox'[r] = outbox[r] /\ nextRow >= r
      /\ outbox'[nextRow].event = e
  BY DEF AddRow, NewRow, Typed, OutboxTypes
<1>2. ASSUME NEW r \in DOMAIN outbox
      PROVE  Since(r)' = IF outbox[r].event = e THEN Since(r) \cup {nextRow} ELSE Since(r)
  BY <1>1 DEF Since
<1>3. ASSUME NEW r \in DOMAIN outbox, outbox[r].event = e
      PROVE  Room(r)' \in Nat /\ Room(r) <= Room(r)'
  <2>1. IsFiniteSet(Since(r)) /\ nextRow \notin Since(r)
    BY <1>1, SinceType DEF Since
  <2>2. Cardinality(Since(r) \cup {nextRow}) = Cardinality(Since(r)) + 1
    BY <2>1, FS_AddElement
  <2>3. Cardinality(Since(r)') = Cardinality(Since(r)) + 1
    BY <1>2, <1>3, <2>2
  <2>4. /\ Cardinality(Since(r)) \in Nat /\ Disturbances \in Nat
        /\ Need(r) \in 0 .. 2 /\ Need(r)' \in 0 .. 2
    BY SinceType, NeedType, DisturbancesType DEF Need
  <2>5. Room(r)' = 2 * (Cardinality(Since(r)) + 1) + Disturbances - Need(r)'
    BY <2>3 DEF Room
  <2>6. Room(r) \in Nat
    BY RoomType
  <2>7. QED
    BY <2>4, <2>5, <2>6 DEF Room
<1>4. QED
  BY <1>1, <1>2, <1>3

LEMMA AssignedIngest ==
    ASSUME Typed, NEW row, NEW slot, Assigned(row, slot), NEW e \in Events, Ingest(e) \/ Replay(e)
    PROVE  Assigned(row, slot)'
<1>0. /\ AddRow(e) /\ UNCHANGED <<log, stream, claimed, pc, batch, faults>>
      /\ \A x \in Events : x # e => status'[x] = status[x]
  BY DEF Ingest, Replay, Accept, Requeue, redisVars, reconcileVars, consumeVars,
         Typed, LifecycleTypeOK
<1>1. /\ AddRow(e) /\ UNCHANGED <<log, stream, claimed, pc, batch, Disturbances>>
      /\ \A x \in Events : x # e => status'[x] = status[x]
  BY <1>0, DisturbancesKept
<1>2. /\ \A r \in DOMAIN outbox : outbox'[r] = outbox[r]
  BY <1>1 DEF AddRow, Typed, OutboxTypes
<1>3. \A r \in DOMAIN outbox :
        /\ r \in DOMAIN outbox' /\ outbox'[r].event = outbox[r].event
        /\ outbox[r].event = e => Room(r)' \in Nat /\ Room(r) <= Room(r)'
        /\ outbox[r].event # e => Since(r)' = Since(r)
  BY <1>1, RoomIngest
<1>4. ASSUME NEW r \in DOMAIN outbox, outbox[r].event # e
      PROVE  Room(r)' \in Nat /\ Room(r) <= Room(r)'
  <2>1. status'[outbox[r].event] = status[outbox[r].event]
    BY <1>1, <1>4 DEF Typed, OutboxTypes, OutboxRow
  <2>2. (\A m : Keeps(r, m)' <=> Keeps(r, m)) /\ (Busy(r)' <=> Busy(r))
    BY <1>1, <1>2, KeepsFrame
  <2>3. Lasting(r)' <=> Lasting(r)
    <3>1. \A m : Doomed(m)' <=> Doomed(m)
      BY <1>1 DEF Doomed, InHand
    <3>2. QED
      BY <1>1, <1>3, <2>2, <3>1 DEF Lasting
  <2>4. Need(r)' = Need(r)
    BY <1>3, <2>1, <2>2, <2>3 DEF Need
  <2>5. Room(r)' = Room(r)
    BY <1>1, <1>3, <1>4, <2>4 DEF Room
  <2>6. QED
    BY <2>5, RoomType
<1>5. \A r \in DOMAIN outbox : Room(r)' \in Nat /\ Room(r) <= Room(r)'
  BY <1>3, <1>4
<1>6. QED
  BY <1>1, <1>3, <1>5, AssignedKept

----------------------------------------------------------------------------
\* A row that is published needs one message less, whether it was confirmed or
\* its new message takes the room; the other rows are left alone.
LEMMA NeedPublish ==
    ASSUME Typed, RowLocks, NEW w \in Workers, PublishRow(w),
           NEW r, r = Min(Unhandled(w))
    PROVE  /\ \A x \in DOMAIN outbox : Need(x)' <= Need(x)
           /\ \/ log' = log
              \/ log' = Append(log, outbox[r].event) /\ Need(r)' + 1 <= Need(r)
<1>0. PICK k : k = Len(log) + 1
  OBVIOUS
<1>1. /\ r \in DOMAIN outbox /\ r \in DOMAIN claimed[w] /\ claimed[w][r] = NoMessage
      /\ \A v \in Workers \ {w} : claimed'[v] = claimed[v]
      /\ DOMAIN claimed'[w] = DOMAIN claimed[w]
      /\ \A x \in DOMAIN claimed[w] \ {r} : claimed'[w][x] = claimed[w][x]
      /\ \/ /\ outbox[r].message \in stream
            /\ claimed'[w][r] = outbox[r].message
            /\ UNCHANGED <<log, stream>>
         \/ /\ outbox[r].message \notin stream
            /\ claimed'[w][r] = k
            /\ log' = Append(log, outbox[r].event)
            /\ stream' = stream \cup {k}
  BY <1>0, LocksPublish
<1>2. UNCHANGED <<outbox, status, pc, batch>>
  BY DEF PublishRow, outboxVars, lifecycleVars, consumeVars
<1>3. /\ log \in Seq(Ids) /\ stream \subseteq 1 .. Len(log) /\ Len(log) \in Nat
      /\ outbox[r].event \in Ids /\ k \notin stream /\ k # NoMessage
  BY <1>0, <1>1 DEF Typed, StreamTypes, OutboxTypes, OutboxRow, Ids, NoMessage
<1>4. \A v \in Workers \ {w} : r \notin DOMAIN claimed[v]
  BY <1>1 DEF RowLocks
<1>5. \A m : Doomed(m)' <=> Doomed(m)
  BY <1>2 DEF Doomed, InHand
<1>6. \A m \in stream : m \in stream' /\ log'[m] = log[m]
  <2>1. \A id \in Ids : \A m \in stream : Append(log, id)[m] = log[m]
    BY <1>3
  <2>2. QED
    BY <1>1, <1>3, <2>1
<1>7. ASSUME NEW x \in DOMAIN outbox, x # r PROVE Need(x)' <= Need(x)
  <2>1. ASSUME NEW v \in Workers
        PROVE  /\ x \in DOMAIN claimed'[v] <=> x \in DOMAIN claimed[v]
               /\ x \in DOMAIN claimed[v] => claimed'[v][x] = claimed[v][x]
    <3>1. CASE v = w
      BY <1>1, <1>7, <3>1
    <3>2. CASE v # w
      BY <1>1, <3>2
    <3>3. QED
      BY <3>1, <3>2
  <2>2. Busy(x)' => Busy(x)
    BY <2>1 DEF Busy
  <2>3. ASSUME NEW m, Keeps(x, m) PROVE Keeps(x, m)'
    BY <1>2, <2>1, <2>3 DEF Keeps
  <2>4. Lasting(x) => Lasting(x)'
    <3>1. \A m \in stream :
            Keeps(x, m) /\ log[m] = outbox[x].event /\ ~Doomed(m)
                => /\ m \in stream' /\ log'[m] = log[m]
                   /\ Keeps(x, m)' /\ ~Doomed(m)'
      BY <1>5, <1>6, <2>3
    <3>2. QED
      BY <1>2, <3>1, LastingKept
  <2>5. QED
    BY <1>2, <2>2, <2>4, NeedKept DEF AsksNoMore
<1>8. PICK j : claimed'[w][r] = j /\ j # NoMessage
  <2>1. NoMessage \notin stream
    BY DEF NoMessage, Typed, StreamTypes
  <2>2. QED
    BY <1>1, <1>3, <2>1
<1>9. ~Busy(r)' /\ Keeps(r, j)'
  BY <1>1, <1>4, <1>8 DEF Busy, Keeps
<1>10. Busy(r)
  BY <1>1 DEF Busy
<1>11. CASE /\ outbox[r].message \in stream
            /\ claimed'[w][r] = outbox[r].message
            /\ UNCHANGED <<log, stream>>
  <2>1. Lasting(r) => Lasting(r)'
    <3>1. \A m : Keeps(r, m) /\ m \in stream => m = j
      <4>1. NoMessage \notin stream
        BY DEF NoMessage, Typed, StreamTypes
      <4>2. QED
        BY <1>1, <1>4, <1>8, <1>11, <4>1 DEF Keeps
    <3>2. \A m \in stream :
            Keeps(r, m) /\ log[m] = outbox[r].event /\ ~Doomed(m)
                => /\ m \in stream' /\ log'[m] = log[m]
                   /\ Keeps(r, m)' /\ ~Doomed(m)'
      BY <1>5, <1>6, <1>9, <3>1
    <3>3. QED
      BY <1>1, <1>2, <3>2, LastingKept
  <2>2. Need(r)' <= Need(r)
    BY <1>1, <1>2, <1>9, <2>1, NeedKept DEF AsksNoMore
  <2>3. QED
    BY <1>7, <1>11, <2>2
<1>12. CASE /\ outbox[r].message \notin stream
            /\ claimed'[w][r] = k
            /\ log' = Append(log, outbox[r].event)
            /\ stream' = stream \cup {k}
  <2>1. ~Lasting(r)
    <3>1. NoMessage \notin stream
      BY DEF NoMessage, Typed, StreamTypes
    <3>2. \A m \in stream : ~Keeps(r, m)
      BY <1>1, <1>4, <1>12, <3>1 DEF Keeps
    <3>3. QED
      BY <3>2 DEF Lasting
  <2>2. Lasting(r)'
    <3>1. log'[k] = outbox[r].event
      BY <1>0, <1>3, <1>12
    <3>2. ~Doomed(k)
      <4>1. \A v \in Workers : pc[v] = "ack" => InHand(v) \in 1 .. Len(log)
        BY InHandType DEF Handling
      <4>2. k \notin 1 .. Len(log)
        BY <1>0, <1>3
      <4>3. QED
        BY <4>1, <4>2 DEF Doomed
    <3>3. ~Doomed(k)'
      BY <1>5, <3>2
    <3>4. j = k /\ k \in stream' /\ outbox'[r].event = outbox[r].event
      BY <1>2, <1>8, <1>12
    <3>5. QED
      BY <1>9, <3>1, <3>3, <3>4 DEF Lasting
  <2>3. Need(r)' + 1 <= Need(r) /\ Need(r)' <= Need(r)
    BY <1>2, <1>9, <1>10, <2>1, <2>2 DEF Need
  <2>4. QED
    BY <1>7, <1>12, <2>3
<1>13. QED
  BY <1>1, <1>11, <1>12

LEMMA AssignedPublish ==
    ASSUME Typed, RowLocks, NEW row, NEW slot, Assigned(row, slot),
           NEW w \in Workers, PublishRow(w)
    PROVE  \E row1, slot1 : Assigned(row1, slot1)'
<1>0. PICK r, k : r = Min(Unhandled(w)) /\ k = Len(log) + 1
  OBVIOUS
<1>1. r \in DOMAIN outbox /\ outbox[r].event \in Events
  BY <1>0, LocksPublish DEF Typed, OutboxTypes, OutboxRow
<1>2. /\ \A x \in DOMAIN outbox : Need(x)' <= Need(x)
      /\ \/ log' = log
         \/ log' = Append(log, outbox[r].event) /\ Need(r)' + 1 <= Need(r)
  BY <1>0, NeedPublish
<1>3. UNCHANGED <<outbox, Disturbances>>
  <2>1. UNCHANGED <<outbox, faults>>
    BY DEF PublishRow, outboxVars
  <2>2. outbox[r].event \in Ids \ Demo
    BY <1>1, LifecycleAssumption, PipelineAssumption DEF Ids
  <2>3. QED
    BY <1>2, <2>1, <2>2, DisturbancesKept
<1>4. SameRows
  BY <1>3 DEF SameRows
<1>5. CASE log' = log
  BY <1>2, <1>3, <1>4, <1>5, AssignedFrame
<1>6. CASE log' = Append(log, outbox[r].event) /\ Need(r)' + 1 <= Need(r)
  <2>1. /\ Len(log) \in Nat /\ Len(log') = k /\ log'[k] = outbox[r].event
        /\ \A m \in 1 .. k : m # k => m \in 1 .. Len(log) /\ log'[m] = log[m]
    <3>1. log \in Seq(Ids) /\ outbox[r].event \in Ids
      BY <1>1 DEF Typed, StreamTypes, Ids
    <3>2. QED
      BY <1>0, <1>6, <3>1
  <2>2. \A x \in DOMAIN outbox : Room(x)' \in Nat /\ Room(x) <= Room(x)'
    BY <1>2, <1>3, <1>4, RoomKept
  <2>3. Room(r) + 1 \in 1 .. Room(r)' /\ Room(r) \in Nat
    <3>1. Cardinality(Since(r)') = Cardinality(Since(r))
      BY <1>1, <1>4, SameSince
    <3>2. /\ Cardinality(Since(r)) \in Nat /\ Disturbances \in Nat
          /\ Need(r) \in 0 .. 2 /\ Need(r)' \in 0 .. 2
      BY <1>1, SinceType, NeedType, DisturbancesType DEF Need
    <3>3. Room(r)' = 2 * Cardinality(Since(r)) + Disturbances - Need(r)'
      BY <1>3, <3>1 DEF Room
    <3>4. Room(r) \in Nat
      BY <1>1, RoomType
    <3>5. QED
      BY <1>6, <3>2, <3>3, <3>4 DEF Room
  <2>4. PICK top : top = Room(r) + 1
    OBVIOUS
  <2> DEFINE row1 == [m \in 1 .. k |-> IF m = k THEN r ELSE row[m]]
             slot1 == [m \in 1 .. k |-> IF m = k THEN top ELSE slot[m]]
  <2>5. /\ \A m \in 1 .. k : m # k => row1[m] = row[m] /\ slot1[m] = slot[m]
        /\ row1[k] = r /\ slot1[k] = top
    <3>1. k \in 1 .. k
      BY <1>0, <2>1
    <3>2. QED
      BY <3>1
  <2> HIDE DEF row1, slot1
  <2>6. \A m \in 1 .. k : m # k /\ log[m] \in Events =>
            /\ m \in 1 .. Len(log) /\ row[m] \in DOMAIN outbox
            /\ outbox[row[m]].event = log[m] /\ slot[m] \in 1 .. Room(row[m])
    BY <2>1 DEF Assigned
  <2>7. ASSUME NEW m \in 1 .. k, log'[m] \in Events
        PROVE  /\ row1[m] \in DOMAIN outbox'
               /\ outbox'[row1[m]].event = log'[m]
               /\ slot1[m] \in 1 .. Room(row1[m])'
    <3>1. CASE m = k
      BY <1>1, <1>3, <2>1, <2>3, <2>4, <2>5, <3>1
    <3>2. CASE m # k
      <4>1. PICK x \in DOMAIN outbox :
                /\ x = row[m] /\ outbox[x].event = log[m] /\ slot[m] \in 1 .. Room(x)
                /\ log'[m] = log[m] /\ row1[m] = x /\ slot1[m] = slot[m]
        BY <2>1, <2>5, <2>6, <2>7, <3>2
      <4>2. Room(x) \in Nat /\ Room(x)' \in Nat /\ Room(x) <= Room(x)'
        BY <2>2, RoomType
      <4>3. slot[m] \in 1 .. Room(x)'
        BY <4>1, <4>2
      <4>4. QED
        BY <1>3, <4>1, <4>3
    <3>3. QED
      BY <3>1, <3>2
  <2>8. ASSUME NEW m \in 1 .. k, NEW n \in 1 .. k, log'[m] \in Events, log'[n] \in Events,
               row1[m] = row1[n], slot1[m] = slot1[n]
        PROVE  m = n
    <3>1. \A x \in 1 .. k : x # k /\ log[x] \in Events /\ row[x] = r => slot[x] # top
      <4>1. ASSUME NEW x \in 1 .. k, x # k, log[x] \in Events, row[x] = r
            PROVE  slot[x] # top
        <5>1. slot[x] \in 1 .. Room(r)
          BY <2>6, <4>1
        <5>2. QED
          BY <2>3, <2>4, <5>1
      <4>2. QED
        BY <4>1
    <3>2. CASE m = k \/ n = k
      BY <2>1, <2>5, <2>8, <3>1, <3>2
    <3>3. CASE m # k /\ n # k
      BY <2>1, <2>5, <2>8, <3>3 DEF Assigned
    <3>4. QED
      BY <3>2, <3>3
  <2>9. Assigned(row1, slot1)'
    BY <2>1, <2>7, <2>8 DEF Assigned
  <2>10. QED
    BY <2>9
<1>7. QED
  BY <1>2, <1>5, <1>6

----------------------------------------------------------------------------
\* The steps that ask for no more, while no row is old.
LEMMA QuietAsks ==
    ASSUME Typed, RowLocks, NoTargets, NEW w \in Workers,
           \/ Claim(w) \/ StartCleanup(w) \/ CommitReconcile(w) \/ Consume(w) \/ Handle(w)
    PROVE  UNCHANGED <<log, Disturbances>> /\ SameRows /\ \A r \in DOMAIN outbox : AsksNoMore(r)
<1>1. UNCHANGED <<log, faults>>
  BY DEF Claim, StartCleanup, CommitReconcile, Consume, ConsumeClaimed, ConsumeNew,
         ConsumeWithoutGroup, Take, Handle, AttemptSucceeds, AttemptFails, AttemptUnconfirmed,
         FailEvent, FailEventRaises, Ack, Abandon, redisVars
<1>2. ASSUME StartCleanup(w) PROVE SameRows /\ \A r \in DOMAIN outbox : AsksNoMore(r)
  <2>1. UNCHANGED <<outbox, log, stream, claimed, status>>
    BY <1>2 DEF StartCleanup, outboxVars, redisVars, lifecycleVars
  <2>2. \A v \in Workers : pc'[v] = "ack" => pc[v] = "ack" /\ batch'[v] = batch[v]
    BY <1>2 DEF StartCleanup, consumeVars, Typed, ConsumeTypes
  <2>3. \A m : Doomed(m)' => Doomed(m)
    BY <2>2, DoomedFrame
  <2>4. \A r \in DOMAIN outbox :
            /\ \A m \in stream : Keeps(r, m) => Keeps(r, m)'
            /\ Busy(r)' => Busy(r)
    BY <2>1, KeepsFrame
  <2>5. QED
    BY <2>1, <2>3, <2>4, AsksFrame
<1>3. UNCHANGED Disturbances
  BY <1>1, DisturbancesKept
<1>4. QED
  BY <1>1, <1>2, <1>3, AsksClaim, AsksCommit, AsksConsume, AsksHandled, AsksAck, AsksRaises
     DEF Handle

\* What is neither the API's nor the workers' leaves rows and claims alone.
LEMMA EnvironmentAsks ==
    ASSUME Typed,
           \/ \E f \in Foreign : ForeignMessage(f)
           \/ \E m \in delivered : TurnsIdle(m)
           \/ \E r \in DOMAIN outbox : TurnsStale(r)
           \/ UNCHANGED vars
    PROVE  /\ UNCHANGED Disturbances
           /\ log' = log \/ \E f \in Foreign : log' = Append(log, f)
           /\ SameRows /\ \A r \in DOMAIN outbox : AsksNoMore(r)
<1>1. /\ UNCHANGED <<faults, status, claimed, pc, batch>> /\ stream \subseteq stream'
      /\ log' = log \/ \E f \in Foreign \ Demo : log' = Append(log, f)
  BY DEF ForeignMessage, TurnsIdle, TurnsStale, vars, lifecycleVars, redisVars, reconcileVars,
         consumeVars
<1>2. /\ DOMAIN outbox' = DOMAIN outbox
      /\ \A r \in DOMAIN outbox : /\ outbox'[r].event = outbox[r].event
                                  /\ outbox'[r].message = outbox[r].message
  BY AgesKeepEvents DEF ForeignMessage, TurnsIdle, vars, outboxVars
<1>3. \A m \in stream : log'[m] = log[m]
  <2>1. log \in Seq(Ids) /\ stream \subseteq 1 .. Len(log) /\ Foreign \subseteq Ids
    BY DEF Typed, StreamTypes, Ids
  <2>2. QED
    BY <1>1, <2>1
<1>4. \A m : Doomed(m)' => Doomed(m)
  BY <1>1, DoomedFrame
<1>5. ASSUME NEW r \in DOMAIN outbox PROVE AsksNoMore(r)
  <2>1. (\A m : Keeps(r, m)' <=> Keeps(r, m)) /\ (Busy(r)' <=> Busy(r))
    BY <1>1, <1>2, KeepsFrame
  <2>2. \A m \in stream :
            Keeps(r, m) /\ log[m] = outbox[r].event /\ ~Doomed(m)
                => /\ m \in stream' /\ log'[m] = log[m]
                   /\ Keeps(r, m)' /\ ~Doomed(m)'
    BY <1>1, <1>3, <1>4, <2>1
  <2>3. Lasting(r) => Lasting(r)'
    BY <1>2, <2>2, LastingKept
  <2>4. QED
    BY <1>1, <2>1, <2>3 DEF AsksNoMore
<1>6. UNCHANGED Disturbances
  BY <1>1, DisturbancesKept DEF Ids
<1>7. QED
  BY <1>1, <1>2, <1>5, <1>6 DEF SameRows

LEMMA AssignedQuiet ==
    ASSUME Typed, NEW row, NEW slot, Assigned(row, slot), SameRows, UNCHANGED Disturbances,
           log' = log \/ \E f \in Foreign : log' = Append(log, f),
           \A r \in DOMAIN outbox : AsksNoMore(r)
    PROVE  Assigned(row, slot)'
<1>1. \A r \in DOMAIN outbox : Need(r)' <= Need(r)
  BY NeedKept DEF SameRows
<1>2. QED
  BY <1>1, AssignedFrame

LEMMA AssignedStep ==
    ASSUME Typed, RowLocks, NothingExpired, NoTargets, [Next]_vars,
           NEW row, NEW slot, Assigned(row, slot),
           \A r \in DOMAIN outbox : ~TurnsOld(r)
    PROVE  \E row1, slot1 : Assigned(row1, slot1)'
<1>1. ASSUME NEW e \in Events, Ingest(e) \/ Replay(e) PROVE Assigned(row, slot)'
  BY <1>1, AssignedIngest
<1>2. CASE RedisLoss \/ \E w \in Workers : Interrupted(w)
  BY <1>2, AsksAfterFault, AssignedFrame
<1>3. ASSUME NEW w \in Workers, Iterate(w)
      PROVE  \E row1, slot1 : Assigned(row1, slot1)'
  <2>1. ~DeadlockAbort(w)
    BY DEF DeadlockAbort, Deadlocked, NoTargets
  <2>2. CASE PublishRow(w)
    BY <2>2, AssignedPublish
  <2>3. CASE Claim(w) \/ StartCleanup(w) \/ CommitReconcile(w) \/ Consume(w) \/ Handle(w)
    BY <2>3, QuietAsks, AssignedQuiet
  <2>4. QED
    BY <1>3, <2>1, <2>2, <2>3 DEF Iterate, Reconcile
<1>4. CASE \/ \E f \in Foreign : ForeignMessage(f)
           \/ \E m \in delivered : TurnsIdle(m)
           \/ \E r \in DOMAIN outbox : TurnsStale(r)
           \/ UNCHANGED vars
  BY <1>4, EnvironmentAsks, AssignedQuiet
<1>5. ASSUME NEW f \in Demo, SeedLive(f) PROVE Assigned(row, slot)'
  BY <1>5, AsksAfterTrim, AssignedFrame
<1>6. QED
  BY <1>1, <1>2, <1>3, <1>4, <1>5 DEF Next

\* No cleanup finds a row while none is old.
LEMMA NoTargetsStep ==
    ASSUME Typed, NothingExpired, NoTargets, [Next]_vars
    PROVE  NoTargets'
<1>1. DOMAIN targets = Workers /\ \A w \in Workers : targets[w] = {}
  BY DEF Typed, ReconcileTypes, NoTargets
<1>2. ASSUME NEW w \in Workers, StartCleanup(w) PROVE NoTargets'
  BY <1>1, <1>2 DEF StartCleanup, NothingExpired, NoTargets
<1>3. ASSUME NEW w \in Workers, targets' = [targets EXCEPT ![w] = {}] PROVE NoTargets'
  BY <1>1, <1>3 DEF NoTargets
<1>4. ASSUME UNCHANGED targets PROVE NoTargets'
  BY <1>4 DEF NoTargets
<1>5. ASSUME NEW w \in Workers, Iterate(w) \/ Interrupted(w) PROVE NoTargets'
  BY <1>2, <1>3, <1>4, <1>5
     DEF Iterate, Reconcile, Claim, PublishRow, CommitReconcile, Consume, ConsumeClaimed,
         ConsumeNew, ConsumeWithoutGroup, Take, Handle, AttemptSucceeds, AttemptFails,
         AttemptUnconfirmed, FailEvent, FailEventRaises, Ack, DeadlockAbort, Interrupted, Abandon,
         reconcileVars
<1>6. QED
  BY <1>4, <1>5
     DEF Next, vars, Ingest, Replay, RedisLoss, ForeignMessage, SeedLive, TurnsIdle, TurnsStale,
         TurnsOld, reconcileVars

LEMMA FloodStep == FloodInv /\ [Next]_vars => FloodInv'
<1> SUFFICES ASSUME FloodInv, [Next]_vars PROVE FloodInv'
  OBVIOUS
<1>1. Typed' /\ RowLocks'
  BY TypedStep, LocksStep DEF FloodInv
<1>2. ASSUME NothingExpired' PROVE NoTargets' /\ \E row, slot : Assigned(row, slot)'
  <2>1. NothingExpired /\ \A r \in DOMAIN outbox : ~TurnsOld(r)
    BY <1>2, NothingExpiredBefore DEF FloodInv
  <2>2. NoTargets /\ \E row, slot : Assigned(row, slot)
    BY <2>1 DEF FloodInv
  <2>3. PICK row, slot : Assigned(row, slot)
    BY <2>2
  <2>4. QED
    BY <2>1, <2>2, <2>3, AssignedStep, NoTargetsStep DEF FloodInv
<1>3. QED
  BY <1>1, <1>2 DEF FloodInv

LEMMA FloodInit == Init => FloodInv
<1> SUFFICES ASSUME Init PROVE FloodInv
  OBVIOUS
<1>1. Typed /\ RowLocks
  BY PublicationInit DEF PublicationInv
<1>2. NoTargets
  BY DEF Init, NoTargets
<1>3. \E row, slot : Assigned(row, slot)
  <2>1. 1 .. Len(log) = {}
    BY DEF Init
  <2>2. QED
    BY <2>1 DEF Assigned
<1>4. QED
  BY <1>1, <1>2, <1>3 DEF FloodInv

----------------------------------------------------------------------------
\* The i-th last of k rows has room for at most 2i + f messages: with the room
\* beyond k + 1 + f turned over, that of the last row onto the first one's, and
\* so on, they fit in k times k + 1 + f.
Place(k, f, i, s) ==
    IF s <= k + 1 + f THEN <<i, s>> ELSE <<k + 1 - i, 2 * (k + 1 + f) + 1 - s>>

LEMMA PlacesFit ==
    ASSUME NEW k \in Nat, NEW f \in Nat,
           NEW i \in 1 .. k, NEW j \in 1 .. k,
           NEW s \in 1 .. 2 * i + f, NEW t \in 1 .. 2 * j + f
    PROVE  /\ Place(k, f, i, s) \in (1 .. k) \X (1 .. k + 1 + f)
           /\ Place(k, f, i, s) = Place(k, f, j, t) => i = j /\ s = t
<1>1. Place(k, f, i, s) \in (1 .. k) \X (1 .. k + 1 + f)
  <2>1. CASE s <= k + 1 + f
    BY <2>1 DEF Place
  <2>2. CASE s > k + 1 + f
    <3>1. k + 1 - i \in 1 .. k /\ 2 * (k + 1 + f) + 1 - s \in 1 .. k + 1 + f
      BY <2>2
    <3>2. QED
      BY <2>2, <3>1 DEF Place
  <2>3. QED
    BY <2>1, <2>2
<1>2. ASSUME Place(k, f, i, s) = Place(k, f, j, t) PROVE i = j /\ s = t
  <2>1. CASE s <= k + 1 + f /\ t <= k + 1 + f
    BY <1>2, <2>1 DEF Place
  <2>2. CASE s > k + 1 + f /\ t > k + 1 + f
    <3>1. k + 1 - i = k + 1 - j /\ 2 * (k + 1 + f) + 1 - s = 2 * (k + 1 + f) + 1 - t
      BY <1>2, <2>2 DEF Place
    <3>2. QED
      BY <3>1
  <2>3. CASE s <= k + 1 + f /\ t > k + 1 + f
    <3>1. i = k + 1 - j /\ s = 2 * (k + 1 + f) + 1 - t
      BY <1>2, <2>3 DEF Place
    <3>2. QED
      BY <3>1
  <2>4. CASE s > k + 1 + f /\ t <= k + 1 + f
    <3>1. k + 1 - i = j /\ 2 * (k + 1 + f) + 1 - s = t
      BY <1>2, <2>4 DEF Place
    <3>2. QED
      BY <3>1
  <2>5. QED
    BY <2>1, <2>2, <2>3, <2>4
<1>3. QED
  BY <1>1, <1>2

\* The rows of an event differ in how many of them are left.
LEMMA SinceOrders ==
    ASSUME Typed, NEW e \in Events
    PROVE  LET R == {r \in DOMAIN outbox : outbox[r].event = e} IN
           /\ IsFiniteSet(R) /\ Cardinality(R) \in Nat
           /\ \A r \in R : Cardinality(Since(r)) \in 1 .. Cardinality(R)
           /\ \A r, s \in R : Cardinality(Since(r)) = Cardinality(Since(s)) => r = s
<1> DEFINE R == {r \in DOMAIN outbox : outbox[r].event = e}
<1>1. nextRow \in Int /\ DOMAIN outbox \in SUBSET (1 .. nextRow - 1) /\ R \in SUBSET (1 .. nextRow - 1)
  BY DEF Typed, OutboxTypes
<1>2. IsFiniteSet(1 .. nextRow - 1)
  BY <1>1, FS_Interval
<1>3. IsFiniteSet(R)
  BY <1>1, <1>2, FS_Subset
<1>4. Cardinality(R) \in Nat
  BY <1>3, FS_CardinalityType
<1>5. ASSUME NEW r \in R PROVE Cardinality(Since(r)) \in 1 .. Cardinality(R)
  <2>1. Since(r) \in SUBSET R /\ r \in DOMAIN outbox
    BY DEF Since
  <2>2. Cardinality(Since(r)) <= Cardinality(R)
    BY <1>3, <2>1, FS_Subset
  <2>3. Cardinality(Since(r)) \in Nat \ {0}
    BY <2>1, SinceType
  <2>4. QED
    BY <1>4, <2>2, <2>3
<1>6. ASSUME NEW r \in R, NEW s \in R, r < s PROVE Cardinality(Since(s)) < Cardinality(Since(r))
  <2>1. IsFiniteSet(Since(r)) /\ r \in Since(r) /\ Cardinality(Since(r)) \in Nat \ {0}
    BY SinceType
  <2>2. IsFiniteSet(Since(r) \ {r}) /\ Cardinality(Since(r) \ {r}) = Cardinality(Since(r)) - 1
    BY <2>1, FS_RemoveElement
  <2>3. Since(s) \in SUBSET (Since(r) \ {r})
    BY <1>1, <1>6 DEF Since
  <2>4. Cardinality(Since(s)) <= Cardinality(Since(r) \ {r})
    BY <2>2, <2>3, FS_Subset
  <2>5. Cardinality(Since(s)) \in Nat
    BY SinceType
  <2>6. QED
    BY <2>1, <2>2, <2>4, <2>5
<1>7. ASSUME NEW r \in R, NEW s \in R, Cardinality(Since(r)) = Cardinality(Since(s)) PROVE r = s
  <2>1. r \in Int /\ s \in Int /\ Cardinality(Since(r)) \in Int
    BY <1>1, <1>4, <1>5
  <2>2. ~(r < s) /\ ~(s < r)
    BY <1>6, <1>7, <2>1
  <2>3. QED
    BY <2>1, <2>2
<1> HIDE DEF R
<1>8. QED
  BY <1>3, <1>4, <1>5, <1>7 DEF R

\* The messages of an event, each in its place.
LEMMA MessagesFit ==
    ASSUME Typed, NEW row, NEW slot, Assigned(row, slot), NEW e \in Events
    PROVE  LET rows == Cardinality({r \in DOMAIN outbox : outbox[r].event = e})
           IN Cardinality({m \in 1 .. Len(log) : log[m] = e}) <= rows * (rows + 1 + Disturbances)
<1> DEFINE R == {r \in DOMAIN outbox : outbox[r].event = e}
           M == {m \in 1 .. Len(log) : log[m] = e}
<1>1. PICK k : k = Cardinality(R)
  OBVIOUS
<1>2. /\ k \in Nat
      /\ \A r \in R : Cardinality(Since(r)) \in 1 .. k
      /\ \A r, s \in R : Cardinality(Since(r)) = Cardinality(Since(s)) => r = s
  BY <1>1, SinceOrders
<1>3. PICK d \in Nat : d = Disturbances
  BY DisturbancesType
<1> DEFINE Position(m) == Cardinality(Since(row[m]))
           place == [m \in M |-> Place(k, d, Position(m), slot[m])]
<1>4. ASSUME NEW m \in M
      PROVE  row[m] \in R /\ Position(m) \in 1 .. k /\ slot[m] \in 1 .. 2 * Position(m) + d
  <2>1. row[m] \in R /\ slot[m] \in 1 .. Room(row[m])
    BY DEF Assigned
  <2>2. Position(m) \in 1 .. k /\ Need(row[m]) \in 0 .. 2
    BY <1>2, <2>1, NeedType
  <2>3. Room(row[m]) = 2 * Position(m) + d - Need(row[m])
    BY <1>3 DEF Room
  <2>4. QED
    BY <1>2, <1>3, <2>1, <2>2, <2>3
<1>5. ASSUME NEW m \in M, NEW n \in M
      PROVE  /\ place[m] \in (1 .. k) \X (1 .. k + 1 + d)
             /\ place[m] = place[n] => m = n
  <2>1. PICK i, j, s, t : i = Position(m) /\ j = Position(n) /\ s = slot[m] /\ t = slot[n]
    OBVIOUS
  <2>2. /\ i \in 1 .. k /\ j \in 1 .. k
        /\ s \in 1 .. 2 * i + d /\ t \in 1 .. 2 * j + d
    BY <1>4, <2>1
  <2>3. place[m] = Place(k, d, i, s) /\ place[n] = Place(k, d, j, t)
    BY <2>1
  <2>4. /\ place[m] \in (1 .. k) \X (1 .. k + 1 + d)
        /\ place[m] = place[n] => i = j /\ s = t
    BY <1>2, <1>3, <2>2, <2>3, PlacesFit
  <2>5. row[m] \in R /\ row[n] \in R
    BY <1>4
  <2>6. i = j /\ s = t => row[m] = row[n] /\ slot[m] = slot[n]
    BY <1>2, <2>1, <2>5
  <2>7. row[m] = row[n] /\ slot[m] = slot[n] => m = n
    BY DEF Assigned
  <2>8. QED
    BY <2>4, <2>6, <2>7
<1>6. place \in Injection(M, (1 .. k) \X (1 .. k + 1 + d))
  <2>1. DOMAIN place = M
    OBVIOUS
  <2>2. place \in [M -> (1 .. k) \X (1 .. k + 1 + d)]
    BY <1>5
  <2> HIDE DEF M, place
  <2>3. QED
    BY <1>5, <2>1, <2>2 DEF Injection, IsInjective
<1> HIDE DEF M, R, place
<1>7. /\ IsFiniteSet(1 .. k) /\ Cardinality(1 .. k) = k
      /\ IsFiniteSet(1 .. k + 1 + d) /\ Cardinality(1 .. k + 1 + d) = k + 1 + d
  <2>1. k \in Int /\ k + 1 + d \in Int /\ k + 1 + d >= 1 /\ k >= 0
    BY <1>2, <1>3
  <2>2. IsFiniteSet(1 .. k) /\ Cardinality(1 .. k) = IF 1 > k THEN 0 ELSE k - 1 + 1
    BY <2>1, FS_Interval
  <2>3. PICK n : n = k + 1 + d
    OBVIOUS
  <2>4. IsFiniteSet(1 .. n) /\ Cardinality(1 .. n) = IF 1 > n THEN 0 ELSE n - 1 + 1
    BY <2>1, <2>3, FS_Interval
  <2>5. QED
    BY <2>1, <2>2, <2>3, <2>4
<1>8. /\ IsFiniteSet((1 .. k) \X (1 .. k + 1 + d))
      /\ Cardinality((1 .. k) \X (1 .. k + 1 + d)) = k * (k + 1 + d)
  <2>1. PICK S, T : S = 1 .. k /\ T = 1 .. k + 1 + d
    OBVIOUS
  <2>2. IsFiniteSet(S) /\ IsFiniteSet(T) /\ Cardinality(S) = k /\ Cardinality(T) = k + 1 + d
    BY <1>7, <2>1
  <2>3. IsFiniteSet(S \X T) /\ Cardinality(S \X T) = Cardinality(S) * Cardinality(T)
    BY <2>2, FS_Product, Zenon
  <2>4. QED
    BY <2>1, <2>2, <2>3
<1>9. Cardinality(M) <= k * (k + 1 + d)
  BY <1>6, <1>8, FS_Injection
<1>10. QED
  BY <1>1, <1>3, <1>9 DEF M, R

\* Recovery does not flood the stream: for any number of workers, rows, faults
\* and entries of seed-live, an event with n outbox rows has had at most
\* n (n + 1 + d) messages, d the faults and seed-live's entries so far, until a
\* row's retention ends.
THEOREM RecoveryDoesNotFlood == Spec => []BoundedRepublication
<1>1. FloodInv => BoundedRepublication
  BY MessagesFit DEF FloodInv, BoundedRepublication
<1>2. QED
  BY <1>1, FloodInit, FloodStep, PTL DEF Spec

----------------------------------------------------------------------------
(* What a deadlock of two reconciliations needs                            *)

OldRows == {r \in DOMAIN outbox : outbox[r].old}

\* What a cleanup has found was past its retention, and time does not go back.
TargetsAreOld ==
    \A w \in Workers : \A r \in targets[w] : r \in DOMAIN outbox => outbox[r].old

LEMMA OldStaysOld ==
    ASSUME Typed, NEW r \in DOMAIN outbox, r \in DOMAIN outbox', outbox[r].old,
           \/ outbox' = outbox
           \/ \E w \in Workers : CommitReconcile(w)
           \/ \E x \in DOMAIN outbox : TurnsStale(x) \/ TurnsOld(x)
    PROVE  outbox'[r].old
<1>1. PICK e, q, k, o : outbox[r] = [event |-> e, published |-> q, message |-> k, old |-> o]
  BY DEF Typed, OutboxTypes, OutboxRow
<1>2. \E m : \/ outbox'[r] = outbox[r]
             \/ outbox'[r] = [outbox[r] EXCEPT !.published = "fresh", !.message = m]
             \/ outbox'[r] = [outbox[r] EXCEPT !.published = "stale"]
             \/ outbox'[r] = [outbox[r] EXCEPT !.old = TRUE]
  <2>1. ASSUME NEW w \in Workers, CommitReconcile(w)
        PROVE  \/ outbox'[r] = outbox[r]
               \/ outbox'[r] = [outbox[r] EXCEPT !.published = "fresh", !.message = claimed[w][r]]
    BY <2>1 DEF CommitReconcile
  <2>2. ASSUME NEW x \in DOMAIN outbox, TurnsStale(x) \/ TurnsOld(x)
        PROVE  \/ outbox'[r] = outbox[r]
               \/ outbox'[r] = [outbox[r] EXCEPT !.published = "stale"]
               \/ outbox'[r] = [outbox[r] EXCEPT !.old = TRUE]
    BY <2>2 DEF TurnsStale, TurnsOld
  <2>3. QED
    BY <2>1, <2>2
<1>3. QED
  BY <1>1, <1>2

\* No new target, and no row that was not there.
LEMMA TargetsFrame ==
    ASSUME Typed, TargetsAreOld, \A w \in Workers : targets'[w] \subseteq targets[w],
           DOMAIN outbox' \subseteq DOMAIN outbox,
           \/ outbox' = outbox
           \/ \E w \in Workers : CommitReconcile(w)
           \/ \E x \in DOMAIN outbox : TurnsStale(x) \/ TurnsOld(x)
    PROVE  TargetsAreOld'
<1>1. ASSUME NEW w \in Workers, NEW r \in targets'[w], r \in DOMAIN outbox'
      PROVE  outbox'[r].old
  <2>1. r \in DOMAIN outbox /\ outbox[r].old
    BY <1>1 DEF TargetsAreOld
  <2>2. QED
    BY <1>1, <2>1, OldStaysOld
<1>2. QED
  BY <1>1 DEF TargetsAreOld

LEMMA TargetsStep == Typed /\ Covered /\ TargetsAreOld /\ [Next]_vars => TargetsAreOld'
<1> SUFFICES ASSUME Typed, Covered, TargetsAreOld, [Next]_vars PROVE TargetsAreOld'
  OBVIOUS
<1>1. DOMAIN targets = Workers
  BY DEF Typed, ReconcileTypes
<1>2. ASSUME UNCHANGED <<outbox, targets>> PROVE TargetsAreOld'
  BY <1>2 DEF TargetsAreOld
<1>3. ASSUME NEW e \in Events, Ingest(e) \/ Replay(e) PROVE TargetsAreOld'
  <2>1. AddRow(e) /\ UNCHANGED targets
    BY <1>3 DEF Ingest, Replay, reconcileVars
  <2>2. /\ DOMAIN outbox' = DOMAIN outbox \cup {nextRow}
        /\ \A r \in DOMAIN outbox : r # nextRow => outbox'[r] = outbox[r]
    BY <2>1 DEF AddRow
  <2>3. \A w \in Workers : nextRow \notin targets[w]
    <3>1. nextRow \in Nat /\ \A w \in Workers : targets[w] \subseteq 1 .. nextRow - 1
      BY DEF Covered, OutboxShape
    <3>2. QED
      BY <3>1
  <2>4. QED
    BY <2>1, <2>2, <2>3 DEF TargetsAreOld
<1>4. ASSUME NEW w \in Workers, StartCleanup(w) PROVE TargetsAreOld'
  <2>1. UNCHANGED outbox /\ \A v \in Workers \ {w} : targets'[v] = targets[v]
    BY <1>1, <1>4 DEF StartCleanup, outboxVars
  <2>2. \A r \in targets'[w] : outbox[r].old
    BY <1>1, <1>4 DEF StartCleanup
  <2>3. QED
    BY <2>1, <2>2 DEF TargetsAreOld
<1>5. ASSUME NEW w \in Workers, CommitReconcile(w) PROVE TargetsAreOld'
  <2>1. /\ DOMAIN outbox' \subseteq DOMAIN outbox
        /\ \A v \in Workers : targets'[v] \subseteq targets[v]
    BY <1>1, <1>5 DEF CommitReconcile
  <2>2. QED
    BY <1>5, <2>1, TargetsFrame
<1>6. ASSUME NEW w \in Workers, FailEventRaises(w) \/ DeadlockAbort(w) \/ Interrupted(w)
      PROVE  TargetsAreOld'
  <2>1. Abandon(w)
    BY <1>6 DEF FailEventRaises, DeadlockAbort, Interrupted
  <2>2. UNCHANGED outbox /\ \A v \in Workers : targets'[v] \subseteq targets[v]
    BY <1>1, <2>1 DEF Abandon, outboxVars
  <2>3. QED
    BY <2>2, TargetsFrame
<1>7. ASSUME NEW x \in DOMAIN outbox, TurnsStale(x) \/ TurnsOld(x) PROVE TargetsAreOld'
  <2>1. DOMAIN outbox' = DOMAIN outbox /\ UNCHANGED targets
    BY <1>7 DEF TurnsStale, TurnsOld, reconcileVars
  <2>2. QED
    BY <1>7, <2>1, TargetsFrame
<1>8. ASSUME NEW w \in Workers, Iterate(w) PROVE TargetsAreOld'
  BY <1>2, <1>4, <1>5, <1>6, <1>8
     DEF Iterate, Reconcile, Claim, PublishRow, Consume, ConsumeClaimed, ConsumeNew,
         ConsumeWithoutGroup, Take, Handle, AttemptSucceeds, AttemptFails, AttemptUnconfirmed,
         FailEvent, Ack, outboxVars, reconcileVars
<1>9. QED
  BY <1>2, <1>3, <1>6, <1>7, <1>8
     DEF Next, vars, RedisLoss, ForeignMessage, SeedLive, TurnsIdle, outboxVars, reconcileVars

\* Each of the two waits for an expired row that the other has claimed.
LEMMA DeadlockRows ==
    ASSUME Typed, RowLocks, TargetsAreOld, NEW v \in Workers, NEW w \in Workers, Deadlocked(v, w)
    PROVE  Cardinality(OldRows) >= 2
<1>1. PICK r \in targets[v] : r \in DOMAIN claimed[w]
  BY DEF Deadlocked
<1>2. PICK s \in targets[w] : s \in DOMAIN claimed[v]
  BY DEF Deadlocked
<1>3. r # s
  BY <1>1, <1>2 DEF Deadlocked, RowLocks
<1>4. r \in OldRows /\ s \in OldRows
  BY <1>1, <1>2 DEF OldRows, TargetsAreOld, Typed, ReconcileTypes
<1>5. IsFiniteSet(OldRows)
  <2>1. nextRow \in Int /\ OldRows \in SUBSET (1 .. nextRow - 1)
    BY DEF OldRows, Typed, OutboxTypes
  <2>2. IsFiniteSet(1 .. nextRow - 1)
    BY <2>1, FS_Interval
  <2>3. QED
    BY <2>1, <2>2, FS_Subset
<1>6. IsFiniteSet({r}) /\ Cardinality({r}) = 1
  BY FS_Singleton
<1>7. IsFiniteSet({r} \cup {s}) /\ Cardinality({r} \cup {s}) = 2
  <2>1. PICK T : T = {r}
    OBVIOUS
  <2>2. IsFiniteSet(T) /\ Cardinality(T) = 1 /\ s \notin T
    BY <1>3, <1>6, <2>1
  <2>3. IsFiniteSet(T \cup {s}) /\ Cardinality(T \cup {s}) = Cardinality(T) + 1
    BY <2>2, FS_AddElement
  <2>4. QED
    BY <2>1, <2>2, <2>3
<1>8. Cardinality({r} \cup {s}) <= Cardinality(OldRows)
  <2>1. {r} \cup {s} \in SUBSET OldRows
    BY <1>4
  <2>2. QED
    BY <1>5, <2>1, FS_Subset
<1>9. Cardinality(OldRows) \in Nat
  BY <1>5, FS_CardinalityType
<1>10. QED
  BY <1>7, <1>8, <1>9

\* SYSTEM_DESIGN 2.C, workers reconcile without lock contention, is refuted by
\* two rows past their retention; it takes no fewer, with any number of workers.
THEOREM DeadlockNeedsExpiredRows == Spec => [](NoReconcileDeadlock \/ Cardinality(OldRows) >= 2)
<1>1. Init => Typed /\ RowLocks /\ Covered /\ TargetsAreOld
  <2>1. Init => TargetsAreOld
    BY DEF Init, TargetsAreOld
  <2>2. QED
    BY <2>1, PublicationInit, AckInit DEF PublicationInv, AckInv
<1>2. Typed /\ RowLocks /\ TargetsAreOld => NoReconcileDeadlock \/ Cardinality(OldRows) >= 2
  BY DeadlockRows DEF NoReconcileDeadlock
<1>3. QED
  BY <1>1, <1>2, TypedStep, LocksStep, CoveredStep, TargetsStep, PTL DEF Spec

----------------------------------------------------------------------------
(* No message is stranded                                                  *)

\* Every message in the stream is either still to be delivered or on the
\* pending list, from which it can be claimed; without a group nothing has
\* been delivered, so that the next ensure_group starts at the beginning.
NoMessageIsStranded ==
    /\ \A m \in stream : m > lastId \/ m \in delivered
    /\ group \/ (lastId = 0 /\ delivered = {})

\* What is not among the first of a set is above all of them.
LEMMA FirstNIsLowest ==
    ASSUME NEW k \in Nat, NEW S \in SUBSET (1 .. k), NEW n \in Nat
    PROVE  \A x \in S : \A y \in FirstN(S, n) : x <= y => x \in FirstN(S, n)
<1> SUFFICES ASSUME NEW x \in S, NEW y \in FirstN(S, n), x <= y
             PROVE  x \in FirstN(S, n)
  OBVIOUS
<1> DEFINE A == {z \in S : z < x}
           B == {z \in S : z < y}
<1>1. A \in SUBSET B /\ B \in SUBSET (1 .. k) /\ y \in S
  <2>1. y \in S
    BY DEF FirstN
  <2>2. \A z \in S : z < x => z < y
    BY <2>1
  <2>3. QED
    BY <2>1, <2>2
<1>2. IsFiniteSet(1 .. k)
  BY FS_Interval
<1> HIDE DEF A, B
<1>3. IsFiniteSet(B)
  BY <1>1, <1>2, FS_Subset
<1>4. Cardinality(A) <= Cardinality(B)
  BY <1>1, <1>3, FS_Subset
<1>5. IsFiniteSet(A)
  BY <1>1, <1>3, FS_Subset
<1>6. Cardinality(A) \in Nat /\ Cardinality(B) \in Nat
  BY <1>3, <1>5, FS_CardinalityType
<1>7. Cardinality(B) < n
  BY DEF FirstN, B
<1>8. Cardinality(A) < n
  BY <1>4, <1>6, <1>7
<1>9. QED
  BY <1>8 DEF FirstN, A

LEMMA StrandedNew ==
    ASSUME Typed, NoMessageIsStranded, NEW w \in Workers, ConsumeNew(w)
    PROVE  NoMessageIsStranded'
<1> DEFINE waiting == {m \in stream : m > lastId}
           fresh == FirstN(waiting, WorkerBatch)
<1>1. /\ Len(log) \in Nat /\ waiting \in SUBSET (1 .. Len(log)) /\ fresh \in SUBSET (1 .. Len(log))
      /\ lastId \in Nat /\ fresh \subseteq waiting
  <2>1. Len(log) \in Nat /\ lastId \in Nat /\ stream \subseteq 1 .. Len(log)
    BY DEF Typed, StreamTypes
  <2>2. waiting \subseteq stream
    OBVIOUS
  <2>3. fresh \subseteq waiting
    BY DEF FirstN
  <2>4. QED
    BY <2>1, <2>2, <2>3
<1>2. /\ delivered' = (delivered \ Dangling(w)) \cup fresh
      /\ lastId' = (IF fresh = {} THEN lastId ELSE Max(fresh))
      /\ UNCHANGED <<stream, group>> /\ group
  BY DEF ConsumeNew, Take
<1>3. \A x \in waiting : \A y \in fresh : x <= y => x \in fresh
  BY <1>1, FirstNIsLowest, PipelineAssumption
<1>4. \A m \in stream : m \in waiting \/ m \in delivered
  BY DEF NoMessageIsStranded
<1>5. \A m \in waiting : m > lastId /\ m \in Nat
  BY <1>1
<1> HIDE DEF waiting, fresh
<1>6. ASSUME NEW m \in stream PROVE m > lastId' \/ m \in delivered'
  <2>1. CASE m \in delivered
    BY <1>2, <2>1 DEF Dangling
  <2>2. CASE m \in waiting /\ fresh = {}
    BY <1>2, <1>5, <2>2
  <2>3. CASE m \in waiting /\ fresh # {}
    <3>1. Max(fresh) \in fresh
      BY <1>1, <2>3, MaxIsMember
    <3>2. Max(fresh) \in Nat /\ m \in Nat
      BY <1>1, <1>5, <2>3, <3>1
    <3>3. m > Max(fresh) \/ m \in fresh
      BY <1>3, <2>3, <3>1, <3>2
    <3>4. QED
      BY <1>2, <2>3, <3>3
  <2>4. QED
    BY <1>4, <2>1, <2>2, <2>3
<1>7. QED
  BY <1>2, <1>6 DEF NoMessageIsStranded

\* A message is added at the end of the stream, after the last one delivered.
LEMMA StrandedAdded ==
    ASSUME Typed, NoMessageIsStranded, UNCHANGED groupVars,
           stream' \subseteq stream \cup {Len(log) + 1}
    PROVE  NoMessageIsStranded'
<1>1. Len(log) + 1 > lastId
  BY DEF Typed, StreamTypes
<1>2. QED
  BY <1>1 DEF NoMessageIsStranded, groupVars

LEMMA StrandedStep == Typed /\ NoMessageIsStranded /\ [Next]_vars => NoMessageIsStranded'
<1> SUFFICES ASSUME Typed, NoMessageIsStranded, [Next]_vars PROVE NoMessageIsStranded'
  OBVIOUS
<1>1. ASSUME UNCHANGED <<stream, lastId, delivered>>, group' = group \/ group'
      PROVE  NoMessageIsStranded'
  BY <1>1 DEF NoMessageIsStranded
<1>2. ASSUME NEW w \in Workers, PublishRow(w) PROVE NoMessageIsStranded'
  <2>1. stream' \subseteq stream \cup {Len(log) + 1}
    BY <1>2 DEF PublishRow
  <2>2. UNCHANGED groupVars
    BY <1>2 DEF PublishRow
  <2>3. QED
    BY <2>1, <2>2, StrandedAdded
<1>3. ASSUME NEW w \in Workers, Ack(w) PROVE NoMessageIsStranded'
  BY <1>3 DEF Ack, NoMessageIsStranded
<1>4. ASSUME RedisLoss PROVE NoMessageIsStranded'
  BY <1>4 DEF RedisLoss, NoMessageIsStranded
<1>5. ASSUME NEW f \in Foreign, EntryAdded(f) PROVE NoMessageIsStranded'
  BY <1>5, StrandedAdded DEF EntryAdded
<1>6. ASSUME NEW w \in Workers, Reconcile(w) \/ Consume(w) PROVE NoMessageIsStranded'
  <2>1. CASE ConsumeClaimed(w)
    BY <2>1 DEF ConsumeClaimed, Take, Dangling, NoMessageIsStranded
  <2>2. QED
    BY <1>1, <1>2, <1>6, <2>1, StrandedNew
       DEF Reconcile, Claim, StartCleanup, CommitReconcile, Consume,
           ConsumeWithoutGroup, redisVars, groupVars
<1>7. ASSUME NEW w \in Workers, Handle(w) \/ DeadlockAbort(w) \/ Interrupted(w)
      PROVE  NoMessageIsStranded'
  BY <1>1, <1>3, <1>7
     DEF Handle, AttemptSucceeds, AttemptFails, AttemptUnconfirmed, FailEvent, FailEventRaises,
         DeadlockAbort, Interrupted, Abandon, redisVars, groupVars
<1>8. QED
  BY <1>1, <1>4, <1>5, <1>6, <1>7, EntriesAdded
     DEF Next, Iterate, vars, Ingest, Replay, TurnsIdle, TurnsStale, TurnsOld, redisVars, groupVars

\* redis_streams.py: no message is forgotten by the consumer group. Each one in
\* the stream is above the group's last delivered id, where XREADGROUP will come
\* to it, or on the pending list, where XAUTOCLAIM will.
THEOREM NothingIsStranded == Spec => []NoMessageIsStranded
<1>1. Init => NoMessageIsStranded
  BY DEF Init, NoMessageIsStranded
<1>2. Init => Typed
  BY TypedInit
<1>3. QED
  BY <1>1, <1>2, TypedStep, StrandedStep, PTL DEF Spec

----------------------------------------------------------------------------
(* The pipeline and the promise about one event                            *)

\* Every step of the pipeline is one of the lifecycle, or no change to it.
LEMMA PipelineMaps == Typed /\ [Next]_vars => [LifecycleNext]_lifecycleVars
<1> SUFFICES ASSUME Typed, [Next]_vars PROVE [LifecycleNext]_lifecycleVars
  OBVIOUS
<1>1. ASSUME NEW e \in Events, Ingest(e) \/ Replay(e) PROVE LifecycleNext
  BY <1>1 DEF Ingest, Replay, LifecycleNext
<1>2. ASSUME NEW w \in Workers, AttemptSucceeds(w) \/ AttemptUnconfirmed(w)
      PROVE  [LifecycleNext]_lifecycleVars
  BY <1>2 DEF AttemptSucceeds, AttemptUnconfirmed, LifecycleNext
<1>3. ASSUME NEW w \in Workers, FailEvent(w) PROVE [LifecycleNext]_lifecycleVars
  <2>1. Current(w) \in Events \/ Current(w) \in Foreign
    BY <1>3, InHandType DEF FailEvent, Handling, Ids
  <2>2. QED
    BY <1>3, <2>1 DEF FailEvent, LifecycleNext
<1>4. ASSUME NEW w \in Workers, Iterate(w) \/ Interrupted(w)
      PROVE  [LifecycleNext]_lifecycleVars
  BY <1>2, <1>3, <1>4
     DEF Iterate, Reconcile, Claim, PublishRow, StartCleanup, CommitReconcile, Consume,
         ConsumeClaimed, ConsumeNew, ConsumeWithoutGroup, Take, Handle, AttemptFails,
         FailEventRaises, Ack, DeadlockAbort, Interrupted, Abandon
<1>5. QED
  BY <1>1, <1>4
     DEF Next, vars, RedisLoss, ForeignMessage, SeedLive, TurnsIdle, TurnsStale, TurnsOld

\* Outbox, stream, claims, crashes and replays together do to an event what
\* EventLifecycle allows, and no more: the pipeline implements it.
THEOREM PipelineImplementsLifecycle == Spec => LifecycleSpec
<1>1. Init => LifecycleInit
  BY DEF Init
<1>2. QED
  BY <1>1, TypedInit, TypedStep, PipelineMaps, PTL DEF Spec, LifecycleSpec

----------------------------------------------------------------------------
(* Every event is accounted for                                            *)

Settled(c) == {e \in Events : status[e] = "processed" /\ CustomerOf[e] = c}

\* A failed event has one dead letter to replay, a processed one counts once in
\* its customer's aggregate, and nothing else does.
Accounts ==
    /\ \A e \in Events : dead[e] = IF status[e] = "failed" THEN 1 ELSE 0
    /\ \A c \in Customers : tally[c] = Cardinality(Settled(c))

\* README 3, zero dropped events: an accepted event can be published again,
\* counts in its customer's aggregate, or waits in the dead-letter table.
EveryEventAccountedFor == PendingHasOutbox /\ Accounts

\* An event that neither was processed nor is now changes no customer's set.
LEMMA SettledKept ==
    ASSUME LifecycleTypeOK, NEW e \in Events, NEW s \in Statuses \ {"processed"},
           status' = [status EXCEPT ![e] = s], status[e] # "processed"
    PROVE  \A c : Settled(c)' = Settled(c)
BY DEF LifecycleTypeOK, Settled

LEMMA AccountsStep ==
    ASSUME LifecycleTypeOK, Accounts, [LifecycleNext]_lifecycleVars
    PROVE  Accounts'
<1>1. \A e \in Events : e \in Ids /\ e \notin Foreign
  BY LifecycleAssumption DEF Ids
<1>2. ASSUME NEW e \in Events, Accept(e) \/ DeadLetter(e) \/ Requeue(e) PROVE Accounts'
  <2>1. /\ UNCHANGED tally /\ status[e] # "processed"
        /\ \E s \in Statuses \ {"processed"} : status' = [status EXCEPT ![e] = s]
    BY <1>2 DEF Accept, DeadLetter, Requeue, Statuses
  <2>2. \A c : Settled(c)' = Settled(c)
    BY <2>1, SettledKept
  <2>3. \A x \in Events : dead'[x] = IF status'[x] = "failed" THEN 1 ELSE 0
    BY <1>1, <1>2 DEF Accept, DeadLetter, Requeue, Accounts, LifecycleTypeOK
  <2>4. QED
    BY <2>1, <2>2, <2>3 DEF Accounts
<1>3. ASSUME NEW e \in Events, Apply(e) PROVE Accounts'
  <2>1. /\ status[e] = "pending" /\ CustomerOf[e] \in Customers
        /\ \A x \in Events : status'[x] = IF x = e THEN "processed" ELSE status[x]
        /\ \A c \in Customers :
                tally'[c] = IF c = CustomerOf[e] THEN tally[c] + 1 ELSE tally[c]
    BY <1>3, LifecycleAssumption DEF Apply, LifecycleTypeOK
  <2>2. \A x \in Events : dead'[x] = IF status'[x] = "failed" THEN 1 ELSE 0
    BY <1>3, <2>1 DEF Apply, Accounts
  <2>3. ASSUME NEW c \in Customers PROVE tally'[c] = Cardinality(Settled(c)')
    <3>1. CASE c = CustomerOf[e]
      <4>1. Settled(c)' = Settled(c) \cup {e} /\ e \notin Settled(c)
        BY <2>1, <3>1 DEF Settled
      <4>2. IsFiniteSet(Settled(c))
        <5>1. Settled(c) \in SUBSET Events /\ IsFiniteSet(Events)
          BY LifecycleAssumption DEF Settled
        <5>2. QED
          BY <5>1, FS_Subset
      <4>3. Cardinality(Settled(c) \cup {e}) = Cardinality(Settled(c)) + 1
        BY <4>1, <4>2, FS_AddElement
      <4>4. QED
        BY <2>1, <3>1, <4>1, <4>3 DEF Accounts
    <3>2. CASE c # CustomerOf[e]
      <4>1. Settled(c)' = Settled(c)
        BY <2>1, <3>2 DEF Settled
      <4>2. QED
        BY <2>1, <3>2, <4>1 DEF Accounts
    <3>3. QED
      BY <3>1, <3>2
  <2>4. QED
    BY <2>2, <2>3 DEF Accounts
<1>4. ASSUME UNCHANGED <<status, tally>>, \A e \in Events : dead'[e] = dead[e] PROVE Accounts'
  <2>1. \A c : Settled(c)' = Settled(c)
    BY <1>4 DEF Settled
  <2>2. QED
    BY <1>4, <2>1 DEF Accounts
<1>5. ASSUME NEW f \in Foreign, Reject(f) PROVE Accounts'
  BY <1>1, <1>4, <1>5 DEF Reject, LifecycleTypeOK
<1>6. CASE UNCHANGED lifecycleVars
  BY <1>4, <1>6 DEF lifecycleVars
<1>7. QED
  BY <1>2, <1>3, <1>5, <1>6 DEF LifecycleNext

\* README 3, zero dropped events: whatever Redis, the workers, the cleanups and
\* the replays do, every accepted event can be published again, is counted in
\* its customer's aggregate exactly once, or has one dead letter to replay.
THEOREM NoEventIsDropped == Spec => []EveryEventAccountedFor
<1>1. Init => Accounts
  <2> SUFFICES ASSUME Init PROVE Accounts
    OBVIOUS
  <2>1. \A c : Settled(c) = {}
    BY DEF Init, LifecycleInit, Settled
  <2>2. Cardinality({}) = 0
    BY FS_EmptySet
  <2>3. QED
    BY <2>1, <2>2 DEF Init, LifecycleInit, Accounts, Ids
<1>2. Typed /\ Accounts /\ [Next]_vars => Accounts'
  BY PipelineMaps, AccountsStep DEF Typed
<1>3. Spec => []Accounts
  BY <1>1, <1>2, TypedInit, TypedStep, PTL DEF Spec
<1>4. QED
  BY <1>3, OutboxCoversPending, PTL DEF EveryEventAccountedFor
====
