--------------------------- MODULE WorkerHealthProofs ---------------------------
(***************************************************************************)
(* What a readiness answer is worth, for any number of workers and names   *)
(* and any choice of interval, timeout and lifetime.                       *)
(*                                                                         *)
(* A key's remaining lifetime and the time since a worker was alive never  *)
(* add up to more than TTL; and the remaining lifetime never falls below   *)
(* TTL less what the sleeping, the waiting and the failures of a running   *)
(* worker account for.                                                     *)
(***************************************************************************)
EXTENDS WorkerHealth, TLAPS

USE DEF config

Ticks == 0 .. TTL

LEMMA TickBounds ==
    /\ 0 \in Ticks /\ Interval \in Ticks /\ TTL \in Ticks
    /\ \A t \in Ticks : t \in Nat /\ Least(t + 1, TTL) \in Ticks
    /\ \A t \in Ticks : t > 0 => t - 1 \in Ticks
BY HealthAssumption DEF Ticks, Least

LEMMA TypeInit == Init => TypeOK
<1> SUFFICES ASSUME Init PROVE TypeOK
  OBVIOUS
<1>1. name \in [Workers -> Names] /\ embedded \subseteq Workers
  BY HealthAssumption DEF Init
<1>2. /\ key \in [Names -> 0 .. TTL] /\ timer \in [Workers -> 0 .. TTL]
      /\ missed \in [Workers -> 0 .. TTL] /\ quiet \in 0 .. TTL /\ faults \in 0 .. MaxFaults
  BY HealthAssumption DEF Init
<1>3. QED
  BY <1>1, <1>2 DEF Init, Idle, TypeOK

LEMMA FaultBounded ==
    ASSUME TypeOK, Fault \/ UNCHANGED faults
    PROVE  faults' \in 0 .. MaxFaults
BY HealthAssumption DEF TypeOK, Fault

LEMMA EnterType ==
    ASSUME TypeOK, NEW w \in Workers, NEW step \in {"off", "asleep", "setting", "deleting"},
           NEW ticks \in 0 .. TTL, Enter(w, step, ticks)
    PROVE  /\ phase' \in [Workers -> {"off", "asleep", "setting", "deleting"}]
           /\ timer' \in [Workers -> 0 .. TTL]
BY DEF TypeOK, Enter

LEMMA OrphanType ==
    ASSUME TypeOK, NEW w \in Workers, Orphaned(w)
    PROVE  late' \subseteq Names
BY DEF TypeOK, Orphaned

LEMMA HeartbeatType ==
    ASSUME TypeOK, NEW w \in Workers, Heartbeat(w), hope' \in BOOLEAN
    PROVE  TypeOK'
<1> USE TickBounds DEF Ticks
<1>1. CASE Start(w)
  BY <1>1, EnterType DEF Start, TypeOK, store, request
<1>2. CASE Send(w)
  BY <1>2, EnterType DEF Send, TypeOK, store, request
<1>3. CASE Beat(w)
  BY <1>3, EnterType DEF Beat, TypeOK, request
<1>4. CASE BeatFails(w)
  <2>1. missed' \in [Workers -> 0 .. TTL]
    BY <1>4 DEF BeatFails, TypeOK
  <2>2. faults' \in 0 .. MaxFaults
    BY <1>4, FaultBounded DEF BeatFails, CallFails
  <2>3. QED
    BY <1>4, <2>1, <2>2, EnterType DEF BeatFails, TypeOK, store, request
<1>5. CASE Stop(w)
  BY <1>5, EnterType, OrphanType, FaultBounded DEF Stop, TypeOK, request
<1>6. CASE Delete(w)
  BY <1>6, EnterType DEF Delete, TypeOK, request
<1>7. CASE DeleteFails(w)
  BY <1>7, EnterType, FaultBounded DEF DeleteFails, CallFails, TypeOK, store, request
<1>8. CASE Crash(w)
  BY <1>8, EnterType, OrphanType, FaultBounded DEF Crash, TypeOK, request
<1>9. QED
  BY <1>1, <1>2, <1>3, <1>4, <1>5, <1>6, <1>7, <1>8 DEF Heartbeat

LEMMA TickType ==
    ASSUME TypeOK, Tick, hope' \in BOOLEAN
    PROVE  TypeOK'
<1>1. timer' \in [Workers -> 0 .. TTL]
  <2>1. \A w \in Workers : phase[w] = "asleep" => timer[w] > 0
    BY DEF Tick, Patient
  <2>2. QED
    BY <2>1, TickBounds DEF Tick, TypeOK, Ticks
<1>2. key' \in [Names -> 0 .. TTL]
  BY TickBounds DEF Tick, TypeOK, Ticks
<1>3. quiet' \in 0 .. TTL
  BY TickBounds DEF Tick, TypeOK, Ticks
<1>4. QED
  BY <1>1, <1>2, <1>3 DEF Tick, TypeOK, request

LEMMA RedisType ==
    ASSUME TypeOK, (\E n \in Names : Receive(n)) \/ RedisDown \/ RedisUp, hope' \in BOOLEAN
    PROVE  TypeOK'
<1> USE TickBounds DEF Ticks
<1>1. ASSUME NEW n \in Names, Receive(n) PROVE TypeOK'
  BY <1>1 DEF Receive, TypeOK, request
<1>2. CASE RedisDown
  BY <1>2, FaultBounded DEF RedisDown, TypeOK, request
<1>3. CASE RedisUp
  BY <1>3 DEF RedisUp, TypeOK, request
<1>4. QED
  BY <1>1, <1>2, <1>3

LEMMA HealthType ==
    ASSUME TypeOK, Health, hope' \in BOOLEAN
    PROVE  TypeOK'
<1>1. CASE CheckDatabase
  BY <1>1, FaultBounded DEF CheckDatabase, Idle, TypeOK, store
<1>2. CASE Ping
  <2>1. {name[w] : w \in Workers} \subseteq Names
    BY DEF TypeOK
  <2>2. QED
    BY <1>2, <2>1 DEF Ping, TypeOK, store
<1>3. ASSUME NEW n \in Names, Visit(n) PROVE TypeOK'
  <2>1. TaskAlive \in BOOLEAN
    BY DEF TaskAlive
  <2> HIDE DEF TaskAlive
  <2>2. QED
    BY <1>3, <2>1 DEF Visit, TypeOK, store
<1>4. CASE GiveUp
  BY <1>4, FaultBounded DEF GiveUp, Idle, TypeOK, store
<1>5. CASE Answer
  BY <1>5 DEF Answer, Idle, TypeOK, store
<1>6. QED
  BY <1>1, <1>2, <1>3, <1>4, <1>5 DEF Health

LEMMA TypeStep == TypeOK /\ [Next]_vars => TypeOK'
<1> SUFFICES ASSUME TypeOK, [Next]_vars PROVE TypeOK'
  OBVIOUS
<1>1. CASE UNCHANGED vars
  BY <1>1 DEF vars, TypeOK
<1>2. CASE Next
  <2>1. hope' \in BOOLEAN
    BY <1>2 DEF Next, Observe, TypeOK, Hopeful, TaskAlive
  <2>2. QED
    BY <1>2, <2>1, HeartbeatType, TickType, RedisType, HealthType DEF Next
<1>3. QED
  BY <1>1, <1>2

\* Every reachable state of workers, Redis and the probe is type correct.
THEOREM TypeCorrect == Spec => []TypeOK
BY TypeInit, TypeStep, PTL DEF Spec

----------------------------------------------------------------------------
(* A ready answer is never older than a lifetime                           *)

SomeAlive == \E w \in Workers : phase[w] # "off"

KeysAreRecent == \A n \in Names : key[n] > 0 => key[n] + quiet <= TTL

Grounds ==
    /\ answer = "ready" => probe.step = "idle" /\ hope
    /\ probe.step # "idle" /\ probe.worker => hope

Readiness ==
    /\ SomeAlive => quiet = 0
    /\ late # {} => quiet = 0
    /\ KeysAreRecent
    /\ Grounds

LEMMA ReadinessInit == Init => Readiness
BY DEF Init, Idle, Readiness, SomeAlive, KeysAreRecent, Grounds

\* The steps of workers and of Redis leave the probe alone, and hope lasts
\* while it goes on.
LEMMA HopeLasts ==
    ASSUME Grounds, Observe, UNCHANGED request
    PROVE  Grounds'
BY DEF Grounds, Observe, request

LEMMA HeartbeatReadiness ==
    ASSUME TypeOK, Readiness, NEW w \in Workers, Heartbeat(w), Observe
    PROVE  Readiness'
<1>1. CASE Start(w)
  <2>1. UNCHANGED <<key, late>> /\ quiet' = 0
    BY <1>1 DEF Start, store
  <2>2. KeysAreRecent'
    BY <2>1 DEF KeysAreRecent, TypeOK
  <2>3. UNCHANGED request
    BY <1>1 DEF Start
  <2>4. QED
    BY <2>1, <2>2, <2>3, HopeLasts DEF Readiness
<1>2. CASE ~Start(w)
  <2>1. phase[w] # "off" /\ quiet = 0
    BY <1>2 DEF Heartbeat, Send, Beat, BeatFails, Stop, Delete, DeleteFails, Crash, Running,
                Readiness, SomeAlive
  <2>2. quiet' = quiet /\ UNCHANGED request
    BY <1>2 DEF Heartbeat, Send, Beat, BeatFails, Stop, Delete, DeleteFails, Crash,
                store, request
  <2>3. \A n \in Names : key'[n] \in {key[n], 0, TTL}
    BY <1>2 DEF Heartbeat, Send, Beat, BeatFails, Stop, Delete, DeleteFails, Crash,
                store, TypeOK
  <2>4. KeysAreRecent'
    BY <2>1, <2>2, <2>3, HealthAssumption DEF KeysAreRecent, Readiness, TypeOK
  <2>5. QED
    BY <2>1, <2>2, <2>4, HopeLasts DEF Readiness
<1>3. QED
  BY <1>1, <1>2

LEMMA RedisReadiness ==
    ASSUME TypeOK, Readiness, (\E n \in Names : Receive(n)) \/ RedisDown \/ RedisUp, Observe
    PROVE  Readiness'
<1>1. UNCHANGED <<phase, quiet, request>>
  BY DEF Receive, RedisDown, RedisUp, request
<1>2. late' # {} => late # {}
  BY DEF Receive, RedisDown, RedisUp
<1>3. SomeAlive' = SomeAlive
  BY <1>1 DEF SomeAlive
<1>4. KeysAreRecent'
  <2>1. ASSUME NEW n \in Names, Receive(n) PROVE KeysAreRecent'
    <3>1. quiet = 0
      BY <2>1 DEF Receive, Readiness
    <3>2. \A m \in Names : key'[m] \in {key[m], TTL}
      BY <2>1 DEF Receive, TypeOK
    <3>3. QED
      BY <1>1, <3>1, <3>2, HealthAssumption DEF KeysAreRecent, Readiness, TypeOK
  <2>2. CASE RedisDown
    BY <2>2, <1>1 DEF RedisDown, KeysAreRecent, Readiness
  <2>3. CASE RedisUp
    BY <2>3, <1>1 DEF RedisUp, KeysAreRecent, Readiness
  <2>4. QED
    BY <2>1, <2>2, <2>3
<1>5. QED
  BY <1>1, <1>2, <1>3, <1>4, HopeLasts DEF Readiness

LEMMA TickReadiness ==
    ASSUME TypeOK, Readiness, Tick, Observe
    PROVE  Readiness'
<1>1. late' = {} /\ UNCHANGED <<phase, request>>
  BY DEF Tick
<1>2. SomeAlive' => quiet' = 0
  BY <1>1 DEF Tick, SomeAlive
<1>3. quiet \in 0 .. TTL /\ quiet' \in Nat /\ quiet' <= quiet + 1
  <2>1. quiet \in 0 .. TTL
    BY DEF TypeOK
  <2>2. quiet' = Least(quiet + 1, TTL) \/ quiet' = 0
    BY DEF Tick
  <2>3. QED
    BY <2>1, <2>2, HealthAssumption DEF Least
<1>4. ASSUME NEW n \in Names, key'[n] > 0 PROVE key'[n] + quiet' <= TTL
  <2>1. key[n] \in 0 .. TTL /\ key'[n] = IF key[n] > 0 THEN key[n] - 1 ELSE 0
    BY DEF Tick, TypeOK
  <2>2. key[n] > 0 /\ key'[n] = key[n] - 1
    BY <2>1, <1>4
  <2>3. key[n] + quiet <= TTL
    BY <2>2 DEF Readiness, KeysAreRecent
  <2>4. QED
    BY <1>3, <2>1, <2>2, <2>3, HealthAssumption
<1>5. KeysAreRecent'
  BY <1>4 DEF KeysAreRecent
<1>6. QED
  BY <1>1, <1>2, <1>5, HopeLasts DEF Readiness

LEMMA HealthReadiness ==
    ASSUME TypeOK, Readiness, Health, Observe
    PROVE  Readiness'
<1>1. UNCHANGED <<embedded, phase, quiet, key, late>>
  BY DEF Health, CheckDatabase, Ping, Visit, GiveUp, Answer, store
<1>2. SomeAlive' = SomeAlive /\ KeysAreRecent' = KeysAreRecent
  BY <1>1 DEF SomeAlive, KeysAreRecent
<1>3. Grounds'
  <2>1. CASE CheckDatabase
    BY <2>1 DEF CheckDatabase, Idle, Grounds
  <2>2. CASE Ping
    BY <2>2 DEF Ping, Observe, Grounds, Readiness, TypeOK
  <2>3. ASSUME NEW n \in Names, Visit(n) PROVE Grounds'
    <3>1. answer' = answer /\ answer # "ready" /\ probe.step = "scan"
      BY <2>3 DEF Visit, Readiness, Grounds
    <3>2. CASE key[n] > 0
      <4>1. probe'.step = "groups" /\ probe'.worker = TaskAlive
        BY <2>3, <3>2 DEF Visit, TypeOK
      <4>2. quiet < TTL
        BY <3>2, HealthAssumption DEF Readiness, KeysAreRecent, TypeOK
      <4>3. TaskAlive => Hopeful'
        BY <1>1, <4>2 DEF Hopeful, TaskAlive
      <4>4. QED
        BY <3>1, <4>1, <4>3 DEF Observe, Grounds
    <3>3. CASE ~(key[n] > 0)
      <4>1. probe'.step = probe.step /\ probe'.worker = probe.worker
        BY <2>3, <3>3 DEF Visit, TypeOK
      <4>2. QED
        BY <3>1, <4>1 DEF Observe, Grounds, Readiness
    <3>4. QED
      BY <3>2, <3>3
  <2>4. CASE GiveUp
    BY <2>4 DEF GiveUp, Idle, Grounds
  <2>5. CASE Answer
    BY <2>5 DEF Answer, Idle, Observe, Grounds, Readiness
  <2>6. QED
    BY <2>1, <2>2, <2>3, <2>4, <2>5 DEF Health
<1>4. QED
  BY <1>1, <1>2, <1>3 DEF Readiness

LEMMA ReadinessStep == TypeOK /\ Readiness /\ [Next]_vars => Readiness'
<1> SUFFICES ASSUME TypeOK, Readiness, [Next]_vars PROVE Readiness'
  OBVIOUS
<1>1. CASE UNCHANGED vars
  BY <1>1 DEF vars, Readiness, SomeAlive, KeysAreRecent, Grounds
<1>2. CASE Next
  BY <1>2, HeartbeatReadiness, RedisReadiness, TickReadiness, HealthReadiness DEF Next
<1>3. QED
  BY <1>1, <1>2

\* A readiness answer never rests on a worker that had been gone for a
\* heartbeat's lifetime since before the request began.
THEOREM ReadyIsRecent == Spec => []ReadyMeansAlive
<1>1. Readiness => ReadyMeansAlive
  BY DEF Readiness, Grounds, ReadyMeansAlive
<1>2. QED
  BY <1>1, TypeCorrect, ReadinessInit, ReadinessStep, PTL DEF Spec
----------------------------------------------------------------------------
(* A running worker stays visible while its writes get through             *)

\* What a failed write costs, and the most that failures account for.
Period == Interval + Timeout

Cost(w) ==
    missed[w] * Period
        + (IF phase[w] = "setting" THEN Interval + timer[w] ELSE Interval - timer[w])

Covered(w) ==
    /\ phase[w] = "asleep" => timer[w] <= Interval
    /\ w \in Running => key[name[w]] + Cost(w) >= TTL

KeysCovered == \A w \in Workers : Covered(w)

LEMMA Multiples ==
    /\ Period \in Nat
    /\ \A m \in Nat : m * Period \in Nat /\ (m + 1) * Period = m * Period + Period
    /\ TTL * Period >= TTL /\ TTL * Period \in Nat
<1>1. Period \in Nat /\ Period >= 1 /\ TTL \in Nat
  BY HealthAssumption DEF Period
<1>2. \A m, p \in Nat : m * p \in Nat /\ (m + 1) * p = m * p + p
  OBVIOUS
<1>3. \A m, p \in Nat : p >= 1 => m * p >= m
  OBVIOUS
<1>4. QED
  BY <1>1, <1>2, <1>3

LEMMA CoveredInit == Init => KeysCovered
BY HealthAssumption DEF Init, KeysCovered, Covered, Running

\* A worker that does not move is covered while its key lives no shorter and
\* it has missed no less.
LEMMA StillCovered ==
    ASSUME TypeOK, TypeOK', NEW w \in Workers, Covered(w), name' = name,
           phase'[w] = phase[w], timer'[w] = timer[w],
           \/ missed'[w] = TTL
           \/ missed'[w] = missed[w] /\ key'[name[w]] >= key[name[w]]
    PROVE  Covered(w)'
<1>1. Running' = {v \in Workers : phase'[v] \notin {"off", "deleting"}}
  BY DEF Running
<1>2. /\ key[name[w]] \in 0 .. TTL /\ key'[name[w]] \in 0 .. TTL
      /\ missed[w] * Period \in Nat /\ timer[w] \in 0 .. TTL
  BY Multiples DEF TypeOK
<1>3. CASE missed'[w] = missed[w] /\ key'[name[w]] >= key[name[w]]
  BY <1>1, <1>2, <1>3, HealthAssumption DEF Covered, Cost, Running
<1>4. CASE missed'[w] = TTL
  <2>1. missed'[w] * Period >= TTL /\ missed'[w] * Period \in Nat
    BY <1>4, Multiples
  <2>2. phase[w] = "asleep" => timer'[w] <= Interval
    BY DEF Covered
  <2>3. phase[w] \in {"asleep", "setting"} => Cost(w)' >= TTL
    BY <1>2, <2>1, <2>2, HealthAssumption DEF Cost
  <2>4. w \in Running => phase[w] \in {"asleep", "setting"}
    BY DEF Running, TypeOK
  <2>5. key'[name[w]] \in Nat /\ (w \in Running)' = (w \in Running)
    BY <1>1, <1>2 DEF Running
  <2>6. w \in Running => key'[name[w]] + Cost(w)' >= TTL
    <3>1. phase[w] \in {"asleep", "setting"} => Cost(w)' \in Nat
      BY <1>2, <2>1, <2>2, HealthAssumption DEF Cost
    <3>2. QED
      BY <2>3, <2>4, <2>5, <3>1, HealthAssumption
  <2>7. QED
    BY <2>2, <2>5, <2>6 DEF Covered
<1>5. QED
  BY <1>3, <1>4

LEMMA HeartbeatCovered ==
    ASSUME TypeOK, TypeOK', KeysCovered, NEW w \in Workers, Heartbeat(w)
    PROVE  KeysCovered'
<1>1. name' = name
  BY DEF Heartbeat, Start, Send, Beat, BeatFails, Stop, Delete, DeleteFails, Crash
<1>2. ASSUME NEW v \in Workers, v # w PROVE Covered(v)'
  <2>1. phase'[v] = phase[v] /\ timer'[v] = timer[v]
    BY <1>2 DEF Heartbeat, Start, Send, Beat, BeatFails, Stop, Delete, DeleteFails, Crash,
                Enter, TypeOK
  <2>2. \/ missed'[v] = TTL
        \/ missed'[v] = missed[v] /\ key'[name[v]] >= key[name[v]]
    <3>1. CASE Delete(w)
      BY <1>2, <3>1 DEF Delete, TypeOK
    <3>2. CASE Beat(w)
      BY <1>2, <3>2 DEF Beat, TypeOK
    <3>3. CASE ~Delete(w) /\ ~Beat(w)
      BY <1>2, <3>3 DEF Heartbeat, Start, Send, BeatFails, Stop, DeleteFails, Crash,
                        TypeOK, store
    <3>4. QED
      BY <3>1, <3>2, <3>3
  <2>3. QED
    BY <1>1, <2>1, <2>2, StillCovered DEF KeysCovered
<1>3. Covered(w)'
  <2> DEFINE n == name[w]
  <2>1. /\ key[n] \in 0 .. TTL /\ key'[n] \in 0 .. TTL /\ missed[w] \in 0 .. TTL
        /\ missed[w] * Period \in Nat /\ timer[w] \in 0 .. TTL
        /\ key[n] \in Nat /\ key'[n] \in Nat /\ timer[w] \in Nat
    BY Multiples DEF TypeOK
  <2>2. CASE Start(w)
    <3>1. phase'[w] = "asleep" /\ timer'[w] = 0 /\ missed'[w] = TTL
      BY <2>2 DEF Start, Enter, TypeOK
    <3>2. missed'[w] * Period >= TTL /\ missed'[w] * Period \in Nat
      BY <3>1, Multiples
    <3>3. phase'[w] = "asleep" /\ timer'[w] = 0
      BY <3>1
    <3>4. QED
      BY <1>1, <2>1, <3>2, <3>3, HealthAssumption DEF Covered, Cost
  <2>3. CASE Send(w)
    <3>1. /\ phase[w] = "asleep" /\ timer[w] = 0 /\ phase'[w] = "setting" /\ timer'[w] = 0
          /\ missed'[w] = missed[w] /\ key'[n] = key[n] /\ w \in Running
      BY <2>3 DEF Send, Enter, TypeOK, store, Running
    <3>2. QED
      BY <1>1, <2>1, <3>1, HealthAssumption DEF Covered, Cost, KeysCovered
  <2>4. CASE Beat(w)
    <3>1. phase'[w] = "asleep" /\ timer'[w] = Interval /\ missed'[w] = 0 /\ key'[n] = TTL
      BY <2>4 DEF Beat, Enter, TypeOK
    <3>2. missed'[w] * Period \in Nat
      BY <3>1, Multiples
    <3>3. QED
      BY <1>1, <3>1, <3>2, HealthAssumption DEF Covered, Cost
  <2>5. CASE BeatFails(w)
    <3>1. /\ phase[w] = "setting" /\ phase'[w] = "asleep" /\ timer'[w] = Interval
          /\ key'[n] = key[n] /\ w \in Running
          /\ missed'[w] = IF timer[w] > Timeout THEN TTL ELSE Least(missed[w] + 1, TTL)
      BY <2>5 DEF BeatFails, Enter, TypeOK, store, Running
    <3>2. CASE missed'[w] = TTL
      <4>1. missed'[w] * Period >= TTL /\ missed'[w] * Period \in Nat
        BY <3>2, Multiples
      <4>2. phase'[w] = "asleep" /\ timer'[w] = Interval
        BY <3>1
      <4>3. QED
        BY <1>1, <2>1, <4>1, <4>2, HealthAssumption DEF Covered, Cost
    <3>3. CASE missed'[w] = missed[w] + 1 /\ timer[w] <= Timeout
      <4>1. missed'[w] * Period = missed[w] * Period + Interval + Timeout
        <5>1. missed[w] \in Nat
          BY <2>1
        <5>2. (missed[w] + 1) * Period = missed[w] * Period + Period
          BY <5>1, Multiples
        <5>3. Period = Interval + Timeout
          BY DEF Period
        <5>4. missed[w] * Period + Period = missed[w] * Period + Interval + Timeout
          BY <2>1, <5>3, HealthAssumption
        <5>5. QED
          BY <3>3, <5>2, <5>4
      <4>2. key[n] + missed[w] * Period + Interval + timer[w] >= TTL
        BY <2>1, <3>1, HealthAssumption DEF KeysCovered, Covered, Cost
      <4>3. key'[n] + missed'[w] * Period >= TTL
        BY <2>1, <3>1, <3>3, <4>1, <4>2, HealthAssumption
      <4>4. missed'[w] * Period \in Nat
        BY <2>1, <4>1, HealthAssumption
      <4>5. QED
        BY <1>1, <2>1, <3>1, <4>3, <4>4, HealthAssumption DEF Covered, Cost
    <3>4. QED
      BY <2>1, <3>1, <3>2, <3>3, HealthAssumption DEF Least
  <2>6. CASE Stop(w) \/ Delete(w) \/ DeleteFails(w) \/ Crash(w)
    <3>1. phase'[w] \in {"off", "deleting"}
      BY <2>6 DEF Stop, Delete, DeleteFails, Crash, Enter, TypeOK
    <3>2. QED
      BY <3>1 DEF Covered, Running
  <2>7. QED
    BY <2>2, <2>3, <2>4, <2>5, <2>6 DEF Heartbeat
<1>4. QED
  BY <1>2, <1>3 DEF KeysCovered

LEMMA TickCovered ==
    ASSUME TypeOK, TypeOK', KeysCovered, Tick
    PROVE  KeysCovered'
<1> SUFFICES ASSUME NEW w \in Workers PROVE Covered(w)'
  BY DEF KeysCovered
<1>1. /\ name' = name /\ phase' = phase /\ missed' = missed
      /\ phase[w] = "asleep" => timer[w] > 0 /\ timer'[w] = timer[w] - 1
      /\ phase[w] = "setting" => timer'[w] = Least(timer[w] + 1, TTL)
      /\ key'[name[w]] = IF key[name[w]] > 0 THEN key[name[w]] - 1 ELSE 0
  BY DEF Tick, Patient, TypeOK
<1>2. /\ key[name[w]] \in Nat /\ timer[w] \in Nat /\ timer[w] <= TTL
      /\ missed[w] * Period \in Nat
  BY Multiples DEF TypeOK
<1>3. CASE phase[w] = "asleep"
  BY <1>1, <1>2, <1>3, HealthAssumption DEF KeysCovered, Covered, Cost, Running
<1>4. CASE phase[w] = "setting"
  BY <1>1, <1>2, <1>4, HealthAssumption DEF KeysCovered, Covered, Cost, Running, Least
<1>5. CASE phase[w] \notin {"asleep", "setting"}
  BY <1>1, <1>5 DEF Covered, Running, TypeOK
<1>6. QED
  BY <1>3, <1>4, <1>5

LEMMA CoveredStep == TypeOK /\ TypeOK' /\ KeysCovered /\ [Next]_vars => KeysCovered'
<1> SUFFICES ASSUME TypeOK, TypeOK', KeysCovered, [Next]_vars PROVE KeysCovered'
  OBVIOUS
<1>1. CASE UNCHANGED vars
  BY <1>1 DEF vars, KeysCovered, Covered, Cost, Running
<1>2. ASSUME NEW w \in Workers, Heartbeat(w) PROVE KeysCovered'
  BY <1>2, HeartbeatCovered
<1>3. CASE Tick
  BY <1>3, TickCovered
<1>4. CASE (\E n \in Names : Receive(n)) \/ RedisDown \/ RedisUp \/ Health
  <2>1. UNCHANGED <<name, phase, timer>>
    BY <1>4 DEF Receive, RedisDown, RedisUp, Health, CheckDatabase, Ping, Visit, GiveUp, Answer
  <2>2. ASSUME NEW w \in Workers
        PROVE  \/ missed'[w] = TTL
               \/ missed'[w] = missed[w] /\ key'[name[w]] >= key[name[w]]
    <3>1. name[w] \in Names /\ key[name[w]] \in 0 .. TTL
      BY DEF TypeOK
    <3>2. ASSUME NEW n \in Names, Receive(n)
          PROVE  missed'[w] = missed[w] /\ key'[name[w]] >= key[name[w]]
      BY <3>1, <3>2, HealthAssumption DEF Receive, TypeOK
    <3>3. CASE RedisUp
      BY <3>1, <3>3 DEF RedisUp
    <3>4. CASE RedisDown \/ Health
      <4>1. UNCHANGED <<key, missed>>
        BY <3>4 DEF RedisDown, Health, CheckDatabase, Ping, Visit, GiveUp, Answer, store
      <4>2. QED
        BY <3>1, <4>1
    <3>5. QED
      BY <1>4, <3>2, <3>3, <3>4
  <2>3. QED
    BY <2>1, <2>2, StillCovered DEF KeysCovered
<1>5. QED
  BY <1>1, <1>2, <1>3, <1>4 DEF Next

LEMMA CoveredVisible == TypeOK /\ KeysCovered => VisibleUnlessMissed
<1> SUFFICES ASSUME TypeOK, KeysCovered, NEW w \in Running, key[name[w]] = 0
             PROVE  Interval + missed[w] * (Interval + Timeout)
                        + (IF phase[w] = "setting" THEN timer[w] ELSE 0) >= TTL
  BY DEF VisibleUnlessMissed
<1>1. w \in Workers /\ timer[w] \in Nat /\ missed[w] * Period \in Nat
  BY Multiples DEF Running, TypeOK
<1>2. Cost(w) >= TTL
  BY <1>1, HealthAssumption DEF KeysCovered, Covered, Cost
<1>3. Interval + missed[w] * Period + (IF phase[w] = "setting" THEN timer[w] ELSE 0) >= TTL
  BY <1>1, <1>2, HealthAssumption DEF Cost
<1>4. QED
  BY <1>3 DEF Period

\* A running worker is out of the probe's sight only after as many failed
\* writes in a row as fit into the lifetime of its key.
THEOREM VisibleWorkers == Spec => []VisibleUnlessMissed
<1>1. TypeOK /\ KeysCovered /\ [Next]_vars => KeysCovered'
  BY TypeStep, CoveredStep
<1>2. QED
  BY <1>1, TypeCorrect, CoveredInit, CoveredVisible, PTL DEF Spec
==============================================================================
