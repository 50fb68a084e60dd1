------------------------------ MODULE WorkerHealth ------------------------------
(***************************************************************************)
(* Workers announce themselves by a key in Redis that expires unless its   *)
(* heartbeat task writes it anew (workers/event_worker.py), and the        *)
(* readiness probe looks for any such key (api/system.py, health).         *)
(*                                                                         *)
(* Time is counted in ticks: the heartbeat sleeps for Interval of them     *)
(* between two writes. A worker that is running sends a write when it is   *)
(* due, and Redis, while it is up, receives a command in the tick it was   *)
(* sent in. A call to a Redis that is down, or over a connection that      *)
(* broke, fails at some time: after Timeout at the latest in the API       *)
(* process, whose client has a socket timeout and makes so many attempts   *)
(* (Timeout is what they take together); the client of a standalone worker *)
(* has no timeout. What the worker does with events is EventPipeline's.    *)
(***************************************************************************)
EXTENDS Naturals

CONSTANTS
    Workers,    \* worker processes and tasks
    Embeddings, \* the worker task of the probed API process, if it runs one:
                \* none or one worker, as RUN_EMBEDDED_WORKER may be set
    Names,      \* REDIS_CONSUMER_NAMEs
    Namings,    \* the names the workers may have been configured with
    Interval,   \* ticks the heartbeat sleeps
    Timeout,    \* ticks a call of the API process lasts at most, over all the
                \* attempts of its client, each with the socket_timeout
    TTL,        \* WORKER_HEARTBEAT_TTL, in ticks
    MaxFaults   \* bound: failed statements, outages of Redis, workers ending

ASSUME HealthAssumption ==
    /\ Embeddings \subseteq SUBSET Workers
    /\ Namings \subseteq [Workers -> Names]
    /\ {Interval, Timeout, TTL} \subseteq Nat \ {0}
    /\ Interval < TTL
    /\ MaxFaults \in Nat

VARIABLES
    name,     \* the consumer name of each worker
    embedded, \* the worker task of the probed API process
    phase,    \* off, or what its heartbeat does: asleep, setting, deleting
    timer,    \* ticks left to sleep, or spent in the call
    key,      \* ticks each heartbeat key has left to live; 0: no such key
    late,     \* names a SET is under way for whose sender has gone
    redis,    \* up or down
    probe,    \* the readiness request: its step, and what it found so far
    answer,   \* the answer of the latest readiness request
    faults,   \* faults so far
    missed,   \* history: failed writes of a running worker since its key was there
    quiet,    \* history: ticks since some worker was alive
    hope      \* history: since the request began, there was reason to answer ready

vars == <<name, embedded, phase, timer, key, late, redis, probe, answer, faults, missed, quiet, hope>>

config == <<name, embedded>>
store == <<key, late, redis>>
request == <<probe, answer>>

Running == {w \in Workers : phase[w] \notin {"off", "deleting"}}

Idle == [step |-> "idle", database |-> FALSE, worker |-> FALSE, left |-> {}]

Init ==
    /\ name \in Namings
    /\ embedded \in Embeddings
    /\ phase = [w \in Workers |-> "off"]
    /\ timer = [w \in Workers |-> 0]
    /\ key = [n \in Names |-> 0]
    /\ late = {}
    /\ redis = "up"
    /\ probe = Idle
    /\ answer = "none"
    /\ faults = 0
    /\ missed = [w \in Workers |-> TTL]
    /\ quiet = TTL
    /\ hope = FALSE

Fault == faults < MaxFaults /\ faults' = faults + 1

Enter(w, step, ticks) ==
    /\ phase' = [phase EXCEPT ![w] = step]
    /\ timer' = [timer EXCEPT ![w] = ticks]

Least(a, b) == IF a < b THEN a ELSE b

----------------------------------------------------------------------------
(* The worker's heartbeat                                                  *)

\* lifespan, or a worker process, starts the loop and its heartbeat.
Start(w) ==
    /\ phase[w] = "off"
    /\ Enter(w, "asleep", 0)
    /\ missed' = [missed EXCEPT ![w] = TTL]
    /\ quiet' = 0
    /\ UNCHANGED <<config, store, request, faults>>

Send(w) ==
    /\ phase[w] = "asleep" /\ timer[w] = 0
    /\ Enter(w, "setting", 0)
    /\ UNCHANGED <<config, store, request, faults, missed, quiet>>

\* Mutant: every write prolongs the lifetime the key has left.
BeatProlongs(w) ==
    /\ phase[w] = "setting" /\ redis = "up"
    /\ key' = [key EXCEPT ![name[w]] = @ + TTL]
    /\ Enter(w, "asleep", Interval)
    /\ missed' = [missed EXCEPT ![w] = 0]
    /\ UNCHANGED <<config, late, redis, request, faults, quiet>>

\* SET with its lifetime. When only the answer is lost, the worker does the same.
Beat(w) ==
    /\ phase[w] = "setting" /\ redis = "up"
    /\ key' = [key EXCEPT ![name[w]] = TTL]
    /\ Enter(w, "asleep", Interval)
    /\ missed' = [missed EXCEPT ![w] = 0]
    /\ UNCHANGED <<config, late, redis, request, faults, quiet>>

CallFails(w) ==
    \/ (redis = "down" \/ timer[w] > 0) /\ UNCHANGED faults
    \/ Fault

\* Mutant: the heartbeat is written again only half as often after a failure.
BeatFailsBacksOff(w) ==
    /\ phase[w] = "setting" /\ CallFails(w)
    /\ Enter(w, "asleep", 2 * Interval)
    /\ missed' = [missed EXCEPT ![w] = IF timer[w] > Timeout THEN TTL ELSE Least(@ + 1, TTL)]
    /\ UNCHANGED <<config, store, request, quiet>>

\* Mutant: an exception ends the heartbeat task, but not the worker.
BeatFailsForGood(w) ==
    /\ phase[w] = "setting" /\ CallFails(w)
    /\ Enter(w, "deaf", 0)
    /\ missed' = [missed EXCEPT ![w] = IF timer[w] > Timeout THEN TTL ELSE Least(@ + 1, TTL)]
    /\ UNCHANGED <<config, store, request, quiet>>

\* The exception is logged, and the heartbeat sleeps as after a write.
BeatFails(w) ==
    /\ phase[w] = "setting" /\ CallFails(w)
    /\ Enter(w, "asleep", Interval)
    /\ missed' = [missed EXCEPT ![w] = IF timer[w] > Timeout THEN TTL ELSE Least(@ + 1, TTL)]
    /\ UNCHANGED <<config, store, request, quiet>>

\* A write that was under way when its sender went may still be received.
Orphaned(w) ==
    \/ UNCHANGED late
    \/ phase[w] = "setting" /\ late' = late \cup {name[w]}

\* The worker is cancelled: its heartbeat first, then the finally clause
\* deletes the key.
Stop(w) ==
    /\ w \in Running /\ Fault
    /\ Enter(w, "deleting", 0)
    /\ Orphaned(w)
    /\ missed' = [missed EXCEPT ![w] = TTL]
    /\ UNCHANGED <<config, key, redis, request, quiet>>

\* Workers that share the name lose the key as well.
Delete(w) ==
    /\ phase[w] = "deleting" /\ redis = "up"
    /\ Enter(w, "off", 0)
    /\ key' = [key EXCEPT ![name[w]] = 0]
    /\ missed' = [v \in Workers |-> IF name[v] = name[w] THEN TTL ELSE missed[v]]
    /\ UNCHANGED <<config, late, redis, request, faults, quiet>>

DeleteFails(w) ==
    /\ phase[w] = "deleting" /\ CallFails(w)
    /\ Enter(w, "off", 0)
    /\ UNCHANGED <<config, store, request, missed, quiet>>

\* The process is killed: nothing runs, and the key lives on.
Crash(w) ==
    /\ phase[w] # "off" /\ Fault
    /\ Enter(w, "off", 0)
    /\ Orphaned(w)
    /\ missed' = [missed EXCEPT ![w] = TTL]
    /\ UNCHANGED <<config, key, redis, request, quiet>>

----------------------------------------------------------------------------
(* Redis and time                                                          *)

Receive(n) ==
    /\ n \in late /\ redis = "up"
    /\ key' = [key EXCEPT ![n] = TTL]
    /\ late' = late \ {n}
    /\ UNCHANGED <<config, phase, timer, redis, request, faults, missed, quiet>>

RedisDown ==
    /\ redis = "up" /\ Fault
    /\ redis' = "down"
    /\ UNCHANGED <<config, phase, timer, key, late, request, missed, quiet>>

\* With its data or without.
RedisUp ==
    /\ redis = "down"
    /\ redis' = "up"
    /\ \/ UNCHANGED <<key, missed>>
       \/ key' = [n \in Names |-> 0] /\ missed' = [w \in Workers |-> TTL]
    /\ UNCHANGED <<config, phase, timer, late, request, faults, quiet>>

\* Time passes when no write is due and none can be answered; a broken
\* connection (a call from an earlier tick) may hang.
Patient(w) ==
    /\ phase[w] = "asleep" => timer[w] > 0
    /\ phase[w] = "setting" => /\ redis = "up" => timer[w] > 0
                               /\ w \in embedded => timer[w] < Timeout

Tick ==
    /\ \A w \in Workers : Patient(w)
    /\ timer' = [w \in Workers |->
                    IF phase[w] = "asleep" THEN timer[w] - 1
                    ELSE IF phase[w] = "setting" THEN Least(timer[w] + 1, TTL)
                    ELSE timer[w]]
    /\ key' = [n \in Names |-> IF key[n] > 0 THEN key[n] - 1 ELSE 0]
    /\ late' = {}
    /\ quiet' = IF \A w \in Workers : phase[w] = "off" THEN Least(quiet + 1, TTL) ELSE 0
    /\ UNCHANGED <<config, phase, redis, request, faults, missed>>

----------------------------------------------------------------------------
(* The readiness probe                                                     *)

CheckDatabase ==
    /\ probe.step = "idle"
    /\ \E ok \in BOOLEAN :
        /\ IF ok THEN UNCHANGED faults ELSE Fault
        /\ probe' = [Idle EXCEPT !.step = "redis", !.database = ok]
    /\ answer' = "none"
    /\ UNCHANGED <<config, phase, timer, store, missed, quiet>>

Ping ==
    /\ probe.step = "redis" /\ redis = "up"
    /\ probe' = [probe EXCEPT !.step = "scan", !.left = {name[w] : w \in Workers}]
    /\ UNCHANGED <<config, phase, timer, store, answer, faults, missed, quiet>>

\* The embedded worker's task must not be done, whoever else is alive.
TaskAlive == \A w \in embedded : phase[w] # "off"

\* SCAN returns a name, in any order, and EXISTS confirms it; a key that comes
\* back after SCAN has passed it is missed.
Visit(n) ==
    /\ probe.step = "scan" /\ n \in probe.left /\ redis = "up"
    /\ probe' = IF key[n] > 0
                THEN [probe EXCEPT !.step = "groups", !.worker = TaskAlive, !.left = {}]
                ELSE [probe EXCEPT !.left = @ \ {n}]
    /\ UNCHANGED <<config, phase, timer, store, answer, faults, missed, quiet>>

\* Every name was visited, or Redis fails: either way no worker was found.
GiveUp ==
    /\ probe.step \in {"redis", "scan"}
    /\ \/ probe.step = "scan" /\ probe.left = {} /\ UNCHANGED faults
       \/ redis = "down" /\ UNCHANGED faults
       \/ Fault
    /\ probe' = Idle
    /\ answer' = "degraded"
    /\ UNCHANGED <<config, phase, timer, store, missed, quiet>>

\* With the queue's figures, or without when Redis fails now.
Answer ==
    /\ probe.step = "groups"
    /\ answer' = IF probe.database /\ probe.worker THEN "ready" ELSE "degraded"
    /\ probe' = Idle
    /\ UNCHANGED <<config, phase, timer, store, faults, missed, quiet>>

----------------------------------------------------------------------------
Hopeful == quiet < TTL /\ TaskAlive

Observe ==
    hope' = IF probe'.step = "idle" THEN answer' = "ready" /\ hope
            ELSE Hopeful' \/ (probe.step # "idle" /\ hope)

Heartbeat(w) ==
    Start(w) \/ Send(w) \/ Beat(w) \/ BeatFails(w) \/ Stop(w) \/ Delete(w) \/ DeleteFails(w)
             \/ Crash(w)

Health == CheckDatabase \/ Ping \/ (\E n \in Names : Visit(n)) \/ GiveUp \/ Answer

Next ==
    /\ \/ \E w \in Workers : Heartbeat(w)
       \/ \E n \in Names : Receive(n)
       \/ RedisDown \/ RedisUp \/ Tick
       \/ Health
    /\ Observe

Spec == Init /\ [][Next]_vars

\* The event loops run, Redis comes back and calls that hang fail in the end;
\* a monitor keeps probing.
Fairness ==
    /\ WF_vars(Tick /\ Observe)
    /\ WF_vars(RedisUp /\ Observe)
    /\ WF_vars(Health /\ Observe)
    /\ \A w \in Workers :
        /\ WF_vars(Send(w) /\ Observe)
        /\ WF_vars((Beat(w) \/ BeatFails(w)) /\ Observe)
        /\ WF_vars((Delete(w) \/ DeleteFails(w)) /\ Observe)

FairSpec == Spec /\ Fairness

----------------------------------------------------------------------------
(* Properties                                                              *)

TypeOK ==
    /\ name \in [Workers -> Names]
    /\ embedded \subseteq Workers
    /\ phase \in [Workers -> {"off", "asleep", "setting", "deleting"}]
    /\ timer \in [Workers -> 0 .. TTL]
    /\ key \in [Names -> 0 .. TTL]
    /\ late \subseteq Names
    /\ redis \in {"up", "down"}
    /\ probe \in [step : {"idle", "redis", "scan", "groups"}, database : BOOLEAN,
                  worker : BOOLEAN, left : SUBSET Names]
    /\ answer \in {"none", "ready", "degraded"}
    /\ faults \in 0 .. MaxFaults
    /\ missed \in [Workers -> 0 .. TTL]
    /\ quiet \in 0 .. TTL
    /\ hope \in BOOLEAN

\* "Readiness": the probe answers ready only if, at some moment since it
\* began, some worker had been alive less than a heartbeat's lifetime ago and
\* the task of the API process, where it has one, had not ended. So a write
\* that overtakes or is overtaken by the shutdown's delete, a kill, a namesake
\* or an outage never makes a dead worker look alive for longer.
ReadyMeansAlive == answer = "ready" => hope

\* A worker that runs vanishes from the probe's sight only if its latest writes
\* failed often enough to use up the lifetime of its key, each failure costing a
\* sleep and a timeout; unless Redis lost its data, a namesake deleted the key
\* or a call without a timeout hung, it takes (TTL - Interval) /
\* (Interval + Timeout) failures in a row.
VisibleUnlessMissed ==
    \A w \in Running :
        key[name[w]] = 0 =>
            Interval + missed[w] * (Interval + Timeout)
                + (IF phase[w] = "setting" THEN timer[w] ELSE 0) >= TTL

\* Once outages and shutdowns end, a worker that keeps running makes the probe
\* answer ready, unless the API process lost a worker task of its own.
RunningIsReady ==
    \A w \in Workers :
        w \in Running ~> (answer = "ready" \/ w \notin Running \/ ~TaskAlive)
==============================================================================
