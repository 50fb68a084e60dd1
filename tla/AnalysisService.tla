--------------------------- MODULE AnalysisService ---------------------------
(***************************************************************************)
(* The circuit breaker in front of the language model (ai/service.py):     *)
(* AnalysisService.analyze, called by any number of requests of one API    *)
(* process.                                                                *)
(*                                                                         *)
(* A request awaits only the provider: nothing under the lock awaits, so   *)
(* what happens before the call and after it is one step each. Calls that  *)
(* started before the circuit opened (stragglers) end in any state of it.  *)
(* A request that gets the fallback without a call changes nothing and has *)
(* no action. Time is abstract: the cooldown ends at any moment.           *)
(***************************************************************************)
EXTENDS Naturals

CONSTANTS
    Requests,     \* concurrent requests
    Threshold,    \* LLM_CIRCUIT_BREAKER_THRESHOLD
    MaxFailures   \* bound: failures counted without a success in between

ASSUME BreakerAssumption == Threshold \in Nat \ {0} /\ MaxFailures \in Nat

VARIABLES
    failures,   \* AnalysisService.failures
    circuit,    \* opened_at: none, or younger or older than the cooldown
    probing,    \* AnalysisService.probing
    call,       \* the provider call each request is awaiting
    streak      \* history: failures since the latest success, whoever's

vars == <<failures, circuit, probing, call, streak>>

Init ==
    /\ failures = 0
    /\ circuit = "closed"
    /\ probing = FALSE
    /\ call = [r \in Requests |-> "none"]
    /\ streak = 0

----------------------------------------------------------------------------
\* The circuit is closed: the request calls the provider.
Admit(r) ==
    /\ call[r] = "none"
    /\ circuit = "closed"
    /\ call' = [call EXCEPT ![r] = "plain"]
    /\ UNCHANGED <<failures, circuit, probing, streak>>

\* Half open: after the cooldown one request at a time probes the provider.
Probe(r) ==
    /\ call[r] = "none"
    /\ circuit = "cooled"
    /\ ~probing
    /\ probing' = TRUE
    /\ call' = [call EXCEPT ![r] = "probe"]
    /\ UNCHANGED <<failures, circuit, streak>>

\* Mutant: every request that ends makes room for a probe.
ReleaseByAnyone(r) ==
    /\ call' = [call EXCEPT ![r] = "none"]
    /\ probing' = FALSE

\* The finally clause.
Release(r) ==
    /\ call' = [call EXCEPT ![r] = "none"]
    /\ probing' = (probing /\ call[r] # "probe")

\* Mutant: a success takes one failure back.
SucceedByOne(r) ==
    /\ call[r] # "none"
    /\ IF call[r] = "probe" \/ circuit = "closed"
       THEN failures' = failures - 1 /\ circuit' = "closed"
       ELSE UNCHANGED <<failures, circuit>>
    /\ streak' = 0
    /\ Release(r)

\* Mutant: a success closes the circuit and forgets to reset the count.
SucceedWithoutReset(r) ==
    /\ call[r] # "none"
    /\ IF call[r] = "probe" \/ circuit = "closed"
       THEN circuit' = "closed" /\ UNCHANGED failures
       ELSE UNCHANGED <<failures, circuit>>
    /\ streak' = 0
    /\ Release(r)

\* Mutant: any success closes the circuit.
SucceedAlwaysCloses(r) ==
    /\ call[r] # "none"
    /\ failures' = 0
    /\ circuit' = "closed"
    /\ streak' = 0
    /\ Release(r)

\* A straggler's success does not override a circuit opened since.
Succeed(r) ==
    /\ call[r] # "none"
    /\ IF call[r] = "probe" \/ circuit = "closed"
       THEN failures' = 0 /\ circuit' = "closed"
       ELSE UNCHANGED <<failures, circuit>>
    /\ streak' = 0
    /\ Release(r)

\* An error, a timeout, or an answer that cannot be checked. A straggler's
\* failure counts too, and restarts the cooldown of an open circuit.
Fail(r) ==
    /\ call[r] # "none"
    /\ failures < MaxFailures
    /\ failures' = failures + 1
    /\ circuit' = IF call[r] = "probe" \/ failures' >= Threshold THEN "cooling" ELSE circuit
    /\ streak' = streak + 1
    /\ Release(r)

\* The client went away: neither a success nor a failure.
Cancel(r) ==
    /\ call[r] # "none"
    /\ Release(r)
    /\ UNCHANGED <<failures, circuit, streak>>

\* LLM_CIRCUIT_BREAKER_COOLDOWN_SEC have passed since opened_at.
Cooldown ==
    /\ circuit = "cooling"
    /\ circuit' = "cooled"
    /\ UNCHANGED <<failures, probing, call, streak>>

Next ==
    \/ \E r \in Requests : Admit(r) \/ Probe(r) \/ Succeed(r) \/ Fail(r) \/ Cancel(r)
    \/ Cooldown

Spec == Init /\ [][Next]_vars

----------------------------------------------------------------------------
(* Properties                                                              *)

TypeOK ==
    /\ failures \in Nat
    /\ circuit \in {"closed", "cooling", "cooled"}
    /\ probing \in BOOLEAN
    /\ call \in [Requests -> {"none", "plain", "probe"}]
    /\ streak \in Nat

Probes == {r \in Requests : call[r] = "probe"}

\* service.py, "one half-open recovery probe": at most one probe is in flight,
\* only at an open circuit, and the flag is set exactly while it is. So
\* neither a straggler nor a cancelled probe admits a second one or locks the
\* circuit open for ever.
OneProbe ==
    /\ probing <=> Probes # {}
    /\ \A p, q \in Probes : p = q
    /\ probing => circuit # "closed"

\* SYSTEM_DESIGN 3, "trips after 3 consecutive errors": a closed circuit opens
\* with the error that is the Threshold-th in a row and not before, whoever's
\* they are, and one that closes starts with none. What an open circuit does is
\* not said: a straggler's success ends the row and leaves it open.
TripsOnConsecutiveErrors ==
    [][/\ circuit = "closed" => (circuit' # "closed" <=> streak' >= Threshold)
       /\ circuit # "closed" /\ circuit' = "closed" => streak' = 0]_vars

\* "An in-flight success must not override a newer open circuit": only a
\* probe that ends closes it.
OnlyProbeCloses ==
    [][circuit # "closed" /\ circuit' = "closed" =>
            \E r \in Requests : call[r] = "probe" /\ call'[r] = "none"]_vars
=============================================================================
