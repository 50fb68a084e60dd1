--------------------------- MODULE EventLifecycle ---------------------------
(***************************************************************************)
(* What the event pipeline promises about one event, with every queue,     *)
(* worker, lock and crash left out.                                        *)
(*                                                                         *)
(* An event is accepted once (its row commits in the events table), is     *)
(* then either applied to its customer's aggregate or put in the           *)
(* dead-letter table, and an operator may requeue a dead-lettered event.   *)
(* The effect of an event reaches its customer at most once, whatever the  *)
(* number of deliveries, workers, failures and replays.                    *)
(*                                                                         *)
(* EventProcessing (row locks and transactions) is shown to implement this *)
(* module; EventPipeline (outbox, stream, workers) is built on it.         *)
(***************************************************************************)
EXTENDS Naturals, FiniteSets

CONSTANTS
    Events,      \* event ids that clients submit to the ingestion API
    Foreign,     \* ids of stream messages that have no row in the events table
    Customers,   \* customers.id
    CustomerOf   \* events.customer_id of each event

ASSUME LifecycleAssumption ==
    /\ IsFiniteSet(Events)
    /\ Events \cap Foreign = {}
    /\ CustomerOf \in [Events -> Customers]

VARIABLES
    status,   \* events.status, "absent" while there is no row
    tally,    \* events applied to each customer's aggregate
    dead      \* dead letters of each id that have not been replayed

lifecycleVars == <<status, tally, dead>>

Ids == Events \cup Foreign
Statuses == {"absent", "pending", "processed", "failed"}

LifecycleTypeOK ==
    /\ status \in [Events -> Statuses]
    /\ tally \in [Customers -> Nat]
    /\ dead \in [Ids -> Nat]

LifecycleInit ==
    /\ status = [e \in Events |-> "absent"]
    /\ tally = [c \in Customers |-> 0]
    /\ dead = [id \in Ids |-> 0]

----------------------------------------------------------------------------
\* The event's row commits, with its outbox row.
Accept(e) ==
    /\ status[e] = "absent"
    /\ status' = [status EXCEPT ![e] = "pending"]
    /\ UNCHANGED <<tally, dead>>

\* The event's effect on its customer commits together with its status.
Apply(e) ==
    /\ status[e] = "pending"
    /\ status' = [status EXCEPT ![e] = "processed"]
    /\ tally' = [tally EXCEPT ![CustomerOf[e]] = @ + 1]
    /\ UNCHANGED dead

\* Retries are exhausted: the event fails and gets a dead letter.
DeadLetter(e) ==
    /\ status[e] = "pending"
    /\ status' = [status EXCEPT ![e] = "failed"]
    /\ dead' = [dead EXCEPT ![e] = @ + 1]
    /\ UNCHANGED tally

\* A payload that names no durable event gets a dead letter of its own.
Reject(f) ==
    /\ dead' = [dead EXCEPT ![f] = @ + 1]
    /\ UNCHANGED <<status, tally>>

\* An operator replays the dead letter of a failed event.
Requeue(e) ==
    /\ status[e] = "failed"
    /\ dead[e] > 0
    /\ status' = [status EXCEPT ![e] = "pending"]
    /\ dead' = [dead EXCEPT ![e] = @ - 1]
    /\ UNCHANGED tally

LifecycleNext ==
    \/ \E e \in Events : Accept(e) \/ Apply(e) \/ DeadLetter(e) \/ Requeue(e)
    \/ \E f \in Foreign : Reject(f)

LifecycleSpec == LifecycleInit /\ [][LifecycleNext]_lifecycleVars
=============================================================================
