-------------------------------- MODULE Seeding --------------------------------
(***************************************************************************)
(* Seeding and reading campaigns while events are ingested: generate of    *)
(* scripts/generate_synthetic_data.py, which POST /system/seed and         *)
(* /system/seed-live call, and the two reads of a campaign behind          *)
(* GET /campaigns/{id}/analytics, /analyze and /recommend.                 *)
(*                                                                         *)
(* A seed commits three transactions: customers, insert-if-absent; the     *)
(* campaigns with their metrics, refreshed; and events, insert-if-absent,  *)
(* with outbox rows for those that were new. A statement of many rows      *)
(* inserts one row after the other, and waits for a key as Ingestion's do. *)
(* It has no savepoint. The outbox rows are added with the statement's     *)
(* rows instead of after them: nobody sees either before the commit.       *)
(*                                                                         *)
(* Metric rows are known by the refresh that wrote them.                   *)
(***************************************************************************)
EXTENDS Ingestion

CONSTANTS
    SeedRows,     \* the rows of a seed's events, and of their customers
    NCampaigns    \* campaigns of a seed

Campaigns == 1 .. NCampaigns

ASSUME SeedingAssumption ==
    /\ SeedRows \in Seq(Items \ Unstorable) \ {<<>>}
    /\ NCampaigns \in Nat \ {0}

VARIABLES
    campaigns,    \* which refresh wrote each committed row of campaigns, 0 if none
    metrics,      \* which refreshes wrote its committed rows of campaign_metrics
    phase,        \* the transaction of a seed, or a read
    locked,       \* the campaigns it has upserted, the first so many
    removed,      \* the metrics it has deleted, of each of them
    view,         \* the campaign row a read has found
    report        \* what the latest read returned

marketing == <<campaigns, metrics>>
progress == <<phase, locked, removed, view>>
seeding == <<marketing, progress, report>>

NoView == [campaign |-> 0, row |-> 0]
NoReport == [row |-> 0, metrics |-> {}]

SeedingInit ==
    /\ Init
    /\ campaigns = [c \in Campaigns |-> 0]
    /\ metrics = [c \in Campaigns |-> {}]
    /\ phase = [r \in Requests |-> "none"]
    /\ locked = [r \in Requests |-> 0]
    /\ removed = [r \in Requests |-> <<>>]
    /\ view = [r \in Requests |-> NoView]
    /\ report = NoReport

----------------------------------------------------------------------------
(* Seeds                                                                   *)

Seed(r) ==
    /\ phase[r] = "none"
    /\ Start(r, SeedRows, FALSE)
    /\ phase' = [phase EXCEPT ![r] = "customers"]
    /\ UNCHANGED <<marketing, locked, removed, view, report>>

SeedCustomer(r) ==
    /\ phase[r] = "customers" /\ at[r] = "customer"
    /\ ~Waits(r)
    /\ Finish(r, IF Item(r).customer \in customers
                 THEN wrote[r]
                 ELSE [wrote[r] EXCEPT !.customers = @ \cup {Item(r).customer}],
              result[r])
    /\ UNCHANGED <<tables, savepoints, clients, sent, faults, seeding>>

CommitCustomers(r) ==
    /\ phase[r] = "customers"
    /\ Publish(r)
    /\ phase' = [phase EXCEPT ![r] = "campaigns"]
    /\ UNCHANGED <<clients, sent, faults, marketing, locked, removed, view, report>>

\* Mutant: ON CONFLICT DO NOTHING, which locks no row that exists.
UpsertCampaignIfAbsent(r) ==
    LET c == locked[r] + 1 IN
    /\ phase[r] = "campaigns"
    /\ c \in Campaigns
    /\ Len(removed[r]) = locked[r]
    /\ \A q \in Requests \ {r} : campaigns[c] # 0 \/ locked[q] < c
    /\ locked' = [locked EXCEPT ![r] = c]
    /\ UNCHANGED <<vars, marketing, phase, removed, view, report>>

\* ON CONFLICT DO UPDATE waits for the row, or for the key of a new one, and
\* keeps it until the commit.
UpsertCampaign(r) ==
    LET c == locked[r] + 1 IN
    /\ phase[r] = "campaigns"
    /\ c \in Campaigns
    /\ Len(removed[r]) = locked[r]
    /\ \A q \in Requests \ {r} : locked[q] < c
    /\ locked' = [locked EXCEPT ![r] = c]
    /\ UNCHANGED <<vars, marketing, phase, removed, view, report>>

\* The DELETE sees what is committed when it starts. The campaign's new
\* metrics are inserted after it.
ReplaceMetrics(r) ==
    /\ phase[r] = "campaigns"
    /\ Len(removed[r]) < locked[r]
    /\ removed' = [removed EXCEPT ![r] = Append(@, metrics[locked[r]])]
    /\ UNCHANGED <<vars, marketing, phase, locked, view, report>>

\* The third transaction begins.
CommitCampaigns(r) ==
    /\ phase[r] = "campaigns"
    /\ Len(removed[r]) = NCampaigns
    /\ campaigns' = [c \in Campaigns |-> campaigns[c] + 1]
    /\ metrics' = [c \in Campaigns |-> (metrics[c] \ removed[r][c]) \cup {campaigns[c] + 1}]
    /\ phase' = [phase EXCEPT ![r] = "events"]
    /\ locked' = [locked EXCEPT ![r] = 0]
    /\ removed' = [removed EXCEPT ![r] = <<>>]
    /\ at' = [at EXCEPT ![r] = "event"]
    /\ todo' = [todo EXCEPT ![r] = SeedRows]
    /\ UNCHANGED <<tables, savepoints, wrote, saved, result, clients, sent, faults, view, report>>

\* Only the rows that RETURNING names get an outbox row.
SeedEvent(r) ==
    /\ phase[r] = "events" /\ at[r] = "event"
    /\ ~Waits(r)
    /\ IF IsNew(r)
       THEN MoveOn(r, "event",
                   [wrote[r] EXCEPT !.events = @ \cup {Item(r)}, !.outbox = @ \cup {Item(r)}],
                   [result[r] EXCEPT !.accepted = @ \cup {Item(r)}])
       ELSE MoveOn(r, "event", wrote[r], [result[r] EXCEPT !.duplicate = @ \cup {Item(r)}])
    /\ UNCHANGED <<tables, savepoints, clients, sent, faults, seeding>>

\* The answer does not say which events are new.
CommitEvents(r) ==
    /\ phase[r] = "events"
    /\ Publish(r)
    /\ phase' = [phase EXCEPT ![r] = "none"]
    /\ UNCHANGED <<clients, sent, faults, marketing, locked, removed, view, report>>

----------------------------------------------------------------------------
(* Reads                                                                   *)

\* The campaign's row is read, if there is one: otherwise 404.
Read(r) ==
    /\ phase[r] = "none" /\ at[r] = "idle"
    /\ sent < MaxRequests
    /\ sent' = sent + 1
    /\ phase' = [phase EXCEPT ![r] = "reading"]
    /\ \E c \in Campaigns :
        /\ campaigns[c] # 0
        /\ view' = [view EXCEPT ![r] = [campaign |-> c, row |-> campaigns[c]]]
    /\ UNCHANGED <<tables, clients, at, savepoints, todo, wrote, saved, result, faults,
                   marketing, locked, removed, report>>

\* Its metrics are read by a statement of their own, with its own snapshot.
ReadMetrics(r) ==
    /\ phase[r] = "reading"
    /\ report' = [row |-> view[r].row, metrics |-> metrics[view[r].campaign]]
    /\ phase' = [phase EXCEPT ![r] = "none"]
    /\ view' = [view EXCEPT ![r] = NoView]
    /\ UNCHANGED <<vars, marketing, locked, removed>>

----------------------------------------------------------------------------
(* Failures                                                                *)

\* Only the open transaction rolls back.
GiveUp(r) ==
    /\ Close(r)
    /\ phase' = [phase EXCEPT ![r] = "none"]
    /\ locked' = [locked EXCEPT ![r] = 0]
    /\ removed' = [removed EXCEPT ![r] = <<>>]
    /\ view' = [view EXCEPT ![r] = NoView]
    /\ UNCHANGED <<tables, clients, sent, marketing, report>>

\* A statement fails, by a deadlock for instance: 500, seed_failed.
FailSeed(r) ==
    /\ phase[r] \in {"customers", "events"}
    /\ Raises(r)
    /\ GiveUp(r)

\* The connection breaks, also after a commit that took effect.
BreakSeed(r) ==
    /\ phase[r] # "none"
    /\ faults < MaxFaults
    /\ faults' = faults + 1
    /\ GiveUp(r)

----------------------------------------------------------------------------
RunSeed(r) ==
    \/ SeedCustomer(r)
    \/ CommitCustomers(r)
    \/ UpsertCampaign(r)
    \/ ReplaceMetrics(r)
    \/ CommitCampaigns(r)
    \/ SeedEvent(r)
    \/ CommitEvents(r)
    \/ ReadMetrics(r)
    \/ FailSeed(r)

RunRequest(r) == phase[r] = "none" /\ Run(r) /\ UNCHANGED seeding

Request(r) ==
    /\ phase[r] = "none"
    /\ IngestEvent(r) \/ IngestBatch(r) \/ Break(r) \/ CommitUnconfirmed(r)
    /\ UNCHANGED seeding

SeedingNext == \E r \in Requests :
    Request(r) \/ RunRequest(r) \/ Seed(r) \/ Read(r) \/ RunSeed(r) \/ BreakSeed(r)

SeedingSpec == SeedingInit /\ [][SeedingNext]_<<vars, seeding>>

FairSpec ==
    SeedingSpec /\ \A r \in Requests : WF_<<vars, seeding>>(RunRequest(r) \/ RunSeed(r))

----------------------------------------------------------------------------
(* Properties                                                              *)

SeedingTypeOK ==
    /\ TypeOK
    /\ campaigns \in [Campaigns -> Nat]
    /\ metrics \in [Campaigns -> SUBSET Nat]
    /\ phase \in [Requests -> {"none", "customers", "campaigns", "events", "reading"}]
    /\ locked \in [Requests -> 0 .. NCampaigns]
    /\ removed \in [Requests -> Seq(SUBSET Nat)]
    /\ view \in [Requests -> [campaign : 0 .. NCampaigns, row : Nat]]
    /\ report \in [row : Nat, metrics : SUBSET Nat]

\* "Campaigns and their metrics are REFRESHED on every seed": however seeds
\* overlap or fail, a campaign has the metrics of one seed, the one that wrote
\* its row. A read, whose two statements may be on either side of a refresh,
\* gets the metrics of one seed too, never an older one than the row's.
MetricsOfOneSeed ==
    /\ \A c \in Campaigns : metrics[c] = IF campaigns[c] = 0 THEN {} ELSE {campaigns[c]}
    /\ report # NoReport => \E v \in report.metrics : /\ report.metrics = {v}
                                                     /\ v >= report.row

\* No request, seed or read waits for ever: circles of waiting transactions
\* are broken, campaigns are locked in one order, and an item that failed is
\* not tried again.
RequestsAnswered ==
    \A r \in Requests : (at[r] # "idle" \/ phase[r] # "none")
                            ~> (at[r] = "idle" /\ phase[r] = "none")
================================================================================
