------------------------------- MODULE Audience -------------------------------
(***************************************************************************)
(* One audience preview (api/audience.py): the candidates stream out of a  *)
(* single SELECT (CustomerRepo.candidate_batches) through a heap of        *)
(* bounded size, while workers go on changing customers, scores and sends. *)
(*                                                                         *)
(* The SELECT sees the tables as they were when it started, however many   *)
(* batches the cursor fetches later, in no particular order. Previews      *)
(* write nothing, so several of them do not meet: one is enough.           *)
(*                                                                         *)
(* An optional filter is a set of at most one value. Python's heapq keeps  *)
(* the least entry at the root; heap is the set of the entries in it.      *)
(***************************************************************************)
EXTENDS Integers, FiniteSets, Sequences

CONSTANTS
    Customers,    \* customer ids, as numbers: they break ties
    Channels,     \* channels of campaigns, "web" among them
    Rows,         \* contents a customer's row and what belongs to it can have
    Bodies,       \* RecommendRequest: channel, audience_size and filters
    Day,          \* 24 hours
    Floor, Ceiling,  \* -50 and 200, the range of a displayed score
    Decay,        \* Decay[d]: the factor a score loses in d units of time
    MaxTime       \* bound: time

Times == 0 .. MaxTime
Never == -1
Columns == Channels \ {"web"}

ASSUME AudienceAssumption ==
    /\ IsFiniteSet(Customers)
    /\ Customers \subseteq Nat
    /\ \A row \in Rows :
        /\ row.score \in Int                        \* engagement_scores.score, or 0
        /\ row.clock \in Times \cup {Never}         \* its last_updated
        /\ row.optIns \subseteq Columns              \* customers.*_opt_in
        /\ row.lastActive \in Times \cup {Never}    \* customers.last_active
        /\ row.converted \in BOOLEAN                \* customers.has_converted
        /\ row.sends \subseteq Channels \X Times     \* processed send events
    /\ \A b \in Bodies :
        /\ b.channel \in Channels
        /\ b.size \in Nat \ {0}
        /\ b.minScore \subseteq Int
        /\ b.inactive \subseteq Nat
        /\ b.converted \subseteq BOOLEAN
    /\ Day \in Nat
    /\ Floor \in Int
    /\ Ceiling \in Int
    /\ MaxTime \in Nat
    /\ Decay \in [Times -> Nat \ {0}]

VARIABLES
    time,       \* the clock of the API process
    db,         \* what is committed for each customer
    at,         \* where the request is
    body,       \* its body
    now,        \* its reference time
    cutoff,     \* filters["min_last_active"]
    selected,   \* what its SELECT found: a row for each eligible customer
    unread,     \* the customers among them that the cursor has yet to deliver
    heap,       \* the entries retained
    answer,     \* the ranking it returned
    willing     \* history: who could be contacted when the request began

tables == <<time, db>>
filters == <<body, now, cutoff>>
vars == <<tables, at, filters, selected, unread, heap, answer, willing>>

Init ==
    /\ time = 0
    /\ db \in [Customers -> Rows]
    /\ at = "idle"
    /\ body \in Bodies
    /\ now = 0
    /\ cutoff = {}
    /\ selected = <<>>
    /\ unread = {}
    /\ heap = {}
    /\ answer = <<>>
    /\ willing = {}

----------------------------------------------------------------------------
(* Workers                                                                 *)

Tick ==
    /\ time < MaxTime
    /\ time' = time + 1
    /\ UNCHANGED <<db, at, filters, selected, unread, heap, answer, willing>>

\* A processed event changes the score, only ever withdraws consent, and adds
\* to the rest.
ProcessEvent(c) ==
    /\ \E row \in Rows :
        /\ row.clock >= db[c].clock
        /\ row.optIns \subseteq db[c].optIns
        /\ row.lastActive >= db[c].lastActive
        /\ db[c].converted => row.converted
        /\ db[c].sends \subseteq row.sends
        /\ db' = [db EXCEPT ![c] = row]
    /\ UNCHANGED <<time, at, filters, selected, unread, heap, answer, willing>>

----------------------------------------------------------------------------
(* The query                                                               *)

\* Mutant: the web channel needs no consent of its own, and asks for none.
OptInsWithoutWeb(row, channel) ==
    channel = "web" \/ channel \in row.optIns

\* Campaigns on the web go by the consent for email.
OptsIn(row, channel) ==
    (IF channel = "web" THEN "email" ELSE channel) \in row.optIns

\* A confirmed send on this channel in the 24 hours up to the reference time.
RecentlySent(row, channel) ==
    \E t \in Times : <<channel, t>> \in row.sends /\ now - Day <= t /\ t <= now

\* A NULL last_active is excluded by the filter.
Eligible(row) ==
    /\ OptsIn(row, body.channel)
    /\ ~RecentlySent(row, body.channel)
    /\ \A t \in cutoff : row.lastActive # Never /\ row.lastActive >= t
    /\ \A b \in body.converted : row.converted = b

\* score_at: decays from last_updated, never before it, and is clamped. In
\* units of 1 / Decay[MaxTime], so that no division rounds.
Decayed(row) ==
    row.score * Decay[IF row.clock # Never /\ row.clock < now
                      THEN MaxTime - (now - row.clock)
                      ELSE MaxTime]

Clamp(value, low, high) ==
    IF value < low THEN low ELSE IF value > high THEN high ELSE value

ScoreAt(row) == Clamp(Decayed(row), Floor * Decay[MaxTime], Ceiling * Decay[MaxTime])

\* ScoredCustomer, ordered by score and then by id.
Entry(c, row) == [score |-> ScoreAt(row), id |-> c]
Above(a, b) == a.score > b.score \/ (a.score = b.score /\ a.id > b.id)

\* Clamping comes before the filter on the score.
ScoresEnough(entry) == \A m \in body.minScore : entry.score >= m * Decay[MaxTime]

----------------------------------------------------------------------------
(* The request                                                             *)

\* Consent given, and no send on this channel in the 24 hours until then.
Contactable(row, channel) ==
    /\ (IF channel = "web" THEN "email" ELSE channel) \in row.optIns
    /\ \A send \in row.sends :
        send[1] = channel => send[2] > time \/ time - send[2] > Day

Begin ==
    /\ at = "idle"
    /\ body' \in Bodies
    /\ now' = time
    /\ willing' = {c \in Customers : Contactable(db[c], body'.channel)}
    /\ at' = "begun"
    /\ UNCHANGED <<tables, cutoff, selected, unread, heap, answer>>

\* parse_conditions reads the clock a second time.
ParseConditions ==
    /\ at = "begun"
    /\ cutoff' = {time - d : d \in body.inactive}
    /\ at' = "parsed"
    /\ UNCHANGED <<tables, body, now, selected, unread, heap, answer, willing>>

Select ==
    /\ at = "parsed"
    /\ selected' = [c \in {c \in Customers : Eligible(db[c])} |-> db[c]]
    /\ unread' = DOMAIN selected'
    /\ at' = "reading"
    /\ UNCHANGED <<tables, filters, heap, answer, willing>>

\* Mutant: a batch holds what is committed when it is fetched.
FetchedLate(c) == db[c]

Fetched(c) == selected[c]

IsRoot(e) == e \in heap /\ \A h \in heap : h # e => Above(h, e)

\* Mutant: one entry more than asked for.
PushOneMore(e) ==
    /\ Cardinality(heap) <= body.size
    /\ heap' = heap \cup {e}

Push(e) ==
    /\ Cardinality(heap) < body.size
    /\ heap' = heap \cup {e}

\* Mutant: entries of equal score stay in the order of arrival.
BeatsByScore(e, root) == e.score > root.score

Beats(e, root) == Above(e, root)

Replace(e) ==
    /\ Cardinality(heap) >= body.size
    /\ \E root \in heap :
        /\ IsRoot(root)
        /\ Beats(e, root)
        /\ heap' = (heap \ {root}) \cup {e}

Skip(e) ==
    /\ \/ ~ScoresEnough(e)
       \/ /\ Cardinality(heap) >= body.size
          /\ \E root \in heap : IsRoot(root) /\ ~Beats(e, root)
    /\ UNCHANGED heap

\* The next row that the cursor delivers.
Offer(c) ==
    LET e == Entry(c, Fetched(c)) IN
    /\ at = "reading"
    /\ c \in unread
    /\ unread' = unread \ {c}
    /\ \/ ScoresEnough(e) /\ (Push(e) \/ Replace(e))
       \/ Skip(e)
    /\ UNCHANGED <<tables, at, filters, selected, answer, willing>>

\* sorted(heap, reverse=True): entries never tie, so there is one such order.
Ranking(entries) ==
    CHOOSE r \in [1 .. Cardinality(entries) -> entries] :
        \A i, j \in DOMAIN r : i < j => Above(r[i], r[j])

Answer ==
    /\ at = "reading"
    /\ unread = {}
    /\ answer' = Ranking(heap)
    /\ at' = "answered"
    /\ UNCHANGED <<tables, filters, selected, unread, heap, willing>>

\* The request is over: answered, failed in the database, or given up by the
\* client. The cursor is closed.
Close ==
    /\ at # "idle"
    /\ at' = "idle"
    /\ now' = 0
    /\ cutoff' = {}
    /\ selected' = <<>>
    /\ unread' = {}
    /\ heap' = {}
    /\ answer' = <<>>
    /\ willing' = {}
    /\ UNCHANGED <<tables, body>>

Next ==
    \/ Tick
    \/ Begin
    \/ ParseConditions
    \/ Select
    \/ Answer
    \/ Close
    \/ \E c \in Customers : ProcessEvent(c) \/ Offer(c)

Spec == Init /\ [][Next]_vars

----------------------------------------------------------------------------
(* Properties                                                              *)

TypeOK ==
    /\ time \in Times
    /\ db \in [Customers -> Rows]
    /\ at \in {"idle", "begun", "parsed", "reading", "answered"}
    /\ body \in Bodies
    /\ now \in 0 .. time
    /\ DOMAIN selected \subseteq Customers
    /\ selected \in [DOMAIN selected -> Rows]
    /\ unread \subseteq DOMAIN selected
    /\ heap \subseteq [score : Int, id : Customers]
    /\ IsFiniteSet(heap)
    /\ Cardinality(heap) <= body.size

\* What the request should choose from: the rows of one instant, with every
\* score at one reference time.
Qualified(C) == {e \in {Entry(c, selected[c]) : c \in C} : ScoresEnough(e)}

\* top holds the body.size greatest entries of all, or everything.
IsTop(top, all) ==
    /\ top \subseteq all
    /\ Cardinality(top) <= body.size
    /\ top # all => Cardinality(top) = body.size
    /\ \A e \in top : \A other \in all \ top : Above(e, other)

\* The heap never loses one of the greatest entries offered so far, whatever
\* the order in which the rows arrive, ties included (topk.py, "the heap holds
\* exactly the K largest").
HeapIsTop ==
    at \in {"reading", "answered"} => IsTop(heap, Qualified(DOMAIN selected \ unread))

\* "Evaluated at one score reference time": the answer ranks the best eligible
\* customers as they were at one instant, best first and each once, although
\* workers changed scores, consent and sends between two batches.
BestFirst ==
    at = "answered" =>
        /\ IsTop({answer[i] : i \in DOMAIN answer}, Qualified(DOMAIN selected))
        /\ \A i, j \in DOMAIN answer : i < j => Above(answer[i], answer[j])

\* Nobody is ranked who had withdrawn consent before the request began, or
\* whose confirmed send on this channel was then less than 24 hours old.
OnlyTheWilling == \A e \in heap : e.id \in willing
==============================================================================
