----------------------------- MODULE RateLimiter -----------------------------
(***************************************************************************)
(* The sliding-window limit on ingested events (core/rate_limit.py), for   *)
(* the key of one client address.                                          *)
(*                                                                         *)
(* The script is atomic in Redis, but it takes the time from its caller:   *)
(* time.time() of an API process, read before the call. Clocks of several  *)
(* processes differ and calls take time, so the script may run with times  *)
(* out of order; Lag bounds by how much. Redis counts the expiry of the    *)
(* key on its own clock.                                                   *)
(***************************************************************************)
EXTENDS Integers, FiniteSets

CONSTANTS
    Calls,     \* concurrent calls of rate_limit_events
    Costs,     \* events per request
    Limit,     \* RATE_LIMIT_EVENTS_PER_MIN
    Window,    \* 60 seconds
    Lag,       \* the most a call's time is behind the time it takes effect
    MaxTime    \* bound: time

ASSUME LimiterAssumption ==
    /\ Costs \subseteq Nat \ {0}
    /\ Limit \in Nat \ {0}
    /\ Lag \in Nat
    /\ Window \in Nat
    /\ Window > Lag
    /\ MaxTime \in Nat

Times == 0 .. MaxTime
Expiry == Window + 1

VARIABLES
    clock,      \* the time in Redis, and of the fastest caller
    entries,    \* the sorted set: entries with each score
    expires,    \* when the key expires
    call,       \* the time and cost each call in flight has sent
    admitted    \* history: events admitted with each time

vars == <<clock, entries, expires, call, admitted>>

NoCall == [now |-> 0, cost |-> 0]

Init ==
    /\ clock = 0
    /\ entries = [t \in Times |-> 0]
    /\ expires = 0
    /\ call = [c \in Calls |-> NoCall]
    /\ admitted = [t \in Times |-> 0]

Pending(c) == call[c] # NoCall

\* The members with the times in S of a sorted set that has counts[t] members
\* with time t, each under a name of its own, and how many they are.
Members(counts, S) == UNION {{t} \X (1 .. counts[t]) : t \in S}
Total(counts, S) == Cardinality(Members(counts, S))

----------------------------------------------------------------------------
\* Mutant: a batch larger than the limit is left to the script.
SendAny(c) ==
    /\ ~Pending(c)
    /\ \E now \in Times, cost \in Costs :
        /\ now \in clock - Lag .. clock
        /\ call' = [call EXCEPT ![c] = [now |-> now, cost |-> cost]]
    /\ UNCHANGED <<clock, entries, expires, admitted>>

\* A request larger than the limit is refused at once and sends nothing.
Send(c) ==
    /\ ~Pending(c)
    /\ \E now \in Times, cost \in Costs :
        /\ now \in clock - Lag .. clock
        /\ cost <= Limit
        /\ call' = [call EXCEPT ![c] = [now |-> now, cost |-> cost]]
    /\ UNCHANGED <<clock, entries, expires, admitted>>

\* Mutant: the window is not pruned, only expired as a whole.
KeptAll(now) == entries

\* Mutant: an entry leaves one unit of time too early.
KeptTooShort(now) == [t \in Times |-> IF t <= now - Window + 1 THEN 0 ELSE entries[t]]

\* ZREMRANGEBYSCORE -inf now-60.
Kept(now) == [t \in Times |-> IF t <= now - Window THEN 0 ELSE entries[t]]

\* ZCARD + cost > limit.
Fits(c) == Total(Kept(call[c].now), Times) + call[c].cost <= Limit

Return(c) == call' = [call EXCEPT ![c] = NoCall]

\* The script adds one entry per event, all with the caller's time.
Admit(c) ==
    LET now == call[c].now IN
    /\ Pending(c)
    /\ Fits(c)
    /\ entries' = [Kept(now) EXCEPT ![now] = @ + call[c].cost]
    /\ expires' = clock + Expiry
    /\ admitted' = [admitted EXCEPT ![now] = @ + call[c].cost]
    /\ Return(c)
    /\ UNCHANGED clock

\* The script returns 0, and has pruned the window all the same.
Reject(c) ==
    /\ Pending(c)
    /\ ~Fits(c)
    /\ entries' = Kept(call[c].now)
    /\ Return(c)
    /\ UNCHANGED <<clock, expires, admitted>>

\* Redis does not answer: the request passes, uncounted.
FailOpen(c) ==
    /\ Pending(c)
    /\ Return(c)
    /\ UNCHANGED <<clock, entries, expires, admitted>>

\* Time passes, but no call is ever more than Lag behind.
Tick ==
    /\ clock < MaxTime
    /\ \A c \in Calls : Pending(c) => clock < call[c].now + Lag
    /\ clock' = clock + 1
    /\ entries' = IF clock' >= expires THEN [t \in Times |-> 0] ELSE entries
    /\ UNCHANGED <<expires, call, admitted>>

Next ==
    \/ \E c \in Calls : Send(c) \/ Admit(c) \/ Reject(c) \/ FailOpen(c)
    \/ Tick

Spec == Init /\ [][Next]_vars

----------------------------------------------------------------------------
(* Properties                                                              *)

TypeOK ==
    /\ clock \in Times
    /\ entries \in [Times -> 0 .. Limit]
    /\ expires \in 0 .. MaxTime + Expiry
    /\ \A c \in Calls : Pending(c) =>
        call[c] \in [now : Times, cost : {k \in Costs : k <= Limit}]
    /\ admitted \in [Times -> Nat]
    /\ \A t \in Times : entries[t] <= admitted[t]

\* "Atomic sliding-window limiter": whatever the order in which calls take
\* effect, no stretch of time as long as the window less the lag has more
\* events admitted in it than the limit. With exact clocks, none as long as
\* the window has.
SlidingWindow ==
    \A t \in -1 .. MaxTime :
        Total(admitted, {u \in Times : t < u /\ u <= t + Window - Lag}) <= Limit

\* A request is refused for what was admitted in its own window only: a client
\* that stays below the limit is never refused, however calls are reordered.
RefusedOnlyAtLimit ==
    [][\A c \in Calls : Reject(c) =>
        Total(admitted, {u \in Times : u > call[c].now - Window}) + call[c].cost > Limit]_vars
=============================================================================
