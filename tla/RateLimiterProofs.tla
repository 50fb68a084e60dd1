--------------------------- MODULE RateLimiterProofs ---------------------------
(***************************************************************************)
(* Proofs about the rate limiter, for any number of concurrent calls, any  *)
(* costs, limit, window and lag.                                           *)
(*                                                                         *)
(* No call is more than Lag behind the clock when it takes effect, so what *)
(* it prunes is at least a window old, and so is all that an expiry of the *)
(* key removes: in the last window the sorted set lists every admission    *)
(* (LimiterInv). A stretch of Window - Lag that holds the time of a call   *)
(* lies in that window, so the script's count bounds it.                   *)
(***************************************************************************)
EXTENDS RateLimiter, FiniteSetTheorems, TLAPS

Counts == [Times -> Nat]

----------------------------------------------------------------------------
(* Counting the members of a sorted set                                    *)

LEMMA MembersFinite ==
    ASSUME NEW counts \in Counts, NEW S \in SUBSET Times
    PROVE  IsFiniteSet(Members(counts, S)) /\ Total(counts, S) \in Nat
<1> DEFINE parts == {{t} \X (1 .. counts[t]) : t \in S}
           part == [t \in S |-> {t} \X (1 .. counts[t])]
<1>1. IsFiniteSet(S)
  <2>1. IsFiniteSet(Times)
    BY LimiterAssumption, FS_Interval DEF Times
  <2>2. QED
    BY <2>1, FS_Subset
<1>2. IsFiniteSet(parts)
  <2>1. part \in Surjection(S, parts)
    BY DEF Surjection
  <2> HIDE DEF part, parts
  <2>2. QED
    BY <1>1, <2>1, FS_Surjection
<1>3. ASSUME NEW t \in S PROVE IsFiniteSet({t} \X (1 .. counts[t]))
  <2>1. counts[t] \in Int
    BY DEF Counts
  <2>2. IsFiniteSet({t})
    BY FS_Singleton
  <2>3. IsFiniteSet(1 .. counts[t])
    BY <2>1, FS_Interval
  <2>4. QED
    BY <2>2, <2>3, FS_Product
<1>4. \A P \in parts : IsFiniteSet(P)
  BY <1>3
<1>5. IsFiniteSet(UNION parts)
  <2> HIDE DEF parts
  <2> QED
    BY <1>2, <1>4, FS_UNION
<1>6. QED
  BY <1>5, FS_CardinalityType DEF Members, Total

LEMMA MemberOf ==
    ASSUME NEW counts, NEW S, NEW x
    PROVE  x \in Members(counts, S) <=> \E t \in S : \E i \in 1 .. counts[t] : x = <<t, i>>
BY DEF Members

\* More members with each time, in more times, are more members.
LEMMA TotalMonotone ==
    ASSUME NEW f \in Counts, NEW g \in Counts, NEW S \in SUBSET Times, NEW T \in SUBSET Times,
           \A t \in S : f[t] # 0 => t \in T /\ f[t] <= g[t]
    PROVE  Total(f, S) <= Total(g, T)
<1>1. ASSUME NEW x \in Members(f, S) PROVE x \in Members(g, T)
  <2>0. PICK t \in S : \E i \in 1 .. f[t] : x = <<t, i>>
    BY MemberOf
  <2>1. PICK i \in 1 .. f[t] : x = <<t, i>>
    BY <2>0
  <2>2. f[t] \in Nat /\ g[t] \in Nat
    BY DEF Counts
  <2>3. t \in T /\ i \in 1 .. g[t]
    BY <2>2
  <2>4. QED
    BY <2>1, <2>3, MemberOf
<1>2. Members(f, S) \in SUBSET Members(g, T)
  BY <1>1
<1>3. QED
  BY <1>2, MembersFinite, FS_Subset DEF Total

\* Members added with one time are that many more at most.
LEMMA TotalAdded ==
    ASSUME NEW f \in Counts, NEW S \in SUBSET Times, NEW x \in Times, NEW k \in Nat,
           NEW g, g = [f EXCEPT ![x] = @ + k]
    PROVE  g \in Counts /\ Total(g, S) <= Total(f, S) + k
<1> DEFINE new == {x} \X (f[x] + 1 .. f[x] + k)
<1>1. f[x] \in Nat
  BY DEF Counts
<1>2. g \in Counts /\ \A t \in Times : g[t] = IF t = x THEN f[x] + k ELSE f[t]
  BY <1>1 DEF Counts
<1>3. IsFiniteSet(new) /\ Cardinality(new) = k
  <2>1. IsFiniteSet({x}) /\ Cardinality({x}) = 1
    BY FS_Singleton
  <2>2. /\ IsFiniteSet(f[x] + 1 .. f[x] + k)
        /\ Cardinality(f[x] + 1 .. f[x] + k) = k
    <3>1. PICK a \in Int, b \in Int : a = f[x] + 1 /\ b = f[x] + k
      BY <1>1
    <3>2. /\ IsFiniteSet(a .. b)
          /\ Cardinality(a .. b) = IF a > b THEN 0 ELSE b - a + 1
      BY <3>1, FS_Interval
    <3>3. (IF a > b THEN 0 ELSE b - a + 1) = k
      BY <1>1, <3>1
    <3>4. QED
      BY <3>1, <3>2, <3>3
  <2>3. IsFiniteSet(new) /\ Cardinality(new) = 1 * k
    BY <2>1, <2>2, FS_Product, ZenonT(20)
  <2>4. QED
    BY <2>3
<1>4. ASSUME NEW y \in Members(g, S) PROVE y \in Members(f, S) \cup new
  <2>0. PICK t \in S : \E i \in 1 .. g[t] : y = <<t, i>>
    BY <1>4 DEF Members
  <2>1. PICK i \in 1 .. g[t] : y = <<t, i>>
    BY <2>0
  <2>2. f[t] \in Nat /\ g[t] = IF t = x THEN f[x] + k ELSE f[t]
    BY <1>2 DEF Counts
  <2>3. CASE i \in 1 .. f[t]
    BY <2>1, <2>3, MemberOf
  <2>4. CASE i \notin 1 .. f[t]
    <3>1. t = x /\ i \in f[x] + 1 .. f[x] + k
      BY <1>1, <2>2, <2>4
    <3>2. QED
      BY <2>1, <3>1
  <2>5. QED
    BY <2>3, <2>4
<1>5. IsFiniteSet(Members(f, S)) /\ Total(f, S) \in Nat
  BY MembersFinite
<1> HIDE DEF new
<1>6. /\ IsFiniteSet(Members(f, S) \cup new)
      /\ Cardinality(Members(f, S) \cup new)
            = Total(f, S) + k - Cardinality(Members(f, S) \cap new)
  BY <1>3, <1>5, FS_Union DEF Total
<1>7. Cardinality(Members(f, S) \cap new) \in Nat
  <2>1. IsFiniteSet(Members(f, S) \cap new)
    BY <1>5, FS_Intersection
  <2>2. QED
    BY <2>1, FS_CardinalityType
<1>8. Total(g, S) <= Cardinality(Members(f, S) \cup new)
  BY <1>4, <1>6, FS_Subset DEF Total
<1>9. Total(g, S) \in Nat
  BY <1>2, MembersFinite
<1>10. QED
  BY <1>2, <1>5, <1>6, <1>7, <1>8, <1>9

----------------------------------------------------------------------------
(* The inductive invariant                                                 *)

CallTypes ==
    /\ DOMAIN call = Calls
    /\ \A c \in Calls : Pending(c) =>
        /\ call[c] \in [now : Times, cost : {k \in Costs : k <= Limit}]
        /\ call[c].now <= clock
        /\ clock <= call[c].now + Lag

\* What has been admitted is not of the future, nor of the time since the
\* expiry of the key was last put off.
EntryTypes ==
    /\ clock \in Times
    /\ expires \in 0 .. MaxTime + Expiry
    /\ entries \in Counts
    /\ admitted \in Counts
    /\ \A t \in Times :
        /\ entries[t] <= Limit
        /\ entries[t] <= admitted[t]
        /\ admitted[t] # 0 => t <= clock /\ t <= expires - Expiry

\* The sorted set has lost nothing of the last window.
Listed == \A t \in Times : t > clock - Window => entries[t] = admitted[t]

LimiterInv == CallTypes /\ EntryTypes /\ Listed /\ SlidingWindow

LEMMA TimesAreNats ==
    /\ Times \subseteq Nat /\ 0 \in Times
    /\ Limit \in Nat /\ Lag \in Nat /\ Window \in Nat /\ Window > Lag
    /\ MaxTime \in Nat /\ Expiry = Window + 1
    /\ \A k \in Costs : k \in Nat /\ k # 0
BY LimiterAssumption DEF Times, Expiry

LEMMA LimiterInit == Init => LimiterInv
<1> SUFFICES ASSUME Init PROVE LimiterInv
  OBVIOUS
<1>1. CallTypes
  BY DEF Init, CallTypes, Pending
<1>2. EntryTypes
  BY TimesAreNats DEF Init, EntryTypes, Counts
<1>3. Listed
  BY DEF Init, Listed
<1>4. ASSUME NEW S \in SUBSET Times PROVE Total(admitted, S) = 0
  <2>1. \A x : x \notin Members(admitted, S)
    <3> SUFFICES ASSUME NEW x, x \in Members(admitted, S) PROVE FALSE
      OBVIOUS
    <3>1. PICK t \in S : \E i \in 1 .. admitted[t] : x = <<t, i>>
      BY DEF Members
    <3>2. QED
      BY <3>1 DEF Init
  <2>2. QED
    BY <2>1, FS_EmptySet DEF Total
<1>5. SlidingWindow
  BY <1>4, TimesAreNats DEF SlidingWindow
<1>6. QED
  BY <1>1, <1>2, <1>3, <1>5 DEF LimiterInv

\* Pruning for a call in flight takes nothing from the last window.
LEMMA KeptType ==
    ASSUME LimiterInv, NEW c \in Calls, Pending(c)
    PROVE  LET now == call[c].now IN
           /\ now \in Times /\ call[c].cost \in Nat /\ call[c].cost # 0
           /\ call[c].cost <= Limit
           /\ now <= clock /\ clock <= now + Lag
           /\ Kept(now) \in Counts
           /\ \A t \in Times : /\ Kept(now)[t] <= entries[t]
                               /\ Kept(now)[t] # 0 => t > now - Window
                               /\ t > clock - Window => Kept(now)[t] = entries[t]
           /\ Total(Kept(now), Times) \in Nat
<1> DEFINE now == call[c].now
<1>1. /\ now \in Times /\ call[c].cost \in Costs /\ call[c].cost <= Limit
      /\ now <= clock /\ clock <= now + Lag
  BY DEF LimiterInv, CallTypes
<1>2. clock \in Times /\ entries \in Counts
  BY DEF LimiterInv, EntryTypes
<1> HIDE DEF now
<1>3. /\ Kept(now) \in Counts
      /\ \A t \in Times : /\ Kept(now)[t] <= entries[t]
                          /\ Kept(now)[t] # 0 => t > now - Window
                          /\ t > now - Window => Kept(now)[t] = entries[t]
  BY <1>1, <1>2, TimesAreNats DEF Kept, Counts
<1>4. \A t \in Times : t > clock - Window => t > now - Window
  BY <1>1, <1>2, TimesAreNats
<1>5. Total(Kept(now), Times) \in Nat
  BY <1>3, MembersFinite
<1>6. QED
  BY <1>1, <1>3, <1>4, <1>5, TimesAreNats DEF now

\* A call ends, and the others stay as they are.
LEMMA ReturnTypes ==
    ASSUME CallTypes, NEW c \in Calls, Return(c), UNCHANGED clock
    PROVE  CallTypes'
BY DEF CallTypes, Return, Pending

LEMMA SendKeeps ==
    ASSUME LimiterInv, NEW c \in Calls, Send(c)
    PROVE  LimiterInv'
<1>1. PICK now \in Times, cost \in Costs :
        /\ now \in clock - Lag .. clock
        /\ cost <= Limit
        /\ call' = [call EXCEPT ![c] = [now |-> now, cost |-> cost]]
  BY DEF Send
<1>2. UNCHANGED <<clock, entries, expires, admitted>>
  BY DEF Send
<1>3. clock \in Times
  BY DEF LimiterInv, EntryTypes
<1>4. now <= clock /\ clock <= now + Lag
  BY <1>1, <1>3, TimesAreNats
<1>5. CallTypes'
  <2>1. ASSUME NEW d \in Calls, Pending(d)'
        PROVE  /\ call'[d] \in [now : Times, cost : {k \in Costs : k <= Limit}]
               /\ call'[d].now <= clock
               /\ clock <= call'[d].now + Lag
    <3>1. CASE d = c
      BY <1>1, <1>4, <3>1 DEF LimiterInv, CallTypes
    <3>2. CASE d # c
      BY <1>1, <2>1, <3>2 DEF LimiterInv, CallTypes, Pending
    <3>3. QED
      BY <3>1, <3>2
  <2>2. DOMAIN call' = Calls
    BY <1>1 DEF LimiterInv, CallTypes
  <2>3. QED
    BY <1>2, <2>1, <2>2 DEF CallTypes
<1>6. EntryTypes' /\ Listed' /\ SlidingWindow'
  BY <1>2 DEF LimiterInv, EntryTypes, Listed, SlidingWindow
<1>7. QED
  BY <1>5, <1>6 DEF LimiterInv

LEMMA FailOpenKeeps ==
    ASSUME LimiterInv, NEW c \in Calls, FailOpen(c)
    PROVE  LimiterInv'
<1>1. CallTypes'
  BY ReturnTypes DEF FailOpen, LimiterInv
<1>2. EntryTypes' /\ Listed' /\ SlidingWindow'
  BY DEF FailOpen, LimiterInv, EntryTypes, Listed, SlidingWindow
<1>3. QED
  BY <1>1, <1>2 DEF LimiterInv

LEMMA RejectKeeps ==
    ASSUME LimiterInv, NEW c \in Calls, Reject(c)
    PROVE  LimiterInv'
<1>1. PICK now : now = call[c].now
  OBVIOUS
<1>2. /\ entries' = Kept(now) /\ UNCHANGED <<clock, expires, admitted>>
  BY <1>1 DEF Reject
<1>3. /\ Kept(now) \in Counts
      /\ \A t \in Times : /\ Kept(now)[t] <= entries[t]
                          /\ t > clock - Window => Kept(now)[t] = entries[t]
  BY <1>1, KeptType DEF Reject
<1>4. CallTypes'
  BY ReturnTypes DEF Reject, LimiterInv
<1>5. EntryTypes'
  <2>1. \A t \in Times : Kept(now)[t] <= Limit /\ Kept(now)[t] <= admitted[t]
    <3> TAKE t \in Times
    <3>1. Kept(now)[t] \in Nat /\ entries[t] \in Nat /\ admitted[t] \in Nat
      BY <1>3 DEF LimiterInv, EntryTypes, Counts
    <3>2. QED
      BY <1>3, <3>1, TimesAreNats DEF LimiterInv, EntryTypes
  <2>2. QED
    BY <1>2, <1>3, <2>1 DEF LimiterInv, EntryTypes
<1>6. Listed' /\ SlidingWindow'
  BY <1>2, <1>3 DEF LimiterInv, Listed, SlidingWindow
<1>7. QED
  BY <1>4, <1>5, <1>6 DEF LimiterInv

\* A stretch of Window - Lag with the time of the call in it has nothing that
\* the call has not counted.
LEMMA AdmitFitsWindow ==
    ASSUME LimiterInv, NEW c \in Calls, Admit(c), NEW t \in -1 .. MaxTime
    PROVE  Total(admitted', {u \in Times : t < u /\ u <= t + Window - Lag}) <= Limit
<1> DEFINE S == {u \in Times : t < u /\ u <= t + Window - Lag}
<1>1. PICK now, cost : now = call[c].now /\ cost = call[c].cost
  OBVIOUS
<1>2. /\ now \in Times /\ cost \in Nat
      /\ now <= clock /\ clock <= now + Lag
      /\ Kept(now) \in Counts
      /\ \A u \in Times : u > clock - Window => Kept(now)[u] = entries[u]
      /\ Total(Kept(now), Times) \in Nat
      /\ Total(Kept(now), Times) + cost <= Limit
  BY <1>1, KeptType DEF Admit, Fits
<1>3. admitted \in Counts /\ clock \in Times /\ S \in SUBSET Times
  BY DEF LimiterInv, EntryTypes
<1>4. admitted' = [admitted EXCEPT ![now] = @ + cost]
  BY <1>1 DEF Admit
<1>5. admitted' \in Counts
  BY <1>2, <1>3, <1>4 DEF Counts
<1>6. CASE now \in S
  <2>1. \A u \in S : u > clock - Window
    BY <1>2, <1>3, <1>6, TimesAreNats
  <2>2. \A u \in S : admitted[u] = Kept(now)[u]
    BY <1>2, <2>1 DEF LimiterInv, Listed
  <2>3. \A u \in S : admitted[u] <= Kept(now)[u]
    BY <1>2, <1>3, <2>2 DEF Counts
  <2> HIDE DEF S
  <2>4. Total(admitted, S) <= Total(Kept(now), Times)
    BY <1>2, <1>3, <2>3, TotalMonotone
  <2>5. Total(admitted', S) <= Total(admitted, S) + cost
    BY <1>2, <1>3, <1>4, TotalAdded
  <2>6. Total(admitted, S) \in Nat /\ Total(admitted', S) \in Nat
    BY <1>3, <1>5, MembersFinite
  <2>7. QED
    BY <1>2, <2>4, <2>5, <2>6, TimesAreNats DEF S
<1>7. CASE now \notin S
  <2>1. \A u \in S : admitted'[u] = admitted[u] /\ admitted'[u] <= admitted[u]
    BY <1>3, <1>4, <1>7 DEF Counts
  <2>2. Total(admitted, S) <= Limit
    BY DEF LimiterInv, SlidingWindow
  <2> HIDE DEF S
  <2>3. Total(admitted', S) <= Total(admitted, S)
    BY <1>3, <1>5, <2>1, TotalMonotone
  <2>4. Total(admitted, S) \in Nat /\ Total(admitted', S) \in Nat
    BY <1>3, <1>5, MembersFinite
  <2>5. QED
    BY <2>2, <2>3, <2>4, TimesAreNats DEF S
<1>8. QED
  BY <1>6, <1>7

LEMMA AdmitKeeps ==
    ASSUME LimiterInv, NEW c \in Calls, Admit(c)
    PROVE  LimiterInv'
<1>1. PICK now, cost : now = call[c].now /\ cost = call[c].cost
  OBVIOUS
<1>2. /\ now \in Times /\ cost \in Nat
      /\ now <= clock
      /\ Kept(now) \in Counts
      /\ \A u \in Times : /\ Kept(now)[u] <= entries[u]
                          /\ u > clock - Window => Kept(now)[u] = entries[u]
      /\ Total(Kept(now), Times) \in Nat
      /\ Total(Kept(now), Times) + cost <= Limit
  BY <1>1, KeptType DEF Admit, Fits
<1>3. /\ entries' = [Kept(now) EXCEPT ![now] = @ + cost]
      /\ admitted' = [admitted EXCEPT ![now] = @ + cost]
      /\ expires' = clock + Expiry
      /\ UNCHANGED clock
  BY <1>1 DEF Admit
<1>4. /\ clock \in Times /\ admitted \in Counts /\ entries \in Counts
      /\ expires \in 0 .. MaxTime + Expiry
  BY DEF LimiterInv, EntryTypes
<1>5. CallTypes'
  BY ReturnTypes DEF Admit, LimiterInv
<1>6. /\ entries' \in Counts /\ admitted' \in Counts
      /\ \A t \in Times : entries'[t] = IF t = now THEN Kept(now)[now] + cost ELSE Kept(now)[t]
      /\ \A t \in Times : admitted'[t] = IF t = now THEN admitted[now] + cost ELSE admitted[t]
  BY <1>2, <1>3, <1>4 DEF Counts
<1>7. \A t \in Times : Kept(now)[t] \in Nat /\ entries[t] \in Nat /\ admitted[t] \in Nat
  BY <1>2, <1>4 DEF Counts
<1>8. \A t \in Times : entries'[t] <= Limit
  <2>1. Kept(now)[now] <= Total(Kept(now), Times)
    <3>1. PICK n \in Nat : n = Kept(now)[now]
      BY <1>2, <1>7
    <3>2. Members(Kept(now), {now}) = {now} \X (1 .. n)
      BY <3>1 DEF Members
    <3>3. IsFiniteSet(1 .. n) /\ Cardinality(1 .. n) = n
      BY FS_Interval
    <3>4. IsFiniteSet({now}) /\ Cardinality({now}) = 1
      BY FS_Singleton
    <3>5. Cardinality({now} \X (1 .. n)) = 1 * n
      BY <3>3, <3>4, FS_Product
    <3>6. Total(Kept(now), {now}) = n
      <4>1. Cardinality(Members(Kept(now), {now})) = 1 * n
        BY <3>2, <3>5
      <4>2. QED
        BY <3>1, <4>1 DEF Total
    <3>7. Total(Kept(now), {now}) <= Total(Kept(now), Times)
      BY <1>2, <1>7, TotalMonotone
    <3>8. QED
      BY <3>1, <3>6, <3>7
  <2>2. \A t \in Times : entries[t] <= Limit
    BY DEF LimiterInv, EntryTypes
  <2>3. QED
    BY <1>2, <1>6, <1>7, <2>1, <2>2, TimesAreNats
<1>9. \A t \in Times : Kept(now)[t] <= admitted[t]
  BY <1>2, <1>7 DEF LimiterInv, EntryTypes
<1>10. EntryTypes'
  <2>1. expires' \in 0 .. MaxTime + Expiry
    BY <1>3, <1>4, TimesAreNats DEF Times
  <2>2. \A t \in Times : entries'[t] <= admitted'[t]
    BY <1>2, <1>6, <1>7, <1>9
  <2>3. \A t \in Times : admitted'[t] # 0 => t <= clock' /\ t <= expires' - Expiry
    <3>1. expires' - Expiry = clock /\ clock' = clock
      BY <1>3, <1>4, TimesAreNats
    <3>2. QED
      BY <1>2, <1>6, <3>1 DEF LimiterInv, EntryTypes
  <2>4. QED
    BY <1>3, <1>4, <1>6, <1>8, <2>1, <2>2, <2>3 DEF EntryTypes
<1>11. Listed'
  BY <1>2, <1>3, <1>6 DEF LimiterInv, Listed
<1>12. SlidingWindow'
  BY AdmitFitsWindow DEF SlidingWindow
<1>13. QED
  BY <1>5, <1>10, <1>11, <1>12 DEF LimiterInv

\* When the key expires, the last admission was longer ago than the window.
LEMMA TickKeeps ==
    ASSUME LimiterInv, Tick
    PROVE  LimiterInv'
<1>1. /\ clock < MaxTime /\ clock' = clock + 1
      /\ \A c \in Calls : Pending(c) => clock < call[c].now + Lag
      /\ entries' = IF clock' >= expires THEN [t \in Times |-> 0] ELSE entries
      /\ UNCHANGED <<expires, call, admitted>>
  BY DEF Tick
<1>2. /\ clock \in Times /\ admitted \in Counts /\ entries \in Counts
      /\ expires \in 0 .. MaxTime + Expiry
  BY DEF LimiterInv, EntryTypes
<1>3. clock' \in Times
  BY <1>1, <1>2, LimiterAssumption DEF Times
<1>4. CallTypes'
  <2>1. ASSUME NEW c \in Calls, Pending(c)
        PROVE  call[c].now <= clock' /\ clock' <= call[c].now + Lag
    <3>1. PICK now \in Nat : now = call[c].now
      BY <2>1, TimesAreNats DEF LimiterInv, CallTypes
    <3>2. now <= clock /\ clock < now + Lag
      BY <1>1, <2>1, <3>1 DEF LimiterInv, CallTypes
    <3>3. clock \in Nat /\ Lag \in Nat
      BY <1>2, TimesAreNats, LimiterAssumption
    <3>4. now <= clock' /\ clock' <= now + Lag
      BY <1>1, <3>2, <3>3
    <3>5. QED
      BY <3>1, <3>4
  <2>2. QED
    BY <1>1, <2>1 DEF LimiterInv, CallTypes, Pending
<1>5. /\ entries' \in Counts
      /\ \A t \in Times : entries'[t] <= Limit /\ entries'[t] <= admitted[t]
  <2>1. CASE entries' = entries
    BY <1>2, <2>1 DEF LimiterInv, EntryTypes
  <2>2. CASE entries' = [t \in Times |-> 0]
    BY <1>2, <2>2, TimesAreNats DEF Counts
  <2>3. QED
    BY <1>1, <2>1, <2>2
<1>6. EntryTypes'
  <2>1. \A t \in Times : admitted[t] # 0 => t <= clock' /\ t <= expires - Expiry
    BY <1>1, <1>2, TimesAreNats DEF LimiterInv, EntryTypes
  <2>2. QED
    BY <1>1, <1>2, <1>3, <1>5, <2>1 DEF EntryTypes
<1>7. Listed'
  <2> SUFFICES ASSUME NEW t \in Times, t > clock' - Window PROVE entries'[t] = admitted[t]
    BY <1>1 DEF Listed
  <2>1. CASE clock' >= expires
    <3>1. ~ (t <= expires - Expiry)
      <4>1. clock' \in Nat /\ t \in Nat /\ expires \in Int
        BY <1>2, <1>3, TimesAreNats DEF Times
      <4>2. Window \in Nat /\ Expiry = Window + 1
        BY LimiterAssumption DEF Expiry
      <4>3. PICK now \in Nat, w \in Nat, e \in Int : now = clock' /\ w = Window /\ e = expires
        BY <4>1, <4>2
      <4>4. t > now - w /\ now >= e
        BY <2>1, <4>3
      <4>5. ~ (t <= e - (w + 1))
        BY <4>1, <4>4
      <4>6. e - (w + 1) = expires - Expiry
        BY <4>2, <4>3
      <4>7. QED
        BY <4>5, <4>6
    <3>2. admitted[t] = 0
      BY <3>1 DEF LimiterInv, EntryTypes
    <3>3. QED
      BY <1>1, <2>1, <3>2
  <2>2. CASE ~ (clock' >= expires)
    <3>1. t > clock - Window
      BY <1>1, <1>2, TimesAreNats
    <3>2. QED
      BY <1>1, <2>2, <3>1 DEF LimiterInv, Listed
  <2>3. QED
    BY <2>1, <2>2
<1>8. SlidingWindow'
  BY <1>1 DEF LimiterInv, SlidingWindow
<1>9. QED
  BY <1>4, <1>6, <1>7, <1>8 DEF LimiterInv

LEMMA LimiterStep == LimiterInv /\ [Next]_vars => LimiterInv'
<1>1. LimiterInv /\ UNCHANGED vars => LimiterInv'
  BY DEF LimiterInv, CallTypes, EntryTypes, Listed, SlidingWindow, Pending, vars
<1>2. QED
  BY <1>1, SendKeeps, AdmitKeeps, RejectKeeps, FailOpenKeeps, TickKeeps DEF Next

LEMMA LimiterInvariant == Spec => []LimiterInv
BY LimiterInit, LimiterStep, PTL DEF Spec

\* The sorted set never holds more events of one time than the limit, nor an
\* event that was not admitted.
THEOREM TypeCorrect == Spec => []TypeOK
<1>1. LimiterInv => TypeOK
  <2> SUFFICES ASSUME LimiterInv PROVE TypeOK
    OBVIOUS
  <2>1. entries \in [Times -> 0 .. Limit]
    BY TimesAreNats DEF LimiterInv, EntryTypes, Counts
  <2>2. QED
    BY <2>1 DEF LimiterInv, EntryTypes, CallTypes, Counts, TypeOK
<1>2. QED
  BY <1>1, LimiterInvariant, PTL

\* rate_limit.py, atomic sliding-window limiter: with calls of any number of
\* processes in any order and clocks that disagree by Lag, no stretch of
\* Window - Lag has more admissions than the limit.
THEOREM WindowHolds == Spec => []SlidingWindow
<1>1. LimiterInv => SlidingWindow
  BY DEF LimiterInv
<1>2. QED
  BY <1>1, LimiterInvariant, PTL

\* A call is refused for admissions of its own window only: entries of another
\* window, or pruned by another call, never count against it.
THEOREM RefusalsAreDue == Spec => RefusedOnlyAtLimit
<1>1. ASSUME LimiterInv, NEW c \in Calls, Reject(c)
      PROVE  Total(admitted, {u \in Times : u > call[c].now - Window}) + call[c].cost > Limit
  <2>1. PICK now, cost : now = call[c].now /\ cost = call[c].cost
    OBVIOUS
  <2>2. /\ cost \in Nat /\ Kept(now) \in Counts
        /\ \A t \in Times : /\ Kept(now)[t] <= entries[t]
                            /\ Kept(now)[t] # 0 => t > now - Window
        /\ Total(Kept(now), Times) \in Nat
        /\ ~ (Total(Kept(now), Times) + cost <= Limit)
    BY <1>1, <2>1, KeptType DEF Reject, Fits
  <2> DEFINE S == {u \in Times : u > now - Window}
  <2>3. admitted \in Counts /\ entries \in Counts /\ S \in SUBSET Times
    BY <1>1 DEF LimiterInv, EntryTypes
  <2>4. \A t \in Times : Kept(now)[t] # 0 => t \in S /\ Kept(now)[t] <= admitted[t]
    <3> TAKE t \in Times
    <3>1. Kept(now)[t] \in Nat /\ entries[t] \in Nat /\ admitted[t] \in Nat
      BY <2>2, <2>3 DEF Counts
    <3>2. QED
      BY <1>1, <2>2, <3>1 DEF LimiterInv, EntryTypes
  <2> HIDE DEF S
  <2>5. Total(Kept(now), Times) <= Total(admitted, S)
    BY <2>2, <2>3, <2>4, TotalMonotone
  <2>6. Total(admitted, S) \in Nat
    BY <2>3, MembersFinite
  <2>7. Total(admitted, S) + cost > Limit
    BY <2>2, <2>5, <2>6, TimesAreNats
  <2>8. QED
    BY <2>1, <2>7 DEF S
<1>2. LimiterInv =>
        [\A c \in Calls : Reject(c) =>
            Total(admitted, {u \in Times : u > call[c].now - Window}) + call[c].cost > Limit]_vars
  BY <1>1
<1>3. QED
  BY <1>2, LimiterInvariant, PTL DEF RefusedOnlyAtLimit
====
