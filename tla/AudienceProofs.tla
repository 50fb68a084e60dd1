---------------------------- MODULE AudienceProofs ----------------------------
(***************************************************************************)
(* The heap of an audience preview, for every number of customers, every   *)
(* size and every order of the rows. The invariant is the loop's own: the  *)
(* heap is the top of what has been offered. An entry is new when it is    *)
(* offered, since the cursor delivers each customer once, and entries of   *)
(* different customers never tie.                                          *)
(***************************************************************************)
EXTENDS Audience, FiniteSetTheorems, TLAPS

Entries == [score : Int, id : Customers]

----------------------------------------------------------------------------
(* Entries                                                                 *)

LEMMA EntryType ==
    ASSUME TypeOK, NEW c \in Customers, NEW row \in Rows
    PROVE  Entry(c, row) \in Entries /\ Entry(c, row).id = c
<1> DEFINE d == IF row.clock # Never /\ row.clock < now
                THEN MaxTime - (now - row.clock)
                ELSE MaxTime
<1>1. d \in Times
  BY AudienceAssumption, SMTT(20) DEF TypeOK, Times, Never
<1>2. Decayed(row) \in Int
  <2>1. row.score \in Int /\ Decay[d] \in Int
    BY <1>1, AudienceAssumption
  <2>2. Decayed(row) = row.score * Decay[d]
    BY DEF Decayed
  <2>3. QED
    BY <2>1, <2>2
<1>3. Decay[MaxTime] \in Int /\ Floor * Decay[MaxTime] \in Int
        /\ Ceiling * Decay[MaxTime] \in Int
  <2>1. Decay[MaxTime] \in Int
    BY AudienceAssumption DEF Times
  <2>2. QED
    BY <2>1, AudienceAssumption
<1>4. ScoreAt(row) \in Int
  BY <1>2, <1>3 DEF ScoreAt, Clamp
<1>5. QED
  BY <1>4 DEF Entry, Entries

\* A strict total order.
LEMMA AboveIsTotal ==
    ASSUME NEW a \in Entries, NEW b \in Entries
    PROVE  /\ ~Above(a, a)
           /\ Above(a, b) => ~Above(b, a)
           /\ a # b => Above(a, b) \/ Above(b, a)
<1>1. a = [score |-> a.score, id |-> a.id] /\ b = [score |-> b.score, id |-> b.id]
  BY DEF Entries
<1>2. a.score \in Int /\ b.score \in Int /\ a.id \in Nat /\ b.id \in Nat
  BY AudienceAssumption DEF Entries
<1>3. QED
  BY <1>1, <1>2 DEF Above

LEMMA AboveIsTransitive ==
    ASSUME NEW a \in Entries, NEW b \in Entries, NEW c \in Entries,
           Above(a, b), Above(b, c)
    PROVE  Above(a, c)
<1>1. /\ a.score \in Int /\ b.score \in Int /\ c.score \in Int
      /\ a.id \in Nat /\ b.id \in Nat /\ c.id \in Nat
  BY AudienceAssumption DEF Entries
<1>2. QED
  BY <1>1 DEF Above

----------------------------------------------------------------------------
(* One entry offered to the heap                                           *)

LEMMA PushKeepsTop ==
    ASSUME TypeOK, NEW all \in SUBSET Entries, IsTop(heap, all),
           NEW e \in Entries, Cardinality(heap) < body.size
    PROVE  /\ heap = all
           /\ IsFiniteSet(heap \cup {e})
           /\ Cardinality(heap \cup {e}) <= body.size
<1>1. body.size \in Nat /\ Cardinality(heap) \in Nat
  BY FS_CardinalityType, AudienceAssumption DEF TypeOK
<1>2. heap = all
  BY <1>1 DEF IsTop
<1>3. /\ IsFiniteSet(heap \cup {e})
      /\ Cardinality(heap \cup {e}) <= Cardinality(heap) + 1
  <2>1. IsFiniteSet(heap)
    BY DEF TypeOK
  <2>2. IsFiniteSet(heap \cup {e})
    BY <2>1, FS_AddElement
  <2>3. Cardinality(heap \cup {e})
            = IF e \in heap THEN Cardinality(heap) ELSE Cardinality(heap) + 1
    BY <2>1, FS_AddElement
  <2>4. QED
    BY <1>1, <2>2, <2>3
<1>4. Cardinality(heap \cup {e}) \in Nat
  BY <1>3, FS_CardinalityType
<1>5. QED
  BY <1>1, <1>2, <1>3, <1>4

LEMMA ReplaceKeepsTop ==
    ASSUME TypeOK, NEW all \in SUBSET Entries, IsTop(heap, all),
           NEW e \in Entries \ all, Cardinality(heap) >= body.size,
           NEW root \in heap, IsRoot(root), Above(e, root),
           NEW top, top = (heap \ {root}) \cup {e}
    PROVE  IsTop(top, all \cup {e}) /\ IsFiniteSet(top)
<1>1. body.size \in Nat /\ Cardinality(heap) \in Nat
  BY FS_CardinalityType, AudienceAssumption DEF TypeOK
<1>2. Cardinality(heap) = body.size /\ heap \subseteq all
  BY <1>1 DEF IsTop
<1>3. IsFiniteSet(top) /\ Cardinality(top) = body.size
  <2>1. IsFiniteSet(heap \ {root}) /\ Cardinality(heap \ {root}) = body.size - 1
    <3>1. IsFiniteSet(heap)
      BY DEF TypeOK
    <3>2. /\ IsFiniteSet(heap \ {root})
          /\ Cardinality(heap \ {root}) = Cardinality(heap) - 1
      BY <3>1, FS_RemoveElement
    <3>3. QED
      BY <3>2, <1>2
  <2>2. e \notin heap \ {root}
    BY <1>2
  <2>3. QED
    BY <2>1, <2>2, <1>1, FS_AddElement
<1>4. ASSUME NEW x \in top, NEW other \in (all \cup {e}) \ top
      PROVE  Above(x, other)
  <2>1. other \in Entries /\ root \in Entries /\ x \in Entries
    BY <1>2
  <2>2. other = root \/ other \in all \ heap
    OBVIOUS
  <2>3. Above(x, root)
    BY DEF IsRoot
  <2>4. CASE other \in all \ heap
    <3>1. Above(root, other)
      BY <2>4 DEF IsTop
    <3>2. QED
      BY <2>1, <2>3, <3>1, AboveIsTransitive
  <2>5. QED
    BY <2>2, <2>3, <2>4
<1>5. top \subseteq all \cup {e}
  BY <1>2
<1>6. QED
  BY <1>1, <1>3, <1>4, <1>5 DEF IsTop

LEMMA SkipKeepsTop ==
    ASSUME TypeOK, NEW all \in SUBSET Entries, IsTop(heap, all),
           NEW e \in Entries \ all, Cardinality(heap) >= body.size,
           NEW root \in heap, IsRoot(root), ~Above(e, root)
    PROVE  IsTop(heap, all \cup {e})
<1>1. body.size \in Nat /\ Cardinality(heap) \in Nat
  BY FS_CardinalityType, AudienceAssumption DEF TypeOK
<1>2. Cardinality(heap) = body.size /\ heap \subseteq all
  BY <1>1 DEF IsTop
<1>3. Above(root, e)
  BY <1>2, AboveIsTotal
<1>4. ASSUME NEW x \in heap PROVE Above(x, e)
  <2>1. x = root \/ Above(x, root)
    BY DEF IsRoot
  <2>2. QED
    BY <2>1, <1>2, <1>3, AboveIsTransitive
<1>5. \A x \in heap : \A other \in (all \cup {e}) \ heap : Above(x, other)
  BY <1>4 DEF IsTop
<1>6. QED
  BY <1>1, <1>2, <1>5 DEF IsTop

----------------------------------------------------------------------------
(* The request                                                             *)

Offered == Qualified(DOMAIN selected \ unread)

HeapInv ==
    /\ TypeOK
    /\ HeapIsTop
    /\ at \in {"idle", "begun", "parsed"} => heap = {}

LEMMA OfferedType == TypeOK => Offered \in SUBSET Entries
<1> SUFFICES ASSUME TypeOK, NEW c \in DOMAIN selected
             PROVE  Entry(c, selected[c]) \in Entries
  BY DEF Offered, Qualified
<1>1. c \in Customers /\ selected[c] \in Rows
  BY DEF TypeOK
<1>2. QED
  BY <1>1, EntryType

\* The cursor delivers an entry once: it is new among those offered.
LEMMA EntryIsNew ==
    ASSUME TypeOK, NEW c \in unread
    PROVE  /\ Entry(c, selected[c]) \in Entries
           /\ Entry(c, selected[c]) \notin Offered
<1>1. \A b \in DOMAIN selected : b \in Customers /\ selected[b] \in Rows
  BY DEF TypeOK
<1>2. \A b \in DOMAIN selected :
        Entry(b, selected[b]) \in Entries /\ Entry(b, selected[b]).id = b
  BY <1>1, EntryType
<1>3. c \in DOMAIN selected
  BY DEF TypeOK
<1>4. QED
  BY <1>2, <1>3 DEF Offered, Qualified

\* What has been offered after one more row.
LEMMA OfferedNext ==
    ASSUME TypeOK, NEW c \in unread,
           unread' = unread \ {c}, UNCHANGED <<filters, selected>>
    PROVE  Offered' = IF ScoresEnough(Entry(c, selected[c]))
                      THEN Offered \cup {Entry(c, selected[c])}
                      ELSE Offered
<1> DEFINE Of(C) == {Entry(b, selected[b]) : b \in C}
<1>1. \A b : Entry(b, selected[b])' = Entry(b, selected[b])
  BY DEF filters, Entry, ScoreAt, Decayed
<1>2. \A e : ScoresEnough(e)' = ScoresEnough(e)
  BY DEF filters, ScoresEnough
<1>3. Offered' = {e \in Of(DOMAIN selected \ (unread \ {c})) : ScoresEnough(e)}
  BY <1>1, <1>2 DEF Offered, Qualified
<1>4. c \in DOMAIN selected
  BY DEF TypeOK
<1>5. Of(DOMAIN selected \ (unread \ {c}))
        = Of(DOMAIN selected \ unread) \cup {Entry(c, selected[c])}
  BY <1>4
<1>6. QED
  BY <1>3, <1>5 DEF Offered, Qualified

\* Offering a row keeps the heap the top of what was offered.
LEMMA OfferKeepsTop ==
    ASSUME TypeOK, HeapIsTop, NEW c \in Customers, Offer(c)
    PROVE  /\ heap' \subseteq Entries
           /\ IsFiniteSet(heap')
           /\ IsTop(heap', Offered')
<1> DEFINE e == Entry(c, selected[c])
<1>1. c \in unread /\ at = "reading" /\ Fetched(c) = selected[c]
  BY DEF Offer, Fetched
<1>2. e \in Entries /\ e \notin Offered /\ Offered \in SUBSET Entries
  BY <1>1, EntryIsNew, OfferedType
<1>3. Offered' = IF ScoresEnough(e) THEN Offered \cup {e} ELSE Offered
  BY <1>1, OfferedNext DEF Offer
<1>4. IsTop(heap, Offered) /\ IsFiniteSet(heap) /\ heap \subseteq Entries
  BY <1>1 DEF HeapIsTop, Offered, TypeOK, Entries
<1>5. body.size \in Nat /\ Cardinality(heap) \in Nat
  BY <1>4, FS_CardinalityType, AudienceAssumption DEF TypeOK
<1>6. (ScoresEnough(e) /\ (Push(e) \/ Replace(e))) \/ Skip(e)
  BY <1>1 DEF Offer
<1>7. CASE ScoresEnough(e) /\ Push(e)
  <2>1. heap = Offered /\ IsFiniteSet(heap') /\ Cardinality(heap') <= body.size
    BY <1>2, <1>4, <1>7, PushKeepsTop DEF Push
  <2>2. heap' = Offered'
    BY <2>1, <1>3, <1>7 DEF Push
  <2>3. IsTop(heap', Offered')
    BY <2>1, <2>2 DEF IsTop
  <2>4. QED
    BY <2>1, <2>3, <1>2, <1>4, <1>7 DEF Push
<1>8. CASE ScoresEnough(e) /\ Replace(e)
  <2>1. PICK root \in heap : /\ IsRoot(root)
                             /\ Above(e, root)
                             /\ heap' = (heap \ {root}) \cup {e}
    BY <1>8 DEF Replace, Beats
  <2>2. Cardinality(heap) >= body.size
    BY <1>8 DEF Replace
  <2>3. IsTop(heap', Offered \cup {e}) /\ IsFiniteSet(heap')
    BY <2>1, <2>2, <1>2, <1>4, ReplaceKeepsTop
  <2>4. QED
    BY <2>1, <2>3, <1>2, <1>3, <1>4, <1>8
<1>9. CASE Skip(e)
  <2>1. heap' = heap
    BY <1>9 DEF Skip
  <2>2. CASE ~ScoresEnough(e)
    BY <2>1, <2>2, <1>3, <1>4
  <2>3. CASE ScoresEnough(e)
    <3>1. PICK root \in heap : /\ Cardinality(heap) >= body.size
                               /\ IsRoot(root)
                               /\ ~Above(e, root)
      BY <2>3, <1>9 DEF Skip, Beats
    <3>2. IsTop(heap, Offered \cup {e})
      BY <3>1, <1>2, <1>4, SkipKeepsTop
    <3>3. QED
      BY <3>2, <2>1, <2>3, <1>3, <1>4
  <2>4. QED
    BY <2>2, <2>3
<1>10. QED
  BY <1>6, <1>7, <1>8, <1>9

LEMMA HeapInit == Init => HeapInv
<1> SUFFICES ASSUME Init PROVE HeapInv
  OBVIOUS
<1>1. now \in 0 .. time /\ time \in Times
  BY AudienceAssumption DEF Init, Times
<1>2. IsFiniteSet(heap) /\ Cardinality(heap) = 0 /\ heap = {}
  BY FS_EmptySet DEF Init
<1>3. body.size \in Nat
  BY AudienceAssumption DEF Init
<1>4. DOMAIN selected = {} /\ unread = {} /\ selected \in [{} -> Rows]
  BY DEF Init
<1>5. TypeOK
  BY <1>1, <1>2, <1>3, <1>4 DEF Init, TypeOK
<1>6. QED
  BY <1>2, <1>5 DEF Init, HeapInv, HeapIsTop

LEMMA HeapStep == HeapInv /\ [Next]_vars => HeapInv'
<1> SUFFICES ASSUME HeapInv, [Next]_vars PROVE HeapInv'
  OBVIOUS
<1>1. TypeOK /\ HeapIsTop
  BY DEF HeapInv
<1>2. ASSUME UNCHANGED <<at, filters, selected, unread, heap>>,
             time' \in Times, time' >= time, db' \in [Customers -> Rows]
      PROVE  HeapInv'
  <2>1. TypeOK'
    BY <1>1, <1>2, AudienceAssumption DEF TypeOK, filters, Times
  <2>2. HeapIsTop'
    BY <1>1, <1>2 DEF HeapIsTop, IsTop, Qualified, ScoresEnough, Entry, ScoreAt,
                      Decayed, filters
  <2>3. QED
    BY <2>1, <2>2, <1>2 DEF HeapInv
<1>3. CASE Tick
  BY <1>1, <1>2, <1>3, AudienceAssumption DEF Tick, TypeOK, Times
<1>4. ASSUME NEW c \in Customers, ProcessEvent(c) PROVE HeapInv'
  BY <1>1, <1>2, <1>4, AudienceAssumption DEF ProcessEvent, TypeOK, Times
<1>5. CASE Begin
  <2>1. heap' = {} /\ IsFiniteSet(heap') /\ Cardinality(heap') = 0
    BY <1>5, FS_EmptySet DEF Begin, HeapInv
  <2>2. body' \in Bodies /\ body'.size \in Nat
    BY <1>5, AudienceAssumption DEF Begin
  <2>3. now' \in 0 .. time'
    BY <1>1, <1>5, AudienceAssumption DEF Begin, tables, TypeOK, Times
  <2>4. TypeOK'
    BY <1>1, <1>5, <2>1, <2>2, <2>3 DEF Begin, tables, TypeOK
  <2>5. QED
    BY <1>5, <2>1, <2>4 DEF Begin, HeapInv, HeapIsTop
<1>6. CASE ParseConditions
  <2>1. TypeOK'
    BY <1>1, <1>6 DEF ParseConditions, tables, TypeOK
  <2>2. QED
    BY <1>6, <2>1 DEF ParseConditions, HeapInv, HeapIsTop
<1>7. CASE Select
  <2>1. TypeOK'
    BY <1>1, <1>7 DEF Select, tables, filters, TypeOK
  <2>2. heap' = {} /\ Cardinality(heap') = 0 /\ body'.size \in Nat
    BY <1>1, <1>7, FS_EmptySet, AudienceAssumption DEF Select, filters, HeapInv, TypeOK
  <2>3. Qualified(DOMAIN selected \ unread)' = {}
    BY <1>7 DEF Select, Qualified
  <2>4. HeapIsTop'
    BY <2>2, <2>3 DEF HeapIsTop, IsTop
  <2>5. QED
    BY <2>1, <2>2, <2>4 DEF HeapInv
<1>8. ASSUME NEW c \in Customers, Offer(c) PROVE HeapInv'
  <2>1. /\ heap' \subseteq Entries
        /\ IsFiniteSet(heap')
        /\ IsTop(heap', Offered')
    BY <1>1, <1>8, OfferKeepsTop
  <2>2. UNCHANGED <<tables, at, filters, selected>> /\ at' = "reading"
    BY <1>8 DEF Offer
  <2>3. unread' \subseteq DOMAIN selected'
    BY <1>1, <1>8 DEF Offer, TypeOK
  <2>4. TypeOK'
    BY <1>1, <2>1, <2>2, <2>3 DEF tables, filters, TypeOK, IsTop, Entries
  <2>5. HeapIsTop'
    BY <2>1, <2>2 DEF filters, HeapIsTop, IsTop, Offered
  <2>6. QED
    BY <2>2, <2>4, <2>5 DEF HeapInv
<1>9. CASE Answer
  <2>1. TypeOK'
    BY <1>1, <1>9 DEF Answer, tables, filters, TypeOK
  <2>2. HeapIsTop'
    BY <1>1, <1>9 DEF Answer, filters, HeapIsTop, IsTop, Qualified, ScoresEnough,
                      Entry, ScoreAt, Decayed
  <2>3. QED
    BY <1>9, <2>1, <2>2 DEF Answer, HeapInv
<1>10. CASE Close
  <2>1. heap' = {} /\ IsFiniteSet(heap') /\ Cardinality(heap') = 0
    BY <1>10, FS_EmptySet DEF Close
  <2>2. body' \in Bodies /\ body'.size \in Nat
    BY <1>1, <1>10, AudienceAssumption DEF Close, TypeOK
  <2>3. now' \in 0 .. time'
    BY <1>1, <1>10, AudienceAssumption DEF Close, tables, TypeOK, Times
  <2>4. DOMAIN selected' = {} /\ unread' = {} /\ selected' \in [{} -> Rows]
    BY <1>10 DEF Close
  <2>5. TypeOK'
    BY <1>1, <1>10, <2>1, <2>2, <2>3, <2>4 DEF Close, tables, TypeOK
  <2>6. QED
    BY <1>10, <2>1, <2>5 DEF Close, HeapInv, HeapIsTop
<1>11. CASE UNCHANGED vars
  <2>1. time' = time /\ db' = db
        /\ UNCHANGED <<at, filters, selected, unread, heap>>
    BY <1>11 DEF vars, tables
  <2>2. QED
    BY <1>1, <1>2, <2>1, AudienceAssumption DEF TypeOK, Times
<1>12. QED
  BY <1>3, <1>4, <1>5, <1>6, <1>7, <1>8, <1>9, <1>10, <1>11 DEF Next

\* Every reachable state is type correct; the heap is within the size asked for.
THEOREM TypeCorrect == Spec => []TypeOK
<1>1. HeapInv => TypeOK
  BY DEF HeapInv
<1>2. QED
  BY HeapInit, HeapStep, <1>1, PTL DEF Spec

\* The heap that select_top_k and recommend_audience maintain is always the top
\* of the entries offered, so the answer is made of the best of them all.
THEOREM HeapHoldsTheBest == Spec => []HeapIsTop
<1>1. HeapInv => HeapIsTop
  BY DEF HeapInv
<1>2. QED
  BY HeapInit, HeapStep, <1>1, PTL DEF Spec

----------------------------------------------------------------------------
(* The answer                                                              *)

Ranks(r, S) ==
    /\ r \in [1 .. Cardinality(S) -> S]
    /\ \A i, j \in 1 .. Cardinality(S) : i < j => Above(r[i], r[j])

\* An entry comes after those above it.
LEMMA RankExists ==
    ASSUME NEW S \in SUBSET Entries, IsFiniteSet(S)
    PROVE  \E r : Ranks(r, S)
<1> DEFINE Ahead(e) == {h \in S : Above(h, e)}
           rank == [e \in S |-> Cardinality(Ahead(e)) + 1]
<1>1. PICK n \in Nat : n = Cardinality(S)
  BY FS_CardinalityType
<1>2. ASSUME NEW e \in S
      PROVE  IsFiniteSet(Ahead(e)) /\ Cardinality(Ahead(e)) \in Nat /\ Cardinality(Ahead(e)) < n
  <2>1. IsFiniteSet(Ahead(e))
    BY FS_Subset
  <2>2. Cardinality(Ahead(e)) \in Nat
    BY <2>1, FS_CardinalityType
  <2>3. e \notin Ahead(e)
    BY AboveIsTotal
  <2>4. Cardinality(Ahead(e)) <= n /\ Cardinality(Ahead(e)) # n
    BY <1>1, <2>3, FS_Subset
  <2>5. QED
    BY <2>1, <2>2, <2>4
<1>3. rank \in [S -> 1 .. n]
  <2>1. ASSUME NEW e \in S PROVE Cardinality(Ahead(e)) + 1 \in 1 .. n
    <3>1. PICK k \in Nat : k = Cardinality(Ahead(e))
      BY <1>2
    <3>2. k < n
      BY <1>2, <3>1
    <3>3. k + 1 \in 1 .. n
      BY <3>2
    <3>4. QED
      BY <3>1, <3>3
  <2>2. QED
    BY <2>1
<1>4. ASSUME NEW a \in S, NEW b \in S, Above(a, b)
      PROVE  rank[a] < rank[b]
  <2>1. Ahead(a) \subseteq Ahead(b)
    BY <1>4, AboveIsTransitive
  <2>2. a \in Ahead(b) /\ a \notin Ahead(a)
    BY <1>4, AboveIsTotal
  <2>3. Cardinality(Ahead(a)) <= Cardinality(Ahead(b))
        /\ Cardinality(Ahead(a)) # Cardinality(Ahead(b))
    <3> HIDE DEF Ahead
    <3> QED
      BY <1>2, <2>1, <2>2, FS_Subset
  <2>4. PICK k \in Nat, m \in Nat : k = Cardinality(Ahead(a)) /\ m = Cardinality(Ahead(b))
    BY <1>2
  <2>5. rank[a] = k + 1 /\ rank[b] = m + 1
    BY <2>4
  <2>6. QED
    BY <2>3, <2>4, <2>5
<1> HIDE DEF rank
<1>5. \A a, b \in S : rank[a] \in Int /\ rank[b] \in Int
  BY <1>3
<1>6. ASSUME NEW a \in S, NEW b \in S, rank[a] = rank[b]
      PROVE  a = b
  <2>1. ~Above(a, b) /\ ~Above(b, a)
    BY <1>4, <1>5, <1>6
  <2>2. QED
    BY <2>1, AboveIsTotal
<1>7. rank \in Surjection(S, 1 .. n)
  <2>1. rank \in Injection(S, 1 .. n)
    <3>1. DOMAIN rank = S
      BY <1>3
    <3>2. QED
      BY <1>3, <1>6, <3>1 DEF Injection, IsInjective
  <2>2. IsFiniteSet(1 .. n) /\ Cardinality(1 .. n) = n
    <3>1. IsFiniteSet(1 .. n) /\ Cardinality(1 .. n) = IF 1 > n THEN 0 ELSE n - 1 + 1
      BY FS_Interval
    <3>2. QED
      BY <3>1
  <2>3. QED
    BY <1>1, <2>1, <2>2, FS_Injection
<1>8. \A i \in 1 .. n : \E e \in S : rank[e] = i
  BY <1>7 DEF Surjection
<1> DEFINE r == [i \in 1 .. n |-> CHOOSE e \in S : rank[e] = i]
<1>9. \A i \in 1 .. n : r[i] \in S /\ rank[r[i]] = i
  BY <1>8
<1>10. r \in [1 .. n -> S]
  BY <1>8
<1> HIDE DEF r
<1>11. ASSUME NEW i \in 1 .. n, NEW j \in 1 .. n, i < j
       PROVE  Above(r[i], r[j])
  <2>1. PICK a \in S : a = r[i] /\ rank[a] = i
    BY <1>9
  <2>2. PICK b \in S : b = r[j] /\ rank[b] = j
    BY <1>9
  <2>3. i \in Int /\ j \in Int
    OBVIOUS
  <2>4. a # b
    BY <1>11, <2>1, <2>2, <2>3
  <2>5. ~Above(b, a)
    <3>1. ~(j < i)
      BY <1>11, <2>3
    <3>2. QED
      BY <1>4, <2>1, <2>2, <3>1
  <2>6. Above(a, b)
    BY <2>4, <2>5, AboveIsTotal
  <2>7. QED
    BY <2>1, <2>2, <2>6
<1>12. QED
  BY <1>1, <1>10, <1>11 DEF Ranks

\* The ranking is best first and leaves nobody out.
LEMMA RankingRanks ==
    ASSUME NEW S \in SUBSET Entries, IsFiniteSet(S)
    PROVE  /\ DOMAIN Ranking(S) = 1 .. Cardinality(S)
           /\ Ranks(Ranking(S), S)
           /\ {Ranking(S)[i] : i \in DOMAIN Ranking(S)} = S
<1>1. PICK n \in Nat : n = Cardinality(S)
  BY FS_CardinalityType
<1>2. PICK q : Ranks(q, S)
  BY RankExists
<1>3. Ranks(Ranking(S), S)
  <2>1. \E r \in [1 .. Cardinality(S) -> S] : \A i, j \in DOMAIN r : i < j => Above(r[i], r[j])
    BY <1>2 DEF Ranks
  <2>2. \A i, j \in DOMAIN Ranking(S) : i < j => Above(Ranking(S)[i], Ranking(S)[j])
    BY <2>1 DEF Ranking
  <2>3. Ranking(S) \in [1 .. Cardinality(S) -> S]
    BY <2>1 DEF Ranking
  <2>4. QED
    BY <2>2, <2>3 DEF Ranks
<1>4. PICK r : r = Ranking(S)
  OBVIOUS
<1>5. /\ r \in [1 .. n -> S] /\ DOMAIN r = 1 .. n
      /\ \A i, j \in 1 .. n : i < j => Above(r[i], r[j])
  BY <1>1, <1>3, <1>4 DEF Ranks
<1>6. ASSUME NEW i \in 1 .. n, NEW j \in 1 .. n, r[i] = r[j]
      PROVE  i = j
  <2>1. ~(i < j) /\ ~(j < i)
    BY <1>5, <1>6, AboveIsTotal
  <2>2. QED
    BY <2>1
<1>7. IsFiniteSet(1 .. n) /\ Cardinality(1 .. n) = n
  <2>1. IsFiniteSet(1 .. n) /\ Cardinality(1 .. n) = IF 1 > n THEN 0 ELSE n - 1 + 1
    BY FS_Interval
  <2>2. QED
    BY <2>1
<1>8. r \in Injection(1 .. n, S)
  BY <1>5, <1>6 DEF Injection, IsInjective
<1>9. r \in Surjection(1 .. n, S)
  BY <1>1, <1>7, <1>8, FS_Injection
<1>10. {r[i] : i \in 1 .. n} = S
  BY <1>5, <1>9 DEF Surjection
<1>11. QED
  BY <1>1, <1>3, <1>4, <1>5, <1>10

AnswerInv == at = "answered" => answer = Ranking(heap) /\ unread = {}

LEMMA AnswerStep == AnswerInv /\ [Next]_vars => AnswerInv'
<1> SUFFICES ASSUME AnswerInv, [Next]_vars PROVE AnswerInv'
  OBVIOUS
<1>1. \A S : Ranking(S)' = Ranking(S)
  BY DEF Ranking, Above
<1>2. CASE Answer
  BY <1>2 DEF Answer, AnswerInv
<1>3. ASSUME UNCHANGED <<at, answer, heap, unread>> PROVE AnswerInv'
  BY <1>3 DEF AnswerInv
<1>4. ASSUME at' # "answered" PROVE AnswerInv'
  BY <1>4 DEF AnswerInv
<1>5. ASSUME NEW c \in Customers, Offer(c) PROVE at' # "answered"
  BY <1>5 DEF Offer
<1>6. QED
  BY <1>2, <1>3, <1>4, <1>5
     DEF Next, Tick, ProcessEvent, Begin, ParseConditions, Select, Close, vars, tables

\* The answer lists the best eligible customers of one instant, best first and
\* each once, whatever workers commit while the cursor is open.
THEOREM AnswerIsBestFirst == Spec => []BestFirst
<1>1. Init => AnswerInv
  BY DEF Init, AnswerInv
<1>2. HeapInv /\ AnswerInv => BestFirst
  <2> SUFFICES ASSUME HeapInv, AnswerInv, at = "answered"
               PROVE  /\ IsTop({answer[i] : i \in DOMAIN answer}, Qualified(DOMAIN selected))
                      /\ \A i, j \in DOMAIN answer : i < j => Above(answer[i], answer[j])
    BY DEF BestFirst
  <2>1. answer = Ranking(heap) /\ DOMAIN selected \ unread = DOMAIN selected
    BY DEF AnswerInv
  <2>2. heap \in SUBSET Entries /\ IsFiniteSet(heap)
    BY DEF HeapInv, TypeOK, Entries
  <2>3. IsTop(heap, Qualified(DOMAIN selected))
    BY <2>1 DEF HeapInv, HeapIsTop
  <2>4. /\ DOMAIN answer = 1 .. Cardinality(heap)
        /\ Ranks(answer, heap)
        /\ {answer[i] : i \in DOMAIN answer} = heap
    BY <2>1, <2>2, RankingRanks
  <2>5. QED
    BY <2>3, <2>4 DEF Ranks
<1>3. QED
  BY HeapInit, HeapStep, AnswerStep, <1>1, <1>2, PTL DEF Spec

----------------------------------------------------------------------------
(* Consent and frequency                                                   *)

\* Whoever could not be contacted when the request began still cannot when the
\* SELECT runs: consent is only withdrawn, and sends are only added.
Refused(c) ==
    \/ (IF body.channel = "web" THEN "email" ELSE body.channel) \notin db[c].optIns
    \/ \E send \in db[c].sends :
        send[1] = body.channel /\ send[2] <= now /\ now - send[2] <= Day

WillingInv ==
    /\ at \in {"begun", "parsed"} => \A c \in Customers \ willing : Refused(c)
    /\ at \in {"reading", "answered"} => DOMAIN selected \subseteq willing
    /\ OnlyTheWilling

LEMMA RefusedNotEligible ==
    ASSUME TypeOK, NEW c \in Customers, Refused(c)
    PROVE  ~Eligible(db[c])
<1>1. CASE (IF body.channel = "web" THEN "email" ELSE body.channel) \notin db[c].optIns
  BY <1>1 DEF Eligible, OptsIn
<1>2. ASSUME NEW send \in db[c].sends,
             send[1] = body.channel, send[2] <= now, now - send[2] <= Day
      PROVE  ~Eligible(db[c])
  <2>1. send \in Channels \X Times
    BY AudienceAssumption DEF TypeOK
  <2>2. send = <<body.channel, send[2]>> /\ send[2] \in Times
    BY <2>1, <1>2
  <2>3. now \in Int /\ Day \in Int /\ send[2] \in Int
    BY <2>2, AudienceAssumption DEF TypeOK, Times
  <2>4. now - Day <= send[2]
    BY <2>3, <1>2
  <2>5. RecentlySent(db[c], body.channel)
    BY <2>2, <2>4, <1>2 DEF RecentlySent
  <2>6. QED
    BY <2>5 DEF Eligible
<1>3. QED
  BY <1>1, <1>2 DEF Refused

LEMMA WillingStep ==
    HeapInv /\ WillingInv /\ [Next]_vars => WillingInv'
<1> SUFFICES ASSUME HeapInv, WillingInv, [Next]_vars PROVE WillingInv'
  OBVIOUS
<1>1. TypeOK
  BY DEF HeapInv
<1>2. CASE Tick
  BY <1>2 DEF Tick, filters, WillingInv, Refused, OnlyTheWilling
<1>3. ASSUME NEW c \in Customers, ProcessEvent(c) PROVE WillingInv'
  <2>1. /\ UNCHANGED <<at, body, now, selected, heap, willing>>
        /\ \A b \in Customers : db'[b].optIns \subseteq db[b].optIns
                               /\ db[b].sends \subseteq db'[b].sends
    BY <1>1, <1>3 DEF ProcessEvent, filters, TypeOK
  <2>2. \A b \in Customers : Refused(b) => Refused(b)'
    BY <2>1 DEF Refused
  <2>3. QED
    BY <2>1, <2>2 DEF WillingInv, OnlyTheWilling
<1>4. CASE Begin
  <2>1. ASSUME NEW c \in Customers \ willing' PROVE Refused(c)'
    <3>1. ~Contactable(db[c], body'.channel)
      BY <1>4, <2>1 DEF Begin
    <3>2. /\ time \in Int /\ Day \in Int
          /\ \A send \in db[c].sends : send[2] \in Int
      BY <1>1, AudienceAssumption DEF TypeOK, Times
    <3>3. now' = time /\ db' = db
      BY <1>4 DEF Begin, tables
    <3>4. QED
      BY <3>1, <3>2, <3>3 DEF Contactable, Refused
  <2>2. heap' = {} /\ at' = "begun"
    BY <1>4 DEF Begin, HeapInv
  <2>3. QED
    BY <2>1, <2>2 DEF WillingInv, OnlyTheWilling
<1>5. CASE ParseConditions
  BY <1>5 DEF ParseConditions, tables, WillingInv, Refused, OnlyTheWilling
<1>6. CASE Select
  <2>1. DOMAIN selected' \subseteq willing
    BY <1>1, <1>6, RefusedNotEligible DEF Select, WillingInv
  <2>2. QED
    BY <1>6, <2>1 DEF Select, WillingInv, OnlyTheWilling
<1>7. ASSUME NEW c \in Customers, Offer(c) PROVE WillingInv'
  <2>1. /\ c \in DOMAIN selected
        /\ at = "reading"
        /\ UNCHANGED <<at, selected, willing>>
    BY <1>1, <1>7 DEF Offer, TypeOK
  <2>2. heap' \subseteq heap \cup {Entry(c, Fetched(c))}
    BY <1>7 DEF Offer, Push, Replace, Skip
  <2>3. Entry(c, Fetched(c)).id = c
    BY DEF Entry
  <2>4. QED
    BY <2>1, <2>2, <2>3 DEF WillingInv, OnlyTheWilling
<1>8. CASE Answer
  BY <1>8 DEF Answer, WillingInv, OnlyTheWilling
<1>9. CASE Close
  BY <1>9 DEF Close, WillingInv, OnlyTheWilling
<1>10. CASE UNCHANGED vars
  BY <1>10 DEF vars, tables, filters, WillingInv, Refused, OnlyTheWilling
<1>11. QED
  BY <1>2, <1>3, <1>4, <1>5, <1>6, <1>7, <1>8, <1>9, <1>10 DEF Next

\* A preview never ranks a customer who had withdrawn consent, or was capped,
\* when the request began, whatever workers commit while it runs.
THEOREM ConsentRespected == Spec => []OnlyTheWilling
<1>1. Init => WillingInv
  BY DEF Init, WillingInv, OnlyTheWilling
<1>2. WillingInv => OnlyTheWilling
  BY DEF WillingInv
<1>3. QED
  BY HeapInit, HeapStep, WillingStep, <1>1, <1>2, PTL DEF Spec
==============================================================================
