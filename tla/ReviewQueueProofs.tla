-------------------------- MODULE ReviewQueueProofs --------------------------
(***************************************************************************)
(* Proofs about ReviewQueue for any number of rows, any times, any size of *)
(* a page and any limit of a search.                                       *)
(***************************************************************************)
EXTENDS ReviewQueue, TLAPS, FiniteSetTheorems, SequenceTheorems

-----------------------------------------------------------------------------
(* The order of the queue.                                                 *)

\* What every state says of the rows.
RowsTyped == rows \in Seq(Row)

Ids == DOMAIN rows

LEMMA RowFacts ==
    ASSUME RowsTyped
    PROVE  /\ Len(rows) \in Nat /\ Ids = 1..Len(rows)
           /\ IsFiniteSet(Ids)
           /\ \A i \in Ids : rows[i] \in Row /\ At(i) \in Nat
           /\ Kept \subseteq Ids
<1>1. Len(rows) \in Nat /\ Ids = 1..Len(rows) /\ \A i \in Ids : rows[i] \in Row
  BY LenProperties, ElementOfSeq DEF RowsTyped, Ids
<1>2. \A i \in Ids : At(i) \in Nat
  BY <1>1, QueueAssumption DEF Row, At, Null
<1>3. IsFiniteSet(Ids) BY <1>1, FS_Interval
<1> QED BY <1>1, <1>2, <1>3 DEF Kept, Ids

\* The queue order is a strict total order of the rows.
LEMMA OrderFacts ==
    ASSUME RowsTyped
    PROVE  /\ \A i \in Ids : ~Precedes(i, i)
           /\ \A i, j \in Ids : i # j => Precedes(i, j) \/ Precedes(j, i)
           /\ \A i, j \in Ids : ~(Precedes(i, j) /\ Precedes(j, i))
           /\ \A i, j, k \in Ids : Precedes(i, j) /\ Precedes(j, k) => Precedes(i, k)
<1> USE RowFacts
<1>1. \A i \in Ids : ~Precedes(i, i) BY DEF Precedes
<1>2. \A i, j \in Ids : i # j => Precedes(i, j) \/ Precedes(j, i) BY DEF Precedes
<1>3. \A i, j \in Ids : ~(Precedes(i, j) /\ Precedes(j, i)) BY DEF Precedes
<1>4. \A i, j, k \in Ids : Precedes(i, j) /\ Precedes(j, k) => Precedes(i, k)
  BY DEF Precedes
<1> QED BY <1>1, <1>2, <1>3, <1>4

\* f lists the rows of S once each, in queue order.
Sorts(f, S) ==
    /\ f \in [1..Cardinality(S) -> S]
    /\ \A i, j \in 1..Cardinality(S) : i < j => Precedes(f[i], f[j])
    /\ \A x \in S : \E k \in 1..Cardinality(S) : f[k] = x

\* Every set of rows can be sorted: a row's place is the number of the rows of
\* the set that precede it.
LEMMA SortExists ==
    ASSUME RowsTyped, NEW S \in SUBSET Ids
    PROVE  \E f : Sorts(f, S)
<1> DEFINE N == Cardinality(S)
           Before(x) == {y \in S : Precedes(y, x)}
           rank == [x \in S |-> Cardinality(Before(x)) + 1]
<1>1. IsFiniteSet(S) /\ N \in Nat
  BY RowFacts, FS_Subset, FS_CardinalityType
<1>2. ASSUME NEW x \in S
      PROVE  /\ IsFiniteSet(Before(x)) /\ Cardinality(Before(x)) \in Nat
             /\ Cardinality(Before(x)) + 1 <= N
  <2>1. Before(x) \subseteq S \ {x}
    BY OrderFacts
  <2>2. IsFiniteSet(S \ {x}) /\ Cardinality(S \ {x}) = N - 1
    BY <1>1, FS_RemoveElement
  <2>3. IsFiniteSet(Before(x)) /\ Cardinality(Before(x)) <= Cardinality(S \ {x})
    BY <2>1, <2>2, FS_Subset
  <2>4. Cardinality(Before(x)) \in Nat BY <2>3, FS_CardinalityType
  <2> HIDE DEF Before, N
  <2> QED BY <1>1, <2>2, <2>3, <2>4
<1>3. rank \in [S -> 1..N]
  <2> HIDE DEF Before, N
  <2> QED BY <1>1, <1>2
<1>4. ASSUME NEW x \in S, NEW y \in S, Precedes(x, y)
      PROVE  rank[x] < rank[y]
  <2>1. Before(x) \cup {x} \subseteq Before(y)
    BY <1>4, OrderFacts
  <2>2. x \notin Before(x) BY OrderFacts
  <2>3. /\ IsFiniteSet(Before(x) \cup {x})
        /\ Cardinality(Before(x) \cup {x}) = Cardinality(Before(x)) + 1
    BY <1>2, <2>2, FS_AddElement
  <2>4. Cardinality(Before(x) \cup {x}) <= Cardinality(Before(y))
    BY <1>2, <2>1, FS_Subset
  <2> HIDE DEF Before
  <2> QED BY <1>2, <2>3, <2>4
<1> HIDE DEF rank, Before
<1>5. \A x, y \in S : rank[x] = rank[y] => x = y
  BY <1>3, <1>4, <1>1, OrderFacts
<1>6. rank \in Injection(S, 1..N)
  BY <1>3, <1>5 DEF Injection, IsInjective
<1>7. IsFiniteSet(1..N) /\ Cardinality(1..N) = N
  BY <1>1, FS_Interval
<1>8. rank \in Surjection(S, 1..N)
  BY <1>6, <1>7, FS_Injection
<1>9. \A k \in 1..N : \E x \in S : rank[x] = k
  BY <1>8 DEF Surjection
<1> DEFINE f == [k \in 1..N |-> CHOOSE x \in S : rank[x] = k]
<1>10. \A k \in 1..N : f[k] \in S /\ rank[f[k]] = k
  BY <1>9
<1>11. f \in [1..N -> S] BY <1>10
<1> HIDE DEF f
<1>12. ASSUME NEW i \in 1..N, NEW j \in 1..N, i < j PROVE Precedes(f[i], f[j])
  <2>1. f[i] \in S /\ f[j] \in S /\ rank[f[i]] = i /\ rank[f[j]] = j BY <1>10
  <2>2. f[i] # f[j] BY <1>1, <1>12, <2>1
  <2>3. ~Precedes(f[j], f[i]) BY <1>1, <1>4, <1>12, <2>1
  <2> QED BY <2>1, <2>2, <2>3, OrderFacts
<1>13. ASSUME NEW x \in S PROVE \E k \in 1..N : f[k] = x
  <2>1. rank[x] \in 1..N BY <1>3
  <2>2. f[rank[x]] \in S /\ rank[f[rank[x]]] = rank[x] BY <1>10, <2>1
  <2>3. f[rank[x]] = x BY <1>5, <2>2
  <2> QED BY <2>1, <2>3
<1>14. Sorts(f, S) BY <1>11, <1>12, <1>13 DEF Sorts
<1> QED BY <1>14

LEMMA InOrderSorts ==
    ASSUME RowsTyped, NEW S \in SUBSET Ids
    PROVE  Sorts(InOrder(S), S)
<1> DEFINE N == Cardinality(S)
           Sorted(f) == \A i, j \in DOMAIN f : i < j => Precedes(f[i], f[j])
           q == InOrder(S)
<1>1. IsFiniteSet(S) /\ N \in Nat
  BY RowFacts, FS_Subset, FS_CardinalityType
<1>2. \E f \in [1..N -> S] : Sorted(f)
  BY SortExists DEF Sorts
<1>3. q \in [1..N -> S] /\ Sorted(q)
  BY <1>2 DEF InOrder
<1> HIDE DEF q
<1>4. \A i, j \in 1..N : i < j => Precedes(q[i], q[j]) BY <1>3
<1>5. \A i, j \in 1..N : q[i] = q[j] => i = j
  BY <1>1, <1>3, <1>4, OrderFacts
<1>6. q \in Injection(1..N, S)
  BY <1>3, <1>5 DEF Injection, IsInjective
<1>7. IsFiniteSet(1..N) /\ Cardinality(1..N) = N
  BY <1>1, FS_Interval
<1>8. q \in Surjection(1..N, S)
  BY <1>1, <1>6, <1>7, FS_Injection
<1> QED BY <1>3, <1>4, <1>8 DEF Sorts, Surjection, q

\* A limited SELECT returns the rows that come first, in order, and all of them
\* if the limit allows.
LEMMA FirstFacts ==
    ASSUME RowsTyped, NEW S \in SUBSET Ids, NEW n \in Nat
    PROVE  LET F == First(S, n)
               N == Cardinality(S)
               m == IF N < n THEN N ELSE n
           IN /\ N \in Nat /\ F \in Seq(S) /\ Len(F) = m
              /\ \A i, j \in 1..m : i < j => Precedes(F[i], F[j])
              /\ \A x \in S : \/ \E k \in 1..m : F[k] = x
                              \/ m = n /\ N > n /\ \A k \in 1..m : Precedes(F[k], x)
              /\ N <= n => ToSet(F) = S
              /\ ToSet(F) \subseteq S
              /\ \A x : x \in ToSet(F) <=> \E k \in 1..m : F[k] = x
              /\ IsFiniteSet(ToSet(F)) /\ Cardinality(ToSet(F)) <= n
              /\ \A k \in 1..m : F[k] = InOrder(S)[k]
<1> DEFINE N == Cardinality(S)
           m == IF N < n THEN N ELSE n
           q == InOrder(S)
           F == First(S, n)
<1>1. IsFiniteSet(S) /\ N \in Nat
  BY RowFacts, FS_Subset, FS_CardinalityType
<1>2. Sorts(q, S) BY InOrderSorts
<1>3. F = SubSeq(q, 1, m) BY DEF First
<1> HIDE DEF q, F
<1>4. /\ q \in [1..N -> S]
      /\ \A i, j \in 1..N : i < j => Precedes(q[i], q[j])
      /\ \A x \in S : \E k \in 1..N : q[k] = x
  BY <1>2 DEF Sorts
<1>5. F \in Seq(S) /\ Len(F) = m /\ \A k \in 1..m : F[k] = q[k]
  BY <1>1, <1>3, <1>4, SubSeqProperties
<1>6. \A i, j \in 1..m : i < j => Precedes(F[i], F[j])
  BY <1>1, <1>4, <1>5
<1>7. ASSUME NEW x \in S
      PROVE  \/ \E k \in 1..m : F[k] = x
             \/ m = n /\ N > n /\ \A k \in 1..m : Precedes(F[k], x)
  <2>1. PICK l \in 1..N : q[l] = x BY <1>4
  <2>2. CASE l <= m BY <1>1, <1>5, <2>1, <2>2
  <2>3. CASE l > m BY <1>1, <1>4, <1>5, <2>1, <2>3
  <2> QED BY <1>1, <2>2, <2>3
<1>8. DOMAIN F = 1..m BY <1>5, LenProperties
<1>9. \A x : x \in ToSet(F) <=> \E k \in 1..m : F[k] = x
  BY <1>8 DEF ToSet
<1>10. ToSet(F) \subseteq S BY <1>5, <1>8, <1>9, ElementOfSeq
<1>11. N <= n => ToSet(F) = S BY <1>1, <1>7, <1>9, <1>10
<1>12. IsFiniteSet(ToSet(F)) /\ Cardinality(ToSet(F)) <= n
  <2>1. F \in Surjection(1..m, ToSet(F))
    <3>1. F \in [1..m -> S] BY <1>5, <1>8, LenProperties
    <3>2. F \in [1..m -> ToSet(F)] BY <1>9, <3>1
    <3> QED BY <1>9, <3>2 DEF Surjection
  <2> HIDE DEF m
  <2>2. IsFiniteSet(1..m) /\ Cardinality(1..m) = m
    <3>1. m \in Nat BY <1>1 DEF m
    <3>2. IsFiniteSet(1..m) /\ Cardinality(1..m) = IF 1 > m THEN 0 ELSE m - 1 + 1
      BY <3>1, FS_Interval
    <3> QED BY <3>1, <3>2
  <2>3. IsFiniteSet(ToSet(F)) /\ Cardinality(ToSet(F)) <= m
    BY <2>1, <2>2, FS_Surjection
  <2>4. Cardinality(ToSet(F)) \in Nat BY <2>3, FS_CardinalityType
  <2>5. m \in Nat /\ m <= n BY <1>1 DEF m
  <2> QED BY <2>3, <2>4, <2>5
<1> QED BY <1>1, <1>5, <1>6, <1>7, <1>9, <1>10, <1>11, <1>12 DEF F, q

-----------------------------------------------------------------------------
(* The inductive invariant.                                                *)

\* What is asked, and where the request stands: only a search has a window, and
\* nothing is shown before it is captured.
Asked ==
    /\ query.kind # "page" => position \in Ids
    /\ pc \in {"watermark", "window"} =>
          /\ query.search
          /\ shown = <<>> /\ seek = 1
          /\ query.kind = "page" => position = None
    /\ pc = "watermark" => window = NoWindow
    /\ pc = "window" => window # NoWindow /\ window.max <= Len(rows)
    /\ pc \in {"read", "idle"} => (query.search <=> window # NoWindow)

\* The boundaries of a captured window hold the initial candidates and, of the
\* rows that are left, no other.
Framed ==
    window # NoWindow /\ pc # "window" =>
        /\ window.max <= Len(rows)
        /\ Accepted(window, None)
        /\ IsFiniteSet(candidates) /\ Cardinality(candidates) <= CandidateLimit
        /\ \A i \in candidates : i <= window.max
        /\ \A i \in Kept : Within(i, window) <=> i \in candidates
        /\ ToSet(shown) \subseteq candidates

\* What is followed throughout still matches.
Followed ==
    /\ throughout \subseteq Kept
    /\ \A i \in throughout : Passes(i, query)
    /\ pc \in {"read", "idle"} /\ query.search => throughout \subseteq candidates

\* The pages shown end at the cursor, and what they have not shown comes after.
Paged ==
    query.kind = "page" =>
        /\ position # None => shown # <<>> /\ position = shown[Len(shown)]
        /\ pc = "read" /\ position = None => shown = <<>>
        /\ pc = "idle" => position = None
        /\ \A k \in 1..(Len(shown) - 1) : Precedes(shown[k], shown[k + 1])
        /\ pc = "read" /\ position # None =>
              \A i \in throughout : i \in ToSet(shown) \/ Precedes(position, i)
        /\ pc = "idle" => throughout \subseteq ToSet(shown)

\* Neighbours lie on one side of the alert, at its time, at another time or, below
\* it, without a time; that is the order of the seeks.
Beyond(i) == IF query.kind = "next" THEN Precedes(position, i) ELSE Precedes(i, position)
Nearer(i, j) == IF query.kind = "next" THEN Precedes(i, j) ELSE Precedes(j, i)
Tier(i) == IF At(i) = At(position) THEN 1
           ELSE IF At(i) # Null \/ query.kind = "previous" THEN 2 ELSE 3
Tiers == IF query.kind = "previous" THEN 2 ELSE IF At(position) = Null THEN 1 ELSE 3

\* The seeks that are done found nothing that was there throughout.
Sought ==
    query.kind # "page" =>
        /\ pc = "read" =>
              /\ shown = <<>>
              /\ seek \in 1..Tiers
              /\ \A i \in throughout : Beyond(i) => Tier(i) >= seek
        /\ pc = "idle" =>
              \A i \in throughout : Beyond(i) => shown # <<>> /\ ~Nearer(i, shown[1])

QueueInv ==
    /\ QueueTypeOK
    /\ Asked
    /\ Framed
    /\ Followed
    /\ Paged
    /\ Sought

\* What makes the three invariants follow.
LEMMA TypedRows == QueueTypeOK => RowsTyped
  BY DEF QueueTypeOK, RowsTyped

LEMMA CandidatesLeft ==
    ASSUME QueueInv, window # NoWindow, pc # "window"
    PROVE  Candidates(window) = candidates \cap Kept
<1> DEFINE S == {i \in Kept : Within(i, window)}
<1>1. RowsTyped BY TypedRows DEF QueueInv
<1>2. S = candidates \cap Kept BY DEF QueueInv, Framed
<1>3. S \in SUBSET Ids BY <1>1, RowFacts
<1>4. /\ IsFiniteSet(candidates) /\ Cardinality(candidates) <= CandidateLimit
      /\ CandidateLimit \in Nat
  BY QueueAssumption DEF QueueInv, Framed
<1>5. /\ Cardinality(S) <= Cardinality(candidates)
      /\ Cardinality(S) \in Nat /\ Cardinality(candidates) \in Nat
  BY <1>2, <1>4, FS_Subset, FS_CardinalityType
<1>6. Cardinality(S) <= CandidateLimit BY <1>4, <1>5
<1> HIDE DEF S
<1>7. ToSet(First(S, CandidateLimit)) = S
  BY <1>1, <1>3, <1>4, <1>6, FirstFacts
<1> QED BY <1>2, <1>7 DEF Candidates, S

LEMMA InvImplies == QueueInv => NothingSkipped /\ SearchFrozen
<1> SUFFICES ASSUME QueueInv PROVE NothingSkipped /\ SearchFrozen
  OBVIOUS
<1>1. SearchFrozen
  BY CandidatesLeft DEF QueueInv, SearchFrozen, Framed
<1>2. NothingSkipped
  BY DEF QueueInv, NothingSkipped, Paged, Sought, Beyond, Nearer, Loaded
<1> QED BY <1>1, <1>2

-----------------------------------------------------------------------------
(* Steps of the other actors.                                              *)

\* rt is rs with more rows behind it; none gets another time or comes back.
Later(rs, rt) ==
    /\ rt \in Seq(Row) /\ Len(rs) <= Len(rt)
    /\ \A i \in 1..Len(rs) : rt[i].at = rs[i].at /\ (rt[i].kept => rs[i].kept)

LEMMA OthersStep ==
    ASSUME QueueInv, Later(rows, rows'), Len(rows') <= MaxRows,
           UNCHANGED <<readerVars, shown, candidates>>,
           throughout' \subseteq throughout,
           \A i \in throughout' : rows'[i].kept /\ query.review \in {"any", rows'[i].review}
    PROVE  QueueInv'
<1> USE DEF readerVars
<1>1. RowsTyped /\ RowsTyped'
  BY TypedRows DEF QueueInv, Later, RowsTyped
<1>2. /\ Len(rows) \in Nat /\ Len(rows') \in Nat /\ Len(rows) <= Len(rows')
      /\ Ids = 1..Len(rows) /\ Ids' = 1..Len(rows')
      /\ Kept \subseteq Ids /\ Kept' \subseteq Ids'
  <2>1. Len(rows) \in Nat /\ Ids = 1..Len(rows) /\ Kept \subseteq Ids
    BY <1>1, RowFacts
  <2>2. Len(rows') \in Nat /\ Ids' = 1..Len(rows') /\ Kept' \subseteq Ids'
    BY <1>1, LenProperties DEF RowsTyped, Ids, Kept
  <2> QED BY <2>1, <2>2 DEF Later
<1>3. /\ \A i \in Ids : rows'[i].at = rows[i].at
      /\ \A i \in Ids : i \in Kept' => i \in Kept
  BY <1>2 DEF Later, Kept, Ids
<1>4. \A i, j \in Ids : Precedes(i, j)' <=> Precedes(i, j)
  BY <1>3 DEF Precedes, At
<1>5. QueueTypeOK'
  <2>1. QueueTypeOK BY DEF QueueInv
  <2>2. rows' \in Seq(Row) /\ Len(rows') <= MaxRows BY DEF Later
  <2>3. shown' \in Seq(DOMAIN rows')
    BY <1>2, <2>1, SeqMonotonic DEF QueueTypeOK, Ids
  <2>4. position' \in 0..Len(rows') BY <1>2, <2>1 DEF QueueTypeOK
  <2>5. (candidates \cup throughout \subseteq DOMAIN rows)'
    BY <1>2, <2>1 DEF QueueTypeOK, Ids
  <2> QED BY <2>1, <2>2, <2>3, <2>4, <2>5 DEF QueueTypeOK
<1>6. Asked'
  <2>1. window # NoWindow => window.max \in Nat
    BY QueueAssumption DEF QueueInv, QueueTypeOK, Window
  <2>2. Asked /\ UNCHANGED <<pc, query, window, position, seek, shown>>
    BY DEF QueueInv
  <2>3. query.kind # "page" => position \in Ids'
    BY <1>2, <2>2 DEF Asked
  <2>4. pc = "window" => window # NoWindow /\ window.max <= Len(rows')
    BY <1>2, <2>1, <2>2 DEF Asked
  <2> QED BY <2>2, <2>3, <2>4 DEF Asked
<1>7. Framed'
  <2> SUFFICES ASSUME window # NoWindow, pc # "window" PROVE Framed'
    BY DEF Framed
  <2>1. window \in Window /\ candidates \subseteq Ids
    BY DEF QueueInv, QueueTypeOK, Ids
  <2>2. /\ window.max <= Len(rows) /\ Accepted(window, None)
        /\ IsFiniteSet(candidates) /\ Cardinality(candidates) <= CandidateLimit
        /\ \A i \in candidates : i <= window.max
        /\ \A i \in Kept : Within(i, window) <=> i \in candidates
        /\ ToSet(shown) \subseteq candidates
    BY DEF QueueInv, Framed
  <2>3. /\ window.max \in Nat /\ window.ceiling \in Nat /\ window.floor \in Nat
        /\ window.inScope \in Nat
    BY <2>1, QueueAssumption DEF Window
  <2>4. window.ceiling # None => window.ceiling \in Ids /\ window.floor \in Ids
    BY <1>2, <2>2, <2>3 DEF Accepted, None
  <2>5. (window.ceiling = None) = (window.inScope = 0)
    BY <2>2 DEF Accepted
  <2>6. Accepted(window, None)'
    BY <1>3, <2>2, <2>4, <2>5 DEF Accepted, At
  <2>7. \A i \in Ids : Within(i, window)' <=> Within(i, window)
    BY <1>3, <2>4 DEF Within, NotAbove, NotBelow, At
  <2>8. \A i \in Ids' : i \notin Ids => ~Within(i, window)'
    BY <1>2, <2>2, <2>3 DEF Within
  <2>9. (\A i \in Kept : Within(i, window) <=> i \in candidates)'
    BY <1>2, <1>3, <2>1, <2>2, <2>7, <2>8
  <2>10. (window.max <= Len(rows))' BY <1>2, <2>2, <2>3
  <2> QED BY <2>2, <2>6, <2>9, <2>10 DEF Framed
<1>8. Followed'
  <2>1. \A i \in throughout' : i \in Ids'
    BY <1>2 DEF QueueInv, Followed
  <2> QED BY <2>1 DEF QueueInv, Followed, Kept, Ids, Passes
<1>9. /\ shown \in Seq(Ids) /\ Len(shown) \in Nat
      /\ \A k \in 1..Len(shown) : shown[k] \in Ids
      /\ throughout \subseteq Ids
  BY LenProperties, ElementOfSeq DEF QueueInv, QueueTypeOK, Ids
<1>10. Paged'
  <2>1. query.kind = "page" => Paged BY DEF QueueInv
  <2>2. position # None => position \in Ids
    BY <1>2 DEF QueueInv, QueueTypeOK, None
  <2>3. \A k \in 1..(Len(shown) - 1) : shown[k] \in Ids /\ shown[k + 1] \in Ids
    BY <1>9
  <2> QED BY <1>4, <1>9, <2>1, <2>2, <2>3 DEF Paged
<1>11. Sought'
  <2> SUFFICES ASSUME query.kind # "page" PROVE Sought'
    BY DEF Sought
  <2>1. position \in Ids /\ Sought BY DEF QueueInv, Asked
  <2>2. \A i \in Ids : (Beyond(i)' <=> Beyond(i)) /\ Tier(i)' = Tier(i)
    BY <1>3, <1>4, <2>1 DEF Beyond, Tier, At
  <2>3. Tiers' = Tiers BY <1>3, <2>1 DEF Tiers, At
  <2>4. \A i, j \in Ids : Nearer(i, j)' <=> Nearer(i, j)
    BY <1>4 DEF Nearer
  <2>5. shown # <<>> => shown[1] \in Ids
    BY <1>9
  <2> QED BY <1>9, <2>1, <2>2, <2>3, <2>4, <2>5 DEF Sought
<1> QED BY <1>5, <1>6, <1>7, <1>8, <1>10, <1>11 DEF QueueInv

\* Inserting, pruning and reviewing only leave later rows.
LEMMA OtherActors ==
    ASSUME QueueInv,
           \/ \E at \in Null..MaxTime : InsertRow(at)
           \/ \E i \in DOMAIN rows, reviewed \in BOOLEAN : PruneRow(i, reviewed)
           \/ \E i \in DOMAIN rows, review \in Reviews : SubmitFeedback(i, review)
    PROVE  QueueInv'
<1>1. /\ rows \in Seq(Row) /\ Len(rows) \in Nat /\ DOMAIN rows = 1..Len(rows)
      /\ \A i \in 1..Len(rows) : rows[i] \in Row
      /\ MaxRows \in Nat /\ Len(rows) <= MaxRows
  BY QueueAssumption, LenProperties, ElementOfSeq DEF QueueInv, QueueTypeOK
<1>2. /\ throughout \subseteq Kept
      /\ \A i \in throughout : Passes(i, query)
  BY DEF QueueInv, Followed
<1>3. ASSUME NEW at \in Null..MaxTime, InsertRow(at) PROVE QueueInv'
  <2> DEFINE r == [at |-> at, review |-> "unreviewed", kept |-> TRUE]
  <2>1. r \in Row BY QueueAssumption DEF Row
  <2>2. /\ rows' \in Seq(Row) /\ Len(rows') = Len(rows) + 1
        /\ \A i \in 1..Len(rows) : rows'[i] = rows[i]
    BY <1>1, <1>3, <2>1 DEF InsertRow
  <2>3. Len(rows') <= MaxRows BY <1>1, <1>3, <2>2 DEF InsertRow
  <2>4. Later(rows, rows') BY <1>1, <2>2 DEF Later
  <2>5. \A i \in throughout : rows'[i].kept /\ query.review \in {"any", rows'[i].review}
    BY <1>1, <1>2, <2>2 DEF Kept, Passes
  <2>6. UNCHANGED <<readerVars, shown, candidates, throughout>> BY <1>3 DEF InsertRow
  <2> QED BY <2>3, <2>4, <2>5, <2>6, OthersStep
<1>4. ASSUME NEW i \in DOMAIN rows, NEW review \in Reviews, NEW kept \in BOOLEAN,
             rows' = [rows EXCEPT ![i] = [@ EXCEPT !.review = review, !.kept = kept]],
             kept => rows[i].kept,
             throughout' = StillMatching(throughout, rows'),
             UNCHANGED <<readerVars, shown, candidates>>
      PROVE  QueueInv'
  <2> DEFINE r == [rows[i] EXCEPT !.review = review, !.kept = kept]
  <2>1. r \in Row /\ r.at = rows[i].at /\ r.kept = kept
    BY <1>1 DEF Row
  <2>2. rows' = [rows EXCEPT ![i] = r] BY <1>4
  <2> HIDE DEF r
  <2>3. rows' \in Seq(Row) /\ Len(rows') = Len(rows)
    BY <1>1, <2>1, <2>2
  <2>4. Later(rows, rows')
    BY <1>1, <1>4, <2>1, <2>2, <2>3 DEF Later
  <2>5. /\ throughout' \subseteq throughout
        /\ \A j \in throughout' : rows'[j].kept /\ query.review \in {"any", rows'[j].review}
    BY <1>4 DEF StillMatching
  <2> QED BY <1>1, <1>4, <2>3, <2>4, <2>5, OthersStep
<1>5. ASSUME NEW i \in DOMAIN rows, NEW reviewed \in BOOLEAN, PruneRow(i, reviewed)
      PROVE  QueueInv'
  BY <1>4, <1>5, QueueAssumption DEF PruneRow
<1>6. ASSUME NEW i \in DOMAIN rows, NEW review \in Reviews, SubmitFeedback(i, review)
      PROVE  QueueInv'
  <2>1. rows[i].kept /\ rows[i] \in Row BY <1>1, <1>6 DEF SubmitFeedback, Kept
  <2>2. [rows[i] EXCEPT !.review = review]
          = [rows[i] EXCEPT !.review = review, !.kept = TRUE]
    BY <2>1 DEF Row
  <2>3. rows' = [rows EXCEPT ![i] = [@ EXCEPT !.review = review, !.kept = TRUE]]
    BY <1>6, <2>2 DEF SubmitFeedback
  <2> QED BY <1>4, <1>6, <2>1, <2>3 DEF SubmitFeedback
<1> QED BY <1>3, <1>5, <1>6

-----------------------------------------------------------------------------
(* The window of a search.                                                 *)

\* Between two rows in queue order is what the boundaries select.
LEMMA WithinIsBetween ==
    ASSUME RowsTyped, NEW w, w.ceiling \in Ids, w.floor \in Ids,
           w.ceiling = w.floor \/ Precedes(w.ceiling, w.floor),
           NEW i \in Ids, i <= w.max
    PROVE  Within(i, w) <=> /\ i = w.ceiling \/ Precedes(w.ceiling, i)
                            /\ i = w.floor \/ Precedes(i, w.floor)
<1>1. /\ w.ceiling \in Nat /\ w.ceiling # None /\ w.floor \in Nat /\ i \in Nat
      /\ At(w.ceiling) \in Nat /\ At(w.floor) \in Nat /\ At(i) \in Nat
  BY RowFacts DEF None
<1>2. Within(i, w) <=>
        \/ /\ At(w.ceiling) = Null
           /\ At(i) = Null /\ i <= w.ceiling /\ i >= w.floor
        \/ /\ At(w.ceiling) # Null /\ At(w.floor) = Null
           /\ NotAbove(i, w.ceiling) \/ (At(i) = Null /\ i >= w.floor)
        \/ /\ At(w.ceiling) # Null /\ At(w.floor) # Null
           /\ NotAbove(i, w.ceiling) /\ NotBelow(i, w.floor)
  BY <1>1 DEF Within
<1>3. CASE At(w.ceiling) = Null
  BY <1>1, <1>2, <1>3 DEF Precedes, Null
<1>4. CASE At(w.ceiling) # Null /\ At(w.floor) = Null
  BY <1>1, <1>2, <1>4 DEF Precedes, NotAbove, Null
<1>5. CASE At(w.ceiling) # Null /\ At(w.floor) # Null
  BY <1>1, <1>2, <1>5 DEF Precedes, NotAbove, NotBelow, Null
<1> QED BY <1>3, <1>4, <1>5

\* A captured window selects the candidates and is accepted back.
LEMMA WindowFacts ==
    ASSUME RowsTyped, Len(rows) <= MaxRows, NEW max \in 0..Len(rows)
    PROVE  LET w == NewWindow(max)
               C == ToSet(First({i \in Kept : i <= max}, CandidateLimit))
           IN /\ w \in Window /\ w.max = max
              /\ Accepted(w, None)
              /\ IsFiniteSet(C) /\ Cardinality(C) <= CandidateLimit
              /\ C \subseteq Ids
              /\ \A i \in C : i <= max
              /\ \A i \in Kept : Within(i, w) <=> i \in C
<1> DEFINE S == {i \in Kept : i <= max}
           q == InOrder(S)
           N == Cardinality(S)
           n == IF N < CandidateLimit THEN N ELSE CandidateLimit
           w == NewWindow(max)
           C == ToSet(First(S, CandidateLimit))
<1>1. S \in SUBSET Ids /\ \A i \in S : i <= max /\ i \in Kept
  BY RowFacts
<1>2. Sorts(q, S)
  BY <1>1, InOrderSorts
<1>3. CandidateLimit \in Nat \ {0} /\ MaxRows \in Nat /\ Len(rows) \in Nat
  BY QueueAssumption, RowFacts
<1> HIDE DEF S
<1>4. /\ N \in Nat
      /\ C \subseteq S
      /\ \A x : x \in C <=> \E k \in 1..n : q[k] = x
      /\ IsFiniteSet(C) /\ Cardinality(C) <= CandidateLimit
  <2> DEFINE F == First(S, CandidateLimit)
  <2>1. /\ N \in Nat
        /\ ToSet(F) \subseteq S
        /\ \A x : x \in ToSet(F) <=> \E k \in 1..n : F[k] = x
        /\ IsFiniteSet(ToSet(F)) /\ Cardinality(ToSet(F)) <= CandidateLimit
        /\ \A k \in 1..n : F[k] = q[k]
    BY <1>1, <1>3, FirstFacts
  <2> HIDE DEF F, q, n, N
  <2>2. \A x : x \in ToSet(F) <=> \E k \in 1..n : q[k] = x
    BY <2>1
  <2> QED BY <2>1, <2>2 DEF F
<1> HIDE DEF q, C
<1>5. /\ q \in [1..N -> S]
      /\ \A i, j \in 1..N : i < j => Precedes(q[i], q[j])
      /\ \A x \in S : \E k \in 1..N : q[k] = x
  BY <1>2 DEF Sorts
<1>6. q \in Seq(S) /\ Len(q) = N
  BY <1>4, <1>5
<1>7. w = [max |-> max,
           ceiling |-> IF n = 0 THEN None ELSE q[1],
           floor |-> IF n = 0 THEN None ELSE q[n],
           inScope |-> n,
           truncated |-> N > CandidateLimit]
  BY <1>6 DEF NewWindow, S, q
<1> HIDE DEF w
<1> HIDE DEF N
<1>8. /\ n \in 0..CandidateLimit /\ n <= N
      /\ N > CandidateLimit => n = CandidateLimit
      /\ n = 0 <=> N = 0
  BY <1>3, <1>4
<1> HIDE DEF n
<1>9. n # 0 => 1 \in 1..N /\ n \in 1..N /\ q[1] \in S /\ q[n] \in S
  BY <1>4, <1>5, <1>8
<1>10. /\ max \in Nat /\ max <= MaxRows
       /\ \A x \in S : x \in 1..max /\ x \in 0..MaxRows /\ At(x) \in Nat
  <2>1. max \in Nat /\ max <= Len(rows) /\ max <= MaxRows
    BY <1>3
  <2>2. ASSUME NEW x \in S PROVE x \in 1..max /\ x \in 0..MaxRows /\ At(x) \in Nat
    <3>1. x \in 1..Len(rows) /\ x <= max /\ At(x) \in Nat BY <1>1, RowFacts
    <3> QED BY <1>3, <2>1, <3>1
  <2> QED BY <2>1, <2>2
<1>11. /\ w.max = max /\ w.inScope = n
       /\ w.truncated => N > CandidateLimit
       /\ n = 0 => w.ceiling = None /\ w.floor = None
       /\ n # 0 => w.ceiling = q[1] /\ w.floor = q[n]
  BY <1>7
<1>12. w \in Window
  <2>1. max \in 0..MaxRows BY <1>3, <1>10
  <2>2. 0 \in 0..MaxRows BY <1>3
  <2>3. /\ (IF n = 0 THEN None ELSE q[1]) \in 0..MaxRows
        /\ (IF n = 0 THEN None ELSE q[n]) \in 0..MaxRows
    BY <1>9, <1>10, <2>2 DEF None
  <2>4. n \in 0..CandidateLimit /\ (N > CandidateLimit) \in BOOLEAN BY <1>8
  <2> QED BY <1>7, <2>1, <2>2, <2>3, <2>4 DEF Window
<1>13. n # 0 => w.ceiling = w.floor \/ Precedes(w.ceiling, w.floor)
  BY <1>5, <1>8, <1>9, <1>11
<1>14. Accepted(w, None)
  <2>1. CASE n = 0
    <3>1. /\ w.ceiling = 0 /\ w.floor = 0 /\ w.inScope = 0 /\ w.max \in Nat
          /\ ~w.truncated /\ 0 <= CandidateLimit
      BY <1>3, <1>4, <1>8, <1>10, <1>11, <2>1 DEF None
    <3> QED BY <3>1 DEF Accepted, None
  <2>2. CASE n # 0
    <3>1. /\ w.ceiling \in 1..max /\ w.floor \in 1..max
          /\ At(w.ceiling) \in Nat /\ At(w.floor) \in Nat
      <4>1. w.ceiling \in S /\ w.floor \in S BY <1>9, <1>11, <2>2
      <4> QED BY <1>10, <4>1
    <3>2. IF At(w.ceiling) = Null THEN At(w.floor) = Null /\ w.ceiling >= w.floor
          ELSE At(w.floor) # Null => ~(At(w.ceiling) < At(w.floor)
                                       \/ (At(w.ceiling) = At(w.floor)
                                           /\ w.ceiling < w.floor))
      <4>1. w.ceiling \in Nat /\ w.floor \in Nat BY <1>10, <3>1
      <4> QED BY <1>13, <2>2, <3>1, <4>1 DEF Precedes, Null
    <3>3. /\ w.ceiling \in Nat /\ w.floor \in Nat
          /\ w.ceiling <= w.max /\ w.floor <= w.max /\ 0 <= w.max
          /\ w.ceiling # 0 /\ w.floor # 0
      BY <1>10, <1>11, <3>1
    <3>4. /\ w.inScope <= CandidateLimit /\ w.inScope # 0
          /\ w.truncated => w.inScope = CandidateLimit
      BY <1>3, <1>8, <1>11, <2>2
    <3> QED BY <3>2, <3>3, <3>4 DEF Accepted, None
  <2> QED BY <2>1, <2>2
<1>15. ASSUME NEW i \in Kept PROVE Within(i, w) <=> i \in C
  <2> i \in Ids BY RowFacts
  <2>1. CASE n = 0
    BY <1>4, <1>11, <2>1 DEF Within
  <2>2. CASE n # 0 /\ ~(i <= max)
    BY <1>4, <1>1, <1>11, <2>2 DEF Within
  <2>3. CASE n # 0 /\ i <= max
    <3>1. i \in S BY <2>3 DEF S
    <3>2. PICK k \in 1..N : q[k] = i BY <1>5, <3>1
    <3>3. Within(i, w) <=> /\ i = q[1] \/ Precedes(q[1], i)
                           /\ i = q[n] \/ Precedes(i, q[n])
      BY <1>1, <1>9, <1>11, <1>13, <2>3, WithinIsBetween
    <3>4. i = q[1] \/ Precedes(q[1], i)
      BY <1>4, <1>5, <1>9, <2>3, <3>2
    <3>5. CASE k <= n
      BY <1>4, <1>5, <1>8, <1>9, <2>3, <3>2, <3>3, <3>4, <3>5
    <3>6. CASE k > n
      <4>1. Precedes(q[n], i) BY <1>4, <1>5, <1>8, <1>9, <2>3, <3>2, <3>6
      <4>2. ~(i = q[n]) /\ ~Precedes(i, q[n])
        BY <1>1, <1>9, <2>3, <3>1, <4>1, OrderFacts
      <4>3. ~Within(i, w) BY <3>3, <4>2
      <4>4. i \notin C
        <5>1. ASSUME NEW l \in 1..n, q[l] = i PROVE FALSE
          <6>1. l < k /\ l \in 1..N BY <1>4, <1>8, <3>2, <3>6
          <6>2. Precedes(i, i) BY <1>5, <3>2, <5>1, <6>1
          <6> QED BY <6>2, OrderFacts
        <5> QED BY <1>4, <5>1
      <4> QED BY <4>3, <4>4
    <3> QED BY <1>4, <1>8, <3>2, <3>5, <3>6
  <2> QED BY <2>1, <2>2, <2>3
<1>16. C \subseteq Ids /\ \A i \in C : i <= max
  BY <1>1, <1>4
<1> QED BY <1>4, <1>11, <1>12, <1>14, <1>15, <1>16 DEF C, w, S

-----------------------------------------------------------------------------
(* Steps of the analyst.                                                   *)

LEMMA StateFacts ==
    ASSUME QueueInv
    PROVE  /\ RowsTyped /\ rows \in Seq(Row) /\ Len(rows) <= MaxRows
           /\ Len(rows) \in Nat /\ Ids = 1..Len(rows) /\ DOMAIN rows = Ids
           /\ \A i \in Ids : At(i) \in Nat
           /\ Kept \subseteq Ids
           /\ shown \in Seq(Ids) /\ <<>> \in Seq(Ids) /\ Len(shown) \in Nat
           /\ throughout \subseteq Ids /\ candidates \subseteq Ids
           /\ window # NoWindow => window \in Window
<1>1. RowsTyped BY TypedRows DEF QueueInv
<1>2. <<>> \in Seq(Ids) BY EmptySeq
<1> QED BY <1>1, <1>2, RowFacts, LenProperties DEF QueueInv, QueueTypeOK, Ids

LEMMA LoadQueueStep ==
    ASSUME QueueInv, NEW search \in BOOLEAN, NEW review \in Filters,
           LoadQueue(search, review)
    PROVE  QueueInv'
<1>0. /\ rows' = rows /\ window' = NoWindow /\ candidates' = {} /\ position' = None
      /\ seek' = 1 /\ shown' = <<>>
      /\ query' = [kind |-> "page", search |-> search, review |-> review]
      /\ pc' = IF search THEN "watermark" ELSE "read"
      /\ throughout' = {i \in Kept : Passes(i, query')}
  BY DEF LoadQueue
<1>1. Kept' = Kept /\ Ids' = Ids BY <1>0 DEF Kept, Ids
<1>2. QueueTypeOK'
  <2>1. throughout' \subseteq DOMAIN rows' BY <1>0, StateFacts
  <2>2. query' \in [kind : Kinds, search : BOOLEAN, review : Filters \cup {"any"}]
    BY <1>0 DEF Kinds
  <2>3. position' \in 0..Len(rows') BY <1>0, StateFacts DEF None
  <2>4. shown' \in Seq(DOMAIN rows') BY <1>0, StateFacts
  <2>5. pc' \in {"idle", "watermark", "window", "read"} BY <1>0
  <2> QED BY <1>0, <2>1, <2>2, <2>3, <2>4, <2>5, StateFacts DEF QueueTypeOK
<1>3. Asked' BY <1>0 DEF Asked
<1>4. Framed' BY <1>0 DEF Framed
<1>5. Followed'
  <2>1. \A i \in throughout' : Passes(i, query)' BY <1>0 DEF Passes
  <2> QED BY <1>0, <1>1, <2>1 DEF Followed
<1>6. Paged'
  <2>1. \A k \in 1..(Len(shown') - 1) : FALSE BY <1>0
  <2>2. pc' # "idle" BY <1>0
  <2> QED BY <1>0, <2>1, <2>2 DEF Paged
<1>7. Sought' BY <1>0 DEF Sought
<1> QED BY <1>2, <1>3, <1>4, <1>5, <1>6, <1>7 DEF QueueInv

LEMMA OpenAlertStep ==
    ASSUME QueueInv, NEW a \in DOMAIN rows, NEW kind \in Kinds \ {"page"},
           NEW search \in BOOLEAN, NEW kept \in BOOLEAN, NEW review \in Filters,
           OpenAlert(a, kind, search, review, kept)
    PROVE  QueueInv'
<1>0. /\ rows' = rows /\ position' = a /\ seek' = 1 /\ shown' = <<>>
      /\ query' = [kind |-> kind, search |-> search, review |-> review]
      /\ throughout' = {j \in Kept : Passes(j, query') /\ (kept => j \in candidates)}
      /\ pc = "idle"
  BY DEF OpenAlert
<1>1. Kept' = Kept /\ Ids' = Ids BY <1>0 DEF Kept, Ids
<1>2. /\ kept => /\ UNCHANGED <<window, candidates>>
                 /\ pc' = "read" /\ search = TRUE /\ window # NoWindow
      /\ ~kept => /\ window' = NoWindow /\ candidates' = {}
                  /\ pc' = IF search THEN "watermark" ELSE "read"
  BY <1>0 DEF OpenAlert, QueueInv, Framed
<1>3. QueueTypeOK'
  <2>1. throughout' \subseteq DOMAIN rows' BY <1>0, StateFacts
  <2>2. query' \in [kind : Kinds, search : BOOLEAN, review : Filters \cup {"any"}]
    BY <1>0 DEF Kinds
  <2>3. position' \in 0..Len(rows') BY <1>0, StateFacts
  <2>4. shown' \in Seq(DOMAIN rows') BY <1>0, StateFacts
  <2>5. pc' \in {"idle", "watermark", "window", "read"} BY <1>2
  <2>6. candidates' \subseteq DOMAIN rows' /\ window' \in Window \cup {NoWindow}
    BY <1>0, <1>2, StateFacts
  <2> QED BY <1>0, <2>1, <2>2, <2>3, <2>4, <2>5, <2>6, StateFacts DEF QueueTypeOK
<1>4. Asked'
  BY <1>0, <1>1, <1>2, StateFacts DEF Asked
<1>5. Framed'
  <2>1. CASE ~kept BY <1>2, <2>1 DEF Framed
  <2>2. CASE kept
    <3>1. ToSet(<<>>) = {} BY DEF ToSet
    <3>2. Framed BY DEF QueueInv
    <3> QED BY <1>0, <1>1, <1>2, <2>2, <3>1, <3>2
            DEF Framed, Accepted, Within, At, NotAbove, NotBelow
  <2> QED BY <2>1, <2>2
<1>6. Followed'
  <2>1. \A i \in throughout' : Passes(i, query)' BY <1>0 DEF Passes
  <2>2. pc' \in {"read", "idle"} /\ query'.search => throughout' \subseteq candidates'
    BY <1>0, <1>2
  <2> QED BY <1>0, <1>1, <2>1, <2>2 DEF Followed
<1>7. Paged'
  BY <1>0 DEF Paged
<1>8. Sought'
  <2>1. pc' # "idle" BY <1>2
  <2>2. seek' \in 1..Tiers' /\ \A i \in throughout' : Tier(i)' >= seek'
    BY <1>0 DEF Tiers, Tier
  <2> QED BY <1>0, <2>1, <2>2 DEF Sought
<1> QED BY <1>3, <1>4, <1>5, <1>6, <1>7, <1>8 DEF QueueInv

LEMMA ReadWatermarkStep ==
    ASSUME QueueInv, ReadWatermark
    PROVE  QueueInv'
<1> DEFINE top == IF Kept = {} THEN 0 ELSE CHOOSE i \in Kept : \A j \in Kept : j <= i
<1>0. /\ UNCHANGED <<rows, query, position, seek, shown, candidates, throughout>>
      /\ pc = "watermark" /\ pc' = "window"
      /\ window' = [max |-> top, ceiling |-> None, floor |-> None, inScope |-> 0,
                    truncated |-> FALSE]
  BY DEF ReadWatermark
<1>1. Kept' = Kept /\ Ids' = Ids BY <1>0 DEF Kept, Ids
\* The newest row has the least distance to the last one.
<1>2. top \in 0..Len(rows)
  <2>1. CASE Kept = {} BY <2>1, StateFacts
  <2>2. CASE Kept # {}
    <3> DEFINE D == {Len(rows) - i : i \in Kept}
    <3>1. D \subseteq Nat /\ D # {} BY <2>2, StateFacts
    <3>2. PICK x \in D : \A y \in D : <<y, x>> \notin OpToRel(<, Nat)
      BY <3>1, WFMin, NatLessThanWellFounded
    <3>3. PICK i \in Kept : x = Len(rows) - i BY <3>2
    <3>4. ASSUME NEW j \in Kept PROVE j <= i
      <4>1. Len(rows) - j \in D /\ Len(rows) - j \in Nat /\ x \in Nat
        BY <3>1
      <4>2. ~(Len(rows) - j < x)
        BY <3>2, <4>1 DEF OpToRel
      <4> QED BY <3>3, <4>2, StateFacts
    <3>5. top \in Kept BY <2>2, <3>4
    <3> QED BY <3>5, StateFacts
  <2> QED BY <2>1, <2>2
<1> HIDE DEF top
<1>3. window' \in Window /\ window' # NoWindow /\ window'.max <= Len(rows)
  <2>1. /\ top \in 0..MaxRows /\ None \in 0..MaxRows /\ 0 \in 0..CandidateLimit
        /\ top <= Len(rows)
    BY <1>2, StateFacts, QueueAssumption DEF None
  <2>2. window' \in Window BY <1>0, <2>1 DEF Window
  <2> QED BY <1>0, <2>1, <2>2, WindowAssumption
<1>4. QueueTypeOK' BY <1>0, <1>3 DEF QueueInv, QueueTypeOK
<1>5. Asked' BY <1>0, <1>1, <1>3 DEF QueueInv, Asked
<1>6. Framed' BY <1>0 DEF Framed
<1>7. Followed' BY <1>0, <1>1 DEF QueueInv, Followed, Passes
<1>8. Paged' BY <1>0 DEF QueueInv, Paged, Precedes, At
<1>9. Sought' BY <1>0 DEF QueueInv, Sought
<1> QED BY <1>4, <1>5, <1>6, <1>7, <1>8, <1>9 DEF QueueInv

LEMMA CaptureWindowStep ==
    ASSUME QueueInv, CaptureWindow
    PROVE  QueueInv'
<1>0. /\ UNCHANGED <<rows, query, position, seek, shown>>
      /\ pc = "window" /\ pc' = "read"
      /\ window' = NewWindow(window.max)
      /\ candidates' = ToSet(First({i \in Kept : i <= window.max}, CandidateLimit))
      /\ throughout' = throughout \cap candidates'
  BY DEF CaptureWindow
<1>1. Kept' = Kept /\ Ids' = Ids BY <1>0 DEF Kept, Ids
<1>2. window.max \in 0..Len(rows)
  BY <1>0, StateFacts, QueueAssumption DEF QueueInv, Asked, Window
<1> DEFINE w == NewWindow(window.max)
           C == ToSet(First({i \in Kept : i <= window.max}, CandidateLimit))
<1>w. /\ w \in Window /\ w.max = window.max
      /\ Accepted(w, None)
      /\ IsFiniteSet(C) /\ Cardinality(C) <= CandidateLimit
      /\ C \subseteq Ids
      /\ \A i \in C : i <= window.max
      /\ \A i \in Kept : Within(i, w) <=> i \in C
  BY <1>2, StateFacts, WindowFacts
<1>c. window' = w /\ candidates' = C BY <1>0
<1> HIDE DEF w, C
<1>3. /\ window' \in Window /\ window'.max <= Len(rows)
      /\ Accepted(window', None)
      /\ IsFiniteSet(candidates') /\ Cardinality(candidates') <= CandidateLimit
      /\ candidates' \subseteq Ids
      /\ \A i \in candidates' : i <= window'.max
      /\ \A i \in Kept : Within(i, window') <=> i \in candidates'
  BY <1>2, <1>w, <1>c, StateFacts
<1>4. window' # NoWindow BY <1>3, WindowAssumption
<1>5. shown = <<>> /\ query.search /\ seek = 1 /\ (query.kind = "page" => position = None)
  BY <1>0 DEF QueueInv, Asked
<1>6. QueueTypeOK'
  <2>1. (candidates \cup throughout \subseteq DOMAIN rows)'
    BY <1>0, <1>3, StateFacts
  <2> QED BY <1>0, <1>3, <2>1 DEF QueueInv, QueueTypeOK
<1>7. Asked' BY <1>0, <1>1, <1>4, <1>5 DEF QueueInv, Asked
<1>8. Framed'
  <2>1. ToSet(shown') = {} BY <1>0, <1>5 DEF ToSet
  <2>2. Accepted(window, None)' BY <1>0, <1>3 DEF Accepted, At
  <2>3. (\A i \in Kept : Within(i, window) <=> i \in candidates)'
    BY <1>0, <1>1, <1>3 DEF Within, NotAbove, NotBelow, At
  <2> QED BY <1>0, <1>3, <2>1, <2>2, <2>3 DEF Framed
<1>9. Followed' BY <1>0, <1>1 DEF QueueInv, Followed, Passes
<1>10. Paged'
  <2>1. \A k \in 1..(Len(shown') - 1) : FALSE BY <1>0, <1>5
  <2> QED BY <1>0, <1>5, <2>1 DEF Paged
<1>11. Sought'
  <2>1. seek' \in 1..Tiers' /\ \A i \in throughout' : Tier(i)' >= seek'
    BY <1>0, <1>5 DEF Tiers, Tier
  <2> QED BY <1>0, <1>5, <2>1 DEF Sought
<1> QED BY <1>6, <1>7, <1>8, <1>9, <1>10, <1>11 DEF QueueInv

\* What a read of a request in progress ranges over.
LEMMA MatchingFacts ==
    ASSUME QueueInv, pc = "read"
    PROVE  /\ Matching \subseteq Kept /\ Matching \subseteq Ids
           /\ throughout \subseteq Matching
           /\ window # NoWindow => Matching \subseteq candidates
<1>1. Matching \subseteq Kept /\ Matching \subseteq Ids
  BY StateFacts DEF Matching
<1>2. query.search => window # NoWindow /\ Candidates(window) = candidates \cap Kept
  BY CandidatesLeft DEF QueueInv, Asked
<1>3. throughout \subseteq Matching
  BY <1>2 DEF QueueInv, Followed, Matching
<1>4. window # NoWindow => query.search BY DEF QueueInv, Asked
<1>5. window # NoWindow => Matching \subseteq candidates
  BY <1>2, <1>4 DEF Matching
<1> QED BY <1>1, <1>3, <1>5

\* The predicate of a cursor is the order of the queue.
LEMMA AfterIsPrecedes ==
    ASSUME RowsTyped, NEW i \in Ids, NEW c \in Ids
    PROVE  After(i, c) <=> Precedes(c, i)
<1>1. i \in Nat /\ c \in Nat /\ At(i) \in Nat /\ At(c) \in Nat BY RowFacts
<1> QED BY <1>1 DEF After, Precedes, Null

InOrderSeq(s) == \A k \in 1..(Len(s) - 1) : Precedes(s[k], s[k + 1])

\* A page put behind those shown before.
LEMMA PageAppended ==
    ASSUME NEW S, NEW s \in Seq(S), NEW t \in Seq(S), InOrderSeq(s), InOrderSeq(t),
           s # <<>> /\ t # <<>> => Precedes(s[Len(s)], t[1])
    PROVE  /\ s \o t \in Seq(S)
           /\ InOrderSeq(s \o t)
           /\ ToSet(s \o t) = ToSet(s) \cup ToSet(t)
           /\ t # <<>> => s \o t # <<>> /\ (s \o t)[Len(s \o t)] = t[Len(t)]
<1> DEFINE u == s \o t
<1>1. /\ u \in Seq(S) /\ Len(u) = Len(s) + Len(t)
      /\ \A i \in 1..Len(s) + Len(t) : u[i] = IF i <= Len(s) THEN s[i] ELSE t[i - Len(s)]
      /\ Len(s) \in Nat /\ Len(t) \in Nat
      /\ DOMAIN s = 1..Len(s) /\ DOMAIN t = 1..Len(t) /\ DOMAIN u = 1..Len(u)
  <2>1. u \in Seq(S) BY ConcatProperties
  <2> QED BY <2>1, ConcatProperties, LenProperties
<1> HIDE DEF u
<1>2. (s # <<>> => Len(s) > 0) /\ (t # <<>> <=> Len(t) > 0)
  BY <1>1, EmptySeq
<1>3. InOrderSeq(u)
  <2> SUFFICES ASSUME NEW k \in 1..(Len(u) - 1) PROVE Precedes(u[k], u[k + 1])
    BY DEF InOrderSeq
  <2>0. k < Len(s) \/ k = Len(s) \/ k > Len(s)
    <3>1. k \in Nat /\ Len(s) \in Nat BY <1>1
    <3> QED BY <3>1
  <2>1. CASE k < Len(s) BY <1>1, <2>1 DEF InOrderSeq
  <2>2. CASE k = Len(s)
    <3>1. u[k] = s[Len(s)] /\ u[k + 1] = t[1] /\ s # <<>> /\ t # <<>>
      BY <1>1, <2>2, EmptySeq
    <3> QED BY <3>1
  <2>3. CASE k > Len(s)
    <3> DEFINE j == k - Len(s)
    <3>0. /\ k \in 1..Len(s) + Len(t) /\ k + 1 \in 1..Len(s) + Len(t)
          /\ ~(k <= Len(s)) /\ ~(k + 1 <= Len(s))
          /\ k + 1 - Len(s) = j + 1 /\ j \in 1..(Len(t) - 1)
      BY <1>1, <2>3
    <3>1. u[k] = t[j] /\ u[k + 1] = t[j + 1]
      BY <1>1, <3>0
    <3> HIDE DEF j
    <3> QED BY <3>0, <3>1 DEF InOrderSeq
  <2> QED BY <2>0, <2>1, <2>2, <2>3
<1>4. ToSet(u) = ToSet(s) \cup ToSet(t)
  <2>1. ASSUME NEW i \in 1..Len(u) PROVE u[i] \in ToSet(s) \cup ToSet(t)
    <3>1. CASE i <= Len(s)
      <4>1. i \in 1..Len(s) /\ u[i] = s[i] BY <1>1, <3>1
      <4> QED BY <1>1, <4>1 DEF ToSet
    <3>2. CASE ~(i <= Len(s))
      <4>1. i - Len(s) \in 1..Len(t) /\ u[i] = t[i - Len(s)] BY <1>1, <3>2
      <4> QED BY <1>1, <4>1 DEF ToSet
    <3> QED BY <3>1, <3>2
  <2>2. ASSUME NEW i \in 1..Len(s) PROVE s[i] \in ToSet(u)
    <3>1. i \in 1..Len(u) /\ u[i] = s[i] BY <1>1
    <3> QED BY <1>1, <3>1 DEF ToSet
  <2>3. ASSUME NEW i \in 1..Len(t) PROVE t[i] \in ToSet(u)
    <3> DEFINE j == Len(s) + i
    <3>0. /\ j \in 1..Len(u) /\ ~(j <= Len(s)) /\ j - Len(s) = i
          /\ 1..Len(u) = 1..Len(s) + Len(t)
      BY <1>1
    <3> HIDE DEF j
    <3>1. j \in 1..Len(u) /\ u[j] = t[i] BY <1>1, <3>0
    <3> QED BY <1>1, <3>1 DEF ToSet
  <2> QED BY <1>1, <2>1, <2>2, <2>3 DEF ToSet
<1>5. ASSUME t # <<>> PROVE u # <<>> /\ u[Len(u)] = t[Len(t)]
  BY <1>1, <1>2, <1>5, EmptySeq
<1> QED BY <1>1, <1>3, <1>4, <1>5 DEF u

\* The pages go on from the cursor.
LEMMA PageShown ==
    ASSUME QueueInv, pc = "read", query.kind = "page", NEW t \in Seq(Ids),
           InOrderSeq(t), t # <<>> => position = None \/ Precedes(position, t[1]),
           ToSet(t) \subseteq Matching
    PROVE  /\ shown \o t \in Seq(Ids)
           /\ InOrderSeq(shown \o t)
           /\ ToSet(shown \o t) = ToSet(shown) \cup ToSet(t)
           /\ t # <<>> => /\ shown \o t # <<>>
                          /\ (shown \o t)[Len(shown \o t)] = t[Len(t)]
           /\ window # NoWindow => ToSet(shown \o t) \subseteq candidates
<1>1. Paged BY DEF QueueInv
<1>2. InOrderSeq(shown) BY <1>1 DEF Paged, InOrderSeq
<1>3. shown # <<>> => position # None /\ position = shown[Len(shown)]
  BY <1>1 DEF Paged
<1>4. /\ shown \o t \in Seq(Ids)
      /\ InOrderSeq(shown \o t)
      /\ ToSet(shown \o t) = ToSet(shown) \cup ToSet(t)
      /\ t # <<>> => /\ shown \o t # <<>>
                     /\ (shown \o t)[Len(shown \o t)] = t[Len(t)]
  BY <1>2, <1>3, StateFacts, PageAppended
<1>5. window # NoWindow => ToSet(shown) \subseteq candidates
  BY DEF QueueInv, Framed
<1> QED BY <1>4, <1>5, MatchingFacts

LEMMA ReadPageStep ==
    ASSUME QueueInv, ReadPage
    PROVE  QueueInv'
<1> DEFINE rest == {i \in Matching : position = None \/ After(i, position)}
           page == First(rest, PageLimit + 1)
<1>0. /\ UNCHANGED <<rows, query, window, seek, candidates, throughout>>
      /\ pc = "read" /\ query.kind = "page"
  BY DEF ReadPage
<1>1. Kept' = Kept /\ Ids' = Ids BY <1>0 DEF Kept, Ids
<1>2. Paged /\ (position # None => position \in Ids /\ position \in ToSet(shown))
  <2>1. Paged BY DEF QueueInv
  <2>2. position # None => position \in Ids
    BY StateFacts DEF QueueInv, QueueTypeOK, None
  <2>3. ASSUME position # None PROVE position \in ToSet(shown)
    <3>1. shown # <<>> /\ position = shown[Len(shown)] BY <1>0, <2>1, <2>3 DEF Paged
    <3>2. Len(shown) \in 1..Len(shown) /\ DOMAIN shown = 1..Len(shown)
      BY <3>1, StateFacts, LenProperties, EmptySeq
    <3> QED BY <3>1, <3>2 DEF ToSet
  <2> QED BY <2>1, <2>2, <2>3
\* The cursor is one of the candidates, so that it is not refused.
<1>3. query.search /\ position # None => Accepted(window, position)
  BY <1>0, <1>2 DEF QueueInv, Framed, Asked, Accepted
<1>4. PageLimit \in Nat /\ PageLimit >= 1 /\ PageLimit + 1 \in Nat
  BY QueueAssumption
<1>5. /\ rest \subseteq Ids /\ rest \subseteq Matching
      /\ \A i \in Matching : i \in rest <=> (position = None \/ Precedes(position, i))
  BY <1>0, <1>2, MatchingFacts, StateFacts, AfterIsPrecedes
<1> HIDE DEF rest
<1>6. /\ page \in Seq(rest) /\ Len(page) \in Nat
      /\ \A i, j \in 1..Len(page) : i < j => Precedes(page[i], page[j])
      /\ \A x \in rest : \/ \E k \in 1..Len(page) : page[k] = x
                         \/ Len(page) = PageLimit + 1 /\ \A k \in 1..Len(page) : Precedes(page[k], x)
      /\ Len(page) <= PageLimit + 1
      /\ Len(page) <= PageLimit => ToSet(page) = rest
      /\ ToSet(page) \subseteq rest
  <2> DEFINE N == Cardinality(rest)
             m == IF N < PageLimit + 1 THEN N ELSE PageLimit + 1
  <2>1. /\ N \in Nat /\ page \in Seq(rest) /\ Len(page) = m
        /\ \A i, j \in 1..m : i < j => Precedes(page[i], page[j])
        /\ \A x \in rest : \/ \E k \in 1..m : page[k] = x
                           \/ /\ m = PageLimit + 1 /\ N > PageLimit + 1
                              /\ \A k \in 1..m : Precedes(page[k], x)
        /\ N <= PageLimit + 1 => ToSet(page) = rest
        /\ ToSet(page) \subseteq rest
    BY <1>4, <1>5, StateFacts, FirstFacts
  <2>2. m \in Nat /\ m <= PageLimit + 1 /\ (m <= PageLimit => N <= PageLimit + 1)
    BY <1>4, <2>1
  <2> HIDE DEF page, m, N
  <2> QED BY <2>1, <2>2
<1>7. /\ ~(Len(page) > PageLimit) =>
            shown' = shown \o page /\ position' = None /\ pc' = "idle"
      /\ Len(page) > PageLimit =>
            /\ shown' = shown \o SubSeq(page, 1, PageLimit)
            /\ position' = page[PageLimit] /\ pc' = "read"
  BY <1>0, <1>3 DEF ReadPage, CursorOf, rest
<1> HIDE DEF page
<1>8. page \in Seq(Ids) /\ \A k \in 1..Len(page) : page[k] \in rest
  BY <1>5, <1>6, SeqMonotonic, ElementOfSeq
\* The two outcomes have this in common.
<1>9. ASSUME shown' \in Seq(Ids), InOrderSeq(shown'), pc' \in {"read", "idle"},
             position' \in 0..Len(rows),
             window # NoWindow => ToSet(shown') \subseteq candidates,
             position' # None => shown' # <<>> /\ position' = shown'[Len(shown')],
             pc' = "read" => position' # None,
             pc' = "idle" => position' = None /\ throughout \subseteq ToSet(shown'),
             pc' = "read" =>
                \A i \in throughout : i \in ToSet(shown') \/ Precedes(position', i)
      PROVE  QueueInv'
  <2>1. QueueTypeOK' BY <1>0, <1>9, StateFacts DEF QueueInv, QueueTypeOK
  <2>2. Asked' BY <1>0, <1>9 DEF QueueInv, Asked
  <2>3. Framed'
    BY <1>0, <1>1, <1>9 DEF QueueInv, Framed, Accepted, Within, NotAbove, NotBelow, At
  <2>4. Followed' BY <1>0, <1>1, <1>9 DEF QueueInv, Followed, Passes
  <2>5. Paged' BY <1>0, <1>9 DEF Paged, InOrderSeq, Precedes, At
  <2>6. Sought' BY <1>0 DEF Sought
  <2> QED BY <2>1, <2>2, <2>3, <2>4, <2>5, <2>6 DEF QueueInv
\* What has not been shown yet is in the rest.
<1>10. \A i \in throughout : i \in ToSet(shown) \/ i \in rest
  BY <1>0, <1>2, <1>5, MatchingFacts DEF Paged
<1>11. CASE ~(Len(page) > PageLimit)
  <2>1. InOrderSeq(page) BY <1>6 DEF InOrderSeq
  <2>2. page # <<>> => position = None \/ Precedes(position, page[1])
    <3>1. page # <<>> => 1 \in 1..Len(page) BY <1>6, EmptySeq
    <3> QED BY <1>5, <1>8, <3>1
  <2>3. ToSet(page) = rest BY <1>4, <1>6, <1>11
  <2>4. /\ shown' \in Seq(Ids) /\ InOrderSeq(shown')
        /\ ToSet(shown') = ToSet(shown) \cup rest
        /\ window # NoWindow => ToSet(shown') \subseteq candidates
    BY <1>0, <1>5, <1>7, <1>8, <1>11, <2>1, <2>2, <2>3, PageShown
  <2>5. throughout \subseteq ToSet(shown') BY <1>10, <2>4
  <2> QED BY <1>7, <1>9, <1>11, <2>4, <2>5, StateFacts DEF None
<1>12. CASE Len(page) > PageLimit
  <2> DEFINE cut == SubSeq(page, 1, PageLimit)
  <2>1. Len(page) = PageLimit + 1 BY <1>4, <1>6, <1>12
  <2>2. /\ cut \in Seq(Ids) /\ Len(cut) = PageLimit
        /\ \A k \in 1..PageLimit : cut[k] = page[k] /\ page[k] \in rest
    BY <1>4, <1>5, <1>8, <2>1, SubSeqProperties
  <2> HIDE DEF cut
  <2>3. InOrderSeq(cut) BY <1>4, <1>6, <2>1, <2>2 DEF InOrderSeq
  <2>4. cut # <<>> /\ cut[1] \in rest /\ cut[Len(cut)] = page[PageLimit]
    BY <1>4, <2>2, EmptySeq
  <2>5. DOMAIN cut = 1..PageLimit BY <2>2, LenProperties
  <2>6. ToSet(cut) \subseteq Matching BY <1>5, <2>2, <2>5 DEF ToSet
  <2>7. position = None \/ Precedes(position, cut[1]) BY <1>5, <2>4
  <2>8. /\ shown' = shown \o cut /\ position' = page[PageLimit] /\ pc' = "read"
    BY <1>7, <1>12 DEF cut
  <2>9. /\ shown' \in Seq(Ids) /\ InOrderSeq(shown')
        /\ ToSet(shown') = ToSet(shown) \cup ToSet(cut)
        /\ shown' # <<>> /\ shown'[Len(shown')] = page[PageLimit]
        /\ window # NoWindow => ToSet(shown') \subseteq candidates
    BY <1>0, <2>2, <2>3, <2>4, <2>6, <2>7, <2>8, PageShown
  <2>10. position' \in Ids /\ PageLimit \in 1..PageLimit
    BY <1>4, <1>5, <2>2, <2>8
  <2>11. position' \in 0..Len(rows) /\ position' # None
    BY <2>10, StateFacts DEF None
  <2>12. ASSUME NEW i \in throughout PROVE i \in ToSet(shown') \/ Precedes(position', i)
    <3>1. CASE i \in ToSet(shown) BY <2>9, <3>1
    <3>2. CASE i \in rest
      <4>1. CASE \E k \in 1..Len(page) : page[k] = i
        <5> PICK k \in 1..Len(page) : page[k] = i BY <4>1
        <5>1. CASE k <= PageLimit
          <6>1. k \in 1..PageLimit /\ cut[k] = i BY <2>2, <5>1
          <6> QED BY <2>5, <2>9, <6>1 DEF ToSet
        <5>2. CASE k = PageLimit + 1
          BY <1>4, <1>6, <2>1, <2>8, <5>2
        <5> QED BY <1>4, <2>1, <5>1, <5>2
      <4>2. CASE \A k \in 1..Len(page) : Precedes(page[k], i)
        BY <1>4, <2>1, <2>8, <4>2
      <4> QED BY <1>6, <3>2, <4>1, <4>2
    <3> QED BY <1>10, <3>1, <3>2
  <2> QED BY <1>9, <2>8, <2>9, <2>11, <2>12
<1> QED BY <1>11, <1>12

\* The k-th seek ranges over the neighbours of the k-th tier.
LEMMA SeekFacts ==
    ASSUME QueueInv, query.kind # "page"
    PROVE  LET seeks == Seeks(position, query.kind) IN
           /\ Len(seeks) = Tiers
           /\ \A k \in 1..Tiers : seeks[k] = {i \in Matching : Beyond(i) /\ Tier(i) = k}
           /\ \A i \in Matching : Beyond(i) => Tier(i) \in 1..Tiers
<1>1. /\ position \in Ids /\ position \in Nat /\ At(position) \in Nat
      /\ query.kind \in {"next", "previous"}
  <2>1. position \in Ids BY DEF QueueInv, Asked
  <2>2. query.kind \in Kinds BY DEF QueueInv, QueueTypeOK
  <2> QED BY <2>1, <2>2, StateFacts DEF Kinds
<1>2. \A i \in Matching : i \in Nat /\ At(i) \in Nat
  BY StateFacts DEF Matching
<1> DEFINE M == Matching
<1>3. \A i \in M : i \in Nat /\ At(i) \in Nat BY <1>2
<1> USE DEF Null
<1>4. CASE query.kind = "next" /\ At(position) # Null
  <2>1. Seeks(position, query.kind) =
            <<{i \in M : At(i) = At(position) /\ i < position},
              {i \in M : At(i) # Null /\ At(i) < At(position)},
              {i \in M : At(i) = Null}>>
    BY <1>4 DEF Seeks
  <2> HIDE DEF M
  <2>2. Tiers = 3 BY <1>4 DEF Tiers
  <2>3. /\ {i \in M : At(i) = At(position) /\ i < position}
              = {i \in M : Beyond(i) /\ Tier(i) = 1}
        /\ {i \in M : At(i) # Null /\ At(i) < At(position)}
              = {i \in M : Beyond(i) /\ Tier(i) = 2}
        /\ {i \in M : At(i) = Null} = {i \in M : Beyond(i) /\ Tier(i) = 3}
        /\ \A i \in M : Tier(i) \in 1..3
    BY <1>1, <1>3, <1>4 DEF Beyond, Tier, Precedes
  <2> QED BY <2>1, <2>2, <2>3 DEF M
<1>5. CASE query.kind = "next" /\ At(position) = Null
  <2>1. Seeks(position, query.kind) = <<{i \in M : At(i) = Null /\ i < position}>>
    BY <1>5 DEF Seeks
  <2> HIDE DEF M
  <2>2. Tiers = 1 BY <1>5 DEF Tiers
  <2>3. /\ {i \in M : At(i) = Null /\ i < position} = {i \in M : Beyond(i) /\ Tier(i) = 1}
        /\ \A i \in M : Beyond(i) => Tier(i) \in 1..1
    BY <1>1, <1>3, <1>5 DEF Beyond, Tier, Precedes
  <2> QED BY <2>1, <2>2, <2>3 DEF M
<1>6. CASE query.kind = "previous" /\ At(position) # Null
  <2>1. Seeks(position, query.kind) =
            <<{i \in M : At(i) = At(position) /\ i > position},
              {i \in M : At(i) > At(position)}>>
    BY <1>6 DEF Seeks
  <2> HIDE DEF M
  <2>2. Tiers = 2 BY <1>6 DEF Tiers
  <2>3. /\ {i \in M : At(i) = At(position) /\ i > position}
              = {i \in M : Beyond(i) /\ Tier(i) = 1}
        /\ {i \in M : At(i) > At(position)} = {i \in M : Beyond(i) /\ Tier(i) = 2}
        /\ \A i \in M : Tier(i) \in 1..2
    BY <1>1, <1>3, <1>6 DEF Beyond, Tier, Precedes
  <2> QED BY <2>1, <2>2, <2>3 DEF M
<1>7. CASE query.kind = "previous" /\ At(position) = Null
  <2>1. Seeks(position, query.kind) =
            <<{i \in M : At(i) = Null /\ i > position}, {i \in M : At(i) # Null}>>
    BY <1>7 DEF Seeks
  <2> HIDE DEF M
  <2>2. Tiers = 2 BY <1>7 DEF Tiers
  <2>3. /\ {i \in M : At(i) = Null /\ i > position} = {i \in M : Beyond(i) /\ Tier(i) = 1}
        /\ {i \in M : At(i) # Null} = {i \in M : Beyond(i) /\ Tier(i) = 2}
        /\ \A i \in M : Tier(i) \in 1..2
    BY <1>1, <1>3, <1>7 DEF Beyond, Tier, Precedes
  <2> QED BY <2>1, <2>2, <2>3 DEF M
<1> QED BY <1>1, <1>4, <1>5, <1>6, <1>7

\* A neighbour of an earlier tier is nearer.
LEMMA TierOrder ==
    ASSUME QueueInv, query.kind # "page", NEW i \in Ids, NEW j \in Ids,
           Beyond(i), Beyond(j), Tier(i) < Tier(j)
    PROVE  Nearer(i, j)
<1>1. /\ position \in Nat /\ At(position) \in Nat
      /\ i \in Nat /\ j \in Nat /\ At(i) \in Nat /\ At(j) \in Nat
  <2>1. position \in Ids BY DEF QueueInv, Asked
  <2> QED BY <2>1, StateFacts
<1>2. CASE query.kind = "next"
  BY <1>1, <1>2 DEF Beyond, Nearer, Tier, Precedes, Null
<1>3. CASE query.kind = "previous"
  BY <1>1, <1>3 DEF Beyond, Nearer, Tier, Precedes, Null
<1>4. query.kind \in {"next", "previous"}
  BY DEF QueueInv, QueueTypeOK, Kinds
<1> QED BY <1>2, <1>3, <1>4

LEMMA SeekStep ==
    ASSUME QueueInv, Seek
    PROVE  QueueInv'
<1> DEFINE S == Seeks(position, query.kind)[seek]
           found == InOrder(S)
           best == IF query.kind = "next" THEN Head(found) ELSE Last(found)
<1>0. /\ UNCHANGED <<rows, query, window, position, candidates, throughout>>
      /\ pc = "read" /\ query.kind # "page"
      /\ shown = <<>> /\ seek \in 1..Tiers /\ Tiers \in 1..3
      /\ \A i \in throughout : Beyond(i) => Tier(i) >= seek
  BY DEF Seek, QueueInv, Sought, Tiers
<1>1. Kept' = Kept /\ Ids' = Ids BY <1>0 DEF Kept, Ids
<1>2. /\ Len(Seeks(position, query.kind)) = Tiers
      /\ S = {i \in Matching : Beyond(i) /\ Tier(i) = seek}
      /\ \A i \in Matching : Beyond(i) => Tier(i) \in 1..Tiers
  BY <1>0, SeekFacts
<1>3. /\ found # <<>> => shown' = <<best>> /\ pc' = "idle" /\ seek' = 1
      /\ found = <<>> => /\ shown' = shown
                         /\ IF seek = Tiers THEN pc' = "idle" /\ seek' = 1
                            ELSE pc' = "read" /\ seek' = seek + 1
  BY <1>2 DEF Seek
<1> HIDE DEF S
<1>4. /\ S \subseteq Ids /\ S \subseteq Matching /\ Sorts(found, S)
      /\ Cardinality(S) \in Nat
  <2>1. S \subseteq Ids /\ S \subseteq Matching BY <1>0, <1>2, MatchingFacts
  <2>2. RowsTyped /\ IsFiniteSet(Ids) BY StateFacts, RowFacts
  <2> QED BY <2>1, <2>2, InOrderSorts, FS_Subset, FS_CardinalityType
<1> HIDE DEF found
<1>5. /\ found \in Seq(S) /\ Len(found) = Cardinality(S)
      /\ \A i, j \in 1..Len(found) : i < j => Precedes(found[i], found[j])
      /\ \A x \in S : \E k \in 1..Len(found) : found[k] = x
  BY <1>4 DEF Sorts
\* What the other conjuncts need to know of the step.
<1>6. ASSUME shown' = <<>> \/ \E b \in S : shown' = <<b>>,
             pc' \in {"read", "idle"}, seek' \in 1..3,
             Sought'
      PROVE  QueueInv'
  <2>1. shown' \in Seq(Ids)
    <3>1. CASE shown' = <<>> BY <3>1, EmptySeq
    <3>2. ASSUME NEW b \in S, shown' = <<b>> PROVE shown' \in Seq(Ids)
      <4>1. b \in Ids BY <1>4
      <4> QED BY <3>2, <4>1
    <3> QED BY <1>6, <3>1, <3>2
  <2>2. ToSet(shown') \subseteq S
    <3>1. CASE shown' = <<>> BY <3>1 DEF ToSet
    <3>2. ASSUME NEW b \in S, shown' = <<b>> PROVE ToSet(shown') \subseteq S
      BY <3>2 DEF ToSet
    <3> QED BY <1>6, <3>1, <3>2
  <2>3. QueueTypeOK' BY <1>0, <1>6, <2>1, StateFacts DEF QueueInv, QueueTypeOK
  <2>4. Asked' BY <1>0, <1>1, <1>6 DEF QueueInv, Asked
  <2>5. Framed'
    <3>1. window # NoWindow => ToSet(shown') \subseteq candidates
      BY <1>0, <1>4, <2>2, MatchingFacts
    <3> QED BY <1>0, <1>1, <3>1
            DEF QueueInv, Framed, Accepted, Within, NotAbove, NotBelow, At
  <2>6. Followed' BY <1>0, <1>1, <1>6 DEF QueueInv, Followed, Passes
  <2>7. Paged' BY <1>0 DEF Paged
  <2> QED BY <1>6, <2>3, <2>4, <2>5, <2>6, <2>7 DEF QueueInv
<1>7. /\ \A i \in Ids : (Beyond(i)' <=> Beyond(i)) /\ Tier(i)' = Tier(i)
      /\ \A i, j \in Ids : Nearer(i, j)' <=> Nearer(i, j)
      /\ Tiers' = Tiers
  BY <1>0 DEF Beyond, Nearer, Tier, Tiers, Precedes, At
<1>8. throughout \subseteq Matching /\ throughout \subseteq Ids
  BY <1>0, MatchingFacts, StateFacts
<1>9. CASE found = <<>>
  <2>1. S = {} BY <1>5, <1>9
  <2>2. \A i \in throughout : Beyond(i) => Tier(i) \in 1..Tiers /\ Tier(i) >= seek + 1
    BY <1>0, <1>2, <1>8, <2>1
  <2>3. CASE seek = Tiers
    <3>1. \A i \in throughout : ~Beyond(i) BY <1>0, <2>2, <2>3
    <3>2. Sought' BY <1>0, <1>3, <1>7, <1>8, <1>9, <2>3, <3>1 DEF Sought
    <3> QED BY <1>0, <1>3, <1>6, <1>9, <2>3, <3>2
  <2>4. CASE seek # Tiers
    <3>1. seek + 1 \in 1..Tiers /\ seek + 1 \in 1..3 BY <1>0, <2>4
    <3>2. /\ shown' = <<>> /\ pc' = "read" /\ seek' = seek + 1
      BY <1>0, <1>3, <1>9, <2>4
    <3>3. Sought' BY <1>0, <1>7, <1>8, <2>2, <3>1, <3>2 DEF Sought
    <3> QED BY <1>6, <3>1, <3>2, <3>3
  <2> QED BY <2>3, <2>4
<1>10. CASE found # <<>>
  <2> DEFINE l == IF query.kind = "next" THEN 1 ELSE Len(found)
  <2>1. /\ Len(found) \in Nat /\ Len(found) >= 1 /\ l \in 1..Len(found)
        /\ best = found[l] /\ best \in S
    <3>1. Len(found) \in Nat \ {0} BY <1>5, <1>10, EmptySeq
    <3>2. Head(found) = found[1] /\ Last(found) = found[Len(found)]
      BY <1>5, <1>10 DEF Last
    <3>3. \A k \in 1..Len(found) : found[k] \in S BY <1>5, ElementOfSeq
    <3> QED BY <3>1, <3>2, <3>3
  <2>2. shown' = <<best>> /\ pc' = "idle" /\ seek' = 1 BY <1>3, <1>10
  <2>3. ASSUME NEW i \in throughout, Beyond(i) PROVE ~Nearer(i, best)
    <3>0. /\ i \in Ids /\ best \in Ids /\ Beyond(best) /\ Tier(best) = seek
          /\ Tier(i) \in 1..Tiers /\ Tier(i) >= seek /\ i \in Matching
      BY <1>0, <1>2, <1>4, <1>8, <2>1, <2>3
    <3>1. CASE Tier(i) = seek
      <4>1. i \in S BY <1>2, <2>3, <3>0, <3>1
      <4>2. PICK k \in 1..Len(found) : found[k] = i BY <1>5, <4>1
      <4>3. CASE query.kind = "next"
        <5>1. k = 1 \/ Precedes(found[1], i) BY <1>5, <2>1, <4>2
        <5>2. i = best \/ Precedes(best, i) BY <2>1, <4>2, <4>3, <5>1
        <5>3. ~Precedes(i, best) BY <3>0, <5>2, StateFacts, OrderFacts
        <5> QED BY <4>3, <5>3 DEF Nearer
      <4>4. CASE query.kind # "next"
        <5>1. k = Len(found) \/ Precedes(i, found[Len(found)]) BY <1>5, <2>1, <4>2
        <5>2. i = best \/ Precedes(i, best) BY <2>1, <4>2, <4>4, <5>1
        <5>3. ~Precedes(best, i) BY <3>0, <5>2, StateFacts, OrderFacts
        <5> QED BY <4>4, <5>3 DEF Nearer
      <4> QED BY <4>3, <4>4
    <3>2. CASE Tier(i) # seek
      <4>1. Tier(best) < Tier(i) BY <1>0, <3>0, <3>2
      <4>2. Nearer(best, i) BY <1>0, <2>3, <3>0, <4>1, TierOrder
      <4> QED BY <3>0, <4>2, StateFacts, OrderFacts DEF Nearer
    <3> QED BY <3>1, <3>2
  <2> HIDE DEF best
  <2>4. shown' # <<>> /\ shown'[1] = best /\ best \in Ids
    BY <1>4, <2>1, <2>2
  <2>5. Sought' BY <1>0, <1>7, <1>8, <2>2, <2>3, <2>4 DEF Sought
  <2> QED BY <1>6, <2>1, <2>2, <2>5
<1> QED BY <1>9, <1>10

-----------------------------------------------------------------------------
(* The theorems.                                                           *)

LEMMA InvInit == Init => QueueInv
<1> SUFFICES ASSUME Init PROVE QueueInv OBVIOUS
<1>1. /\ rows = <<>> /\ shown = <<>> /\ pc = "idle" /\ window = NoWindow
      /\ position = 0 /\ seek = 1 /\ candidates = {} /\ throughout = {}
      /\ query = [kind |-> "page", search |-> FALSE, review |-> "any"]
  BY DEF Init, None
<1>2. QueueTypeOK
  <2>1. 0 <= MaxRows /\ Len(<<>>) = 0 BY QueueAssumption
  <2>2. <<>> \in Seq(Row) /\ <<>> \in Seq(DOMAIN rows) BY EmptySeq
  <2>3. query \in [kind : Kinds, search : BOOLEAN, review : Filters \cup {"any"}]
    BY <1>1 DEF Kinds
  <2> QED BY <1>1, <2>1, <2>2, <2>3 DEF QueueTypeOK
<1>3. Asked /\ Framed /\ Followed /\ Sought
  BY <1>1 DEF Asked, Framed, Followed, Sought
<1>4. Paged
  <2>1. \A k \in 1..(Len(shown) - 1) : FALSE BY <1>1
  <2> QED BY <1>1, <2>1 DEF Paged, None
<1> QED BY <1>2, <1>3, <1>4 DEF QueueInv

LEMMA InvStep == QueueInv /\ [Next]_vars => QueueInv'
<1> SUFFICES ASSUME QueueInv, [Next]_vars PROVE QueueInv'
  OBVIOUS
<1>1. CASE UNCHANGED vars
  BY <1>1 DEF vars, readerVars, QueueInv, QueueTypeOK, Asked, Framed, Followed, Paged, Sought,
     Accepted, Within, NotAbove, NotBelow, Passes, Precedes, At, Kept, Ids, Beyond, Nearer,
     Tier, Tiers
<1>2. ASSUME NEW search \in BOOLEAN, NEW review \in Filters, LoadQueue(search, review)
      PROVE  QueueInv'
  BY <1>2, LoadQueueStep
<1>3. ASSUME NEW i \in DOMAIN rows, NEW kind \in Kinds \ {"page"}, NEW search \in BOOLEAN,
             NEW kept \in BOOLEAN, NEW review \in Filters,
             OpenAlert(i, kind, search, review, kept)
      PROVE  QueueInv'
  BY <1>3, OpenAlertStep
<1> QED BY <1>1, <1>2, <1>3, OtherActors, ReadWatermarkStep, CaptureWindowStep,
           ReadPageStep, SeekStep DEF Next

\* Whatever is inserted, pruned and reviewed, the request stays well formed and
\* the server never refuses a cursor or a window that it issued.
THEOREM QueueTyped == Spec => []QueueTypeOK
<1>1. QueueInv => QueueTypeOK BY DEF QueueInv
<1> QED BY <1>1, InvInit, InvStep, PTL DEF Spec

\* Paging and stepping between neighbours skip no row that matched throughout,
\* for any size of a page.
THEOREM NothingIsSkipped == Spec => []NothingSkipped
<1>1. QueueInv => NothingSkipped BY InvImplies
<1> QED BY <1>1, InvInit, InvStep, PTL DEF Spec

\* The boundaries of a search select what is left of its initial candidates, for
\* any limit of candidates.
THEOREM SearchStaysFrozen == Spec => []SearchFrozen
<1>1. QueueInv => SearchFrozen BY InvImplies
<1> QED BY <1>1, InvInit, InvStep, PTL DEF Spec
=============================================================================
