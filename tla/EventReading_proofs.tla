------------------------ MODULE EventReading_proofs -------------------------
(***************************************************************************)
(* Proofs about how events are read: EventPaging, for any events, days,    *)
(* page sizes and writes, and EventSearch, for any events, books, filters  *)
(* and fields.                                                             *)
(*                                                                         *)
(* The pages.                                                              *)
(* The sort of every sortBy ends with _id, so it is a strict total order   *)
(* of the matching events, and each has a Rank in it: whatever the         *)
(* database returns, the k-th item of a query is the event of rank k - 1   *)
(* (OrderIsByRank).  A write that adds nothing can only lower the rank of  *)
(* an event that stays where it was, one that removes nothing only raise   *)
(* it (WriteMovesRanks).  So an event that was read on a page before       *)
(* cannot move to a later one in the first case, nor one that is still to  *)
(* be read to an earlier one in the second.                                *)
(*                                                                         *)
(* The query.  Each parameter of the filter adds to the query conditions   *)
(* that together hold of an event exactly if it has what the parameter     *)
(* asks for (EqMeans, InMeans, DateMeans, ParticipantsMean, BooksMean), so *)
(* the whole query holds exactly if the event is wanted (QueryMeans).  The *)
(* request never changes while it is handled and hits is set once, so what *)
(* FindEvents selects is still what the query of the last state selects.   *)
(***************************************************************************)
EXTENDS EventPaging, EventSearch, FiniteSetTheorems, SequenceTheorems, TLAPS

Fields == {"start", "end", "id"}
Sort == resolveSortSpec(ask.sortBy)
Key(i, k) == Sort[k][2] * FieldOf(i, Sort[k][1])

\* The place of an event in the result, counted from 0.
Predecessors(i) == {j \in Matching : Before(Sort, j, i)}
Rank(i) == Cardinality(Predecessors(i))
Count == Cardinality(Matching)

\* The ranks that are on the page the client is at: those from From up to,
\* and without, To.
From == (page - 1) * ask.size
To == page * ask.size

IdsOf(s) == {s[k] : k \in DOMAIN s}
Ranked(s, first) ==
  \A k \in DOMAIN s : s[k] \in Matching /\ Rank(s[k]) = first + k - 1

Read == "items" \notin pending

\* While nothing changes the result, the client has its events up to From.
Undisturbed ==
  added = {} /\ removed = {} =>
    /\ "total" \notin pending => total = Count
    /\ Ranked(seen, 0)
    /\ done => Len(seen) = Count
    /\ ~done => From <= Count /\ Len(seen) = From
    /\ ~done /\ Read =>
         /\ Ranked(items, From)
         /\ Len(items) = IF To < Count THEN ask.size ELSE Count - From

\* While nothing is added, what was read keeps a rank before the next page.
Shrinking ==
  added = {} =>
    /\ ~Repeated(seen)
    /\ ~done => \A i \in IdsOf(seen) \cap Matching : Rank(i) < From
    /\ ~done /\ Read =>
         /\ ~Repeated(items)
         /\ IdsOf(items) \cap IdsOf(seen) = {}
         /\ \A i \in IdsOf(items) \cap Matching : Rank(i) < To

\* While nothing is removed, what was not read keeps a rank on a page to come.
Growing ==
  removed = {} /\ ask.stop = "short" =>
    /\ done => Untouched \subseteq IdsOf(seen)
    /\ ~done /\ ~Read =>
         \A i \in Untouched : i \in IdsOf(seen) \/ Rank(i) >= From
    /\ ~done /\ Read =>
         \A i \in Untouched :
           \/ i \in IdsOf(seen) \cup IdsOf(items)
           \/ Rank(i) >= To /\ Len(items) = ask.size

IInv ==
  /\ TypeOK
  /\ done => pending = {}
  /\ Undisturbed
  /\ Shrinking
  /\ Growing

-----------------------------------------------------------------------------
\* Every sort has two dates and ends with the _id.
LEMMA SortShape ==
  ASSUME NEW sortBy
  PROVE  LET spec == resolveSortSpec(sortBy) IN
         /\ DOMAIN spec = 1 .. 3
         /\ \A k \in 1 .. 3 : spec[k][1] \in Fields /\ spec[k][2] \in {1, -1}
         /\ spec[3][1] = "id"
<1>1. CASE sortBy = "startDateAsc"
  BY <1>1 DEF resolveSortSpec, Fields
<1>2. CASE sortBy = "startDateDesc"
  BY <1>2 DEF resolveSortSpec, Fields
<1>3. CASE sortBy = "endDateAsc"
  BY <1>3 DEF resolveSortSpec, Fields
<1>4. CASE sortBy = "endDateDesc"
  BY <1>4 DEF resolveSortSpec, Fields
<1>5. CASE sortBy \notin {"startDateAsc", "startDateDesc", "endDateAsc", "endDateDesc"}
  BY <1>5 DEF resolveSortSpec, Fields
<1> QED BY <1>1, <1>2, <1>3, <1>4, <1>5

LEMMA SortIs ==
  /\ DOMAIN Sort = 1 .. 3
  /\ \A k \in 1 .. 3 : Sort[k][1] \in Fields /\ Sort[k][2] \in {1, -1}
  /\ Sort[3][1] = "id"
BY SortShape DEF Sort

LEMMA MatchingTypes ==
  ASSUME TypeOK
  PROVE  /\ Matching \subseteq Ids /\ IsFiniteSet(Matching) /\ Count \in Nat
         /\ Count <= Cardinality(Ids)
         /\ \A i \in Matching : i \in Int /\ i \in DOMAIN store
                                /\ store[i].start \in Int /\ store[i].end \in Int
<1>1. Matching \subseteq Ids
  BY DEF TypeOK, Matching
<1>2. \A i \in Matching : i \in DOMAIN store /\ store[i] \in Events
  BY DEF TypeOK, Matching
<1>3. \A i \in Matching : i \in Int /\ store[i].start \in Int /\ store[i].end \in Int
  BY <1>1, <1>2, IdAssumption DEF Events
<1>4. IsFiniteSet(Matching) /\ Count \in Nat /\ Count <= Cardinality(Ids)
  BY <1>1, FS_Subset, FS_CardinalityType, IdAssumption DEF Count
<1> QED BY <1>1, <1>2, <1>3, <1>4

LEMMA KeyTypes ==
  ASSUME TypeOK, NEW i \in Matching, NEW k \in 1 .. 3
  PROVE  Key(i, k) \in Int /\ FieldOf(i, Sort[k][1]) \in Int
<1>1. Sort[k][1] \in Fields /\ Sort[k][2] \in {1, -1}
  BY SortIs
<1>2. FieldOf(i, Sort[k][1]) \in Int
  BY <1>1, MatchingTypes DEF Fields, FieldOf
<1> QED BY <1>1, <1>2 DEF Key

\* Two events have the same field when they have the same key.
LEMMA SameKey ==
  ASSUME TypeOK, NEW i \in Matching, NEW j \in Matching, NEW k \in 1 .. 3
  PROVE  FieldOf(i, Sort[k][1]) = FieldOf(j, Sort[k][1]) <=> Key(i, k) = Key(j, k)
<1>1. Sort[k][2] \in {1, -1}
  BY SortIs
<1> QED BY <1>1, KeyTypes DEF Key

LEMMA Lexicographic ==
  ASSUME TypeOK, NEW i \in Matching, NEW j \in Matching
  PROVE  Before(Sort, i, j) <=>
           \/ Key(i, 1) < Key(j, 1)
           \/ Key(i, 1) = Key(j, 1) /\ Key(i, 2) < Key(j, 2)
           \/ Key(i, 1) = Key(j, 1) /\ Key(i, 2) = Key(j, 2) /\ Key(i, 3) < Key(j, 3)
<1> DEFINE Same(l) == FieldOf(i, Sort[l][1]) = FieldOf(j, Sort[l][1])
           At(k) == (\A l \in 1 .. k - 1 : Same(l)) /\ Key(i, k) < Key(j, k)
<1>1. Before(Sort, i, j) <=> \E k \in 1 .. 3 : At(k)
  BY SortIs DEF Before, Key
<1>2. \A l \in 1 .. 3 : Same(l) <=> Key(i, l) = Key(j, l)
  BY SameKey
<1> HIDE DEF Same
<1>3. At(1) <=> Key(i, 1) < Key(j, 1)
  OBVIOUS
<1>4. At(2) <=> Same(1) /\ Key(i, 2) < Key(j, 2)
  OBVIOUS
<1>5. At(3) <=> Same(1) /\ Same(2) /\ Key(i, 3) < Key(j, 3)
  OBVIOUS
<1> HIDE DEF At
<1>6. (\E k \in 1 .. 3 : At(k)) <=> At(1) \/ At(2) \/ At(3)
  <2>1. \A k \in 1 .. 3 : k = 1 \/ k = 2 \/ k = 3
    OBVIOUS
  <2> QED BY <2>1
<1> QED BY <1>1, <1>2, <1>3, <1>4, <1>5, <1>6

\* The tiebreaker makes the order strict and total.
LEMMA StrictTotalOrder ==
  ASSUME TypeOK
  PROVE  /\ \A i \in Matching : ~Before(Sort, i, i)
         /\ \A i, j, k \in Matching :
              Before(Sort, i, j) /\ Before(Sort, j, k) => Before(Sort, i, k)
         /\ \A i, j \in Matching : i # j => Before(Sort, i, j) \/ Before(Sort, j, i)
<1>1. \A i \in Matching : ~Before(Sort, i, i)
  BY Lexicographic, KeyTypes
<1>2. ASSUME NEW i \in Matching, NEW j \in Matching, NEW k \in Matching,
             Before(Sort, i, j), Before(Sort, j, k)
      PROVE  Before(Sort, i, k)
  BY <1>2, Lexicographic, KeyTypes
<1>3. ASSUME NEW i \in Matching, NEW j \in Matching, i # j
      PROVE  Before(Sort, i, j) \/ Before(Sort, j, i)
  <2>1. Key(i, 3) # Key(j, 3)
    <3>1. FieldOf(i, Sort[3][1]) = i /\ FieldOf(j, Sort[3][1]) = j
      BY SortIs DEF FieldOf
    <3> QED BY <1>3, <3>1, SameKey
  <2> QED BY <2>1, Lexicographic, KeyTypes
<1> QED BY <1>1, <1>2, <1>3

-----------------------------------------------------------------------------
LEMMA RankType ==
  ASSUME TypeOK, NEW i \in Matching
  PROVE  /\ Predecessors(i) \subseteq Matching /\ IsFiniteSet(Predecessors(i))
         /\ Rank(i) \in Nat /\ Rank(i) < Count
<1>1. Predecessors(i) \subseteq Matching /\ i \notin Predecessors(i)
  BY StrictTotalOrder DEF Predecessors
<1>2. IsFiniteSet(Predecessors(i)) /\ Rank(i) \in Nat /\ Rank(i) <= Count
  BY <1>1, MatchingTypes, FS_Subset, FS_CardinalityType DEF Rank, Count
<1>3. Rank(i) # Count
  BY <1>1, MatchingTypes, FS_Subset DEF Rank, Count
<1> QED BY <1>1, <1>2, <1>3, MatchingTypes

\* Who comes before another has a lower rank.
LEMMA RankGrows ==
  ASSUME TypeOK, NEW i \in Matching, NEW j \in Matching, Before(Sort, i, j)
  PROVE  Rank(i) < Rank(j)
<1>1. Predecessors(i) \subseteq Predecessors(j)
  BY StrictTotalOrder DEF Predecessors
<1>2. i \in Predecessors(j) /\ i \notin Predecessors(i)
  BY StrictTotalOrder DEF Predecessors
<1>3. Rank(i) <= Rank(j) /\ Rank(i) # Rank(j)
  BY <1>1, <1>2, RankType, FS_Subset DEF Rank
<1> QED BY <1>3, RankType

LEMMA RankTells ==
  ASSUME TypeOK, NEW i \in Matching, NEW j \in Matching, Rank(i) = Rank(j)
  PROVE  i = j
BY StrictTotalOrder, RankGrows, RankType

\* An enumeration without repetition of as many events as there are leaves
\* none out.
LEMMA OrderIsOnto ==
  ASSUME TypeOK, NEW s \in Orders(Sort)
  PROVE  /\ s \in [1 .. Count -> Matching]
         /\ \A k, l \in 1 .. Count : k < l => s[k] # s[l] /\ ~Before(Sort, s[l], s[k])
         /\ \A i \in Matching : \E k \in 1 .. Count : s[k] = i
<1>1. s \in [1 .. Count -> Matching]
  BY DEF Orders, Count
<1>2. \A k, l \in 1 .. Count : k < l => s[k] # s[l] /\ ~Before(Sort, s[l], s[k])
  BY DEF Orders, Count
<1>3. \A k, l \in 1 .. Count : s[k] = s[l] => k = l
  <2> SUFFICES ASSUME NEW k \in 1 .. Count, NEW l \in 1 .. Count, s[k] = s[l], k # l
               PROVE  FALSE
    OBVIOUS
  <2>1. k < l \/ l < k
    BY MatchingTypes
  <2> QED BY <1>2, <2>1
<1>4. s \in Injection(1 .. Count, Matching)
  BY <1>1, <1>3 DEF Injection, IsInjective
<1>5. IsFiniteSet(1 .. Count) /\ Cardinality(1 .. Count) = Count
  BY FS_Interval, MatchingTypes
<1>6. s \in Surjection(1 .. Count, Matching)
  BY <1>4, <1>5, MatchingTypes, FS_Injection DEF Count
<1> QED BY <1>1, <1>2, <1>6 DEF Surjection

\* Whatever order the database returns, it is the one by rank.
LEMMA OrderIsByRank ==
  ASSUME TypeOK, NEW s \in Orders(Sort)
  PROVE  /\ s \in [1 .. Count -> Matching]
         /\ \A k \in 1 .. Count : Rank(s[k]) = k - 1
         /\ \A i \in Matching : s[Rank(i) + 1] = i
<1>1. s \in [1 .. Count -> Matching] /\ Count \in Nat
  BY OrderIsOnto, MatchingTypes
<1>2. ASSUME NEW k \in 1 .. Count
      PROVE  Rank(s[k]) = k - 1
  <2> DEFINE first == [l \in 1 .. k - 1 |-> s[l]]
  <2>1. ASSUME NEW l \in 1 .. k - 1
        PROVE  s[l] \in Predecessors(s[k])
    <3>1. l \in 1 .. Count /\ l < k /\ s[l] \in Matching /\ s[k] \in Matching
      BY <1>1, <1>2, <2>1
    <3>2. s[l] # s[k] /\ ~Before(Sort, s[k], s[l])
      BY <1>2, <3>1, OrderIsOnto
    <3> QED BY <3>1, <3>2, StrictTotalOrder DEF Predecessors
  <2>2. ASSUME NEW i \in Predecessors(s[k])
        PROVE  \E l \in 1 .. k - 1 : s[l] = i
    <3>1. i \in Matching /\ Before(Sort, i, s[k]) /\ s[k] \in Matching
      BY <1>1, <1>2 DEF Predecessors
    <3>2. PICK l \in 1 .. Count : s[l] = i
      BY <3>1, OrderIsOnto
    <3>3. l # k
      BY <3>1, <3>2, StrictTotalOrder
    <3>4. ~(k < l)
      BY <1>2, <3>1, <3>2, OrderIsOnto
    <3>5. l \in 1 .. k - 1
      BY <1>1, <1>2, <3>2, <3>3, <3>4
    <3> QED BY <3>2, <3>5
  <2>3. \A l, m \in 1 .. k - 1 : s[l] = s[m] => l = m
    <3> SUFFICES ASSUME NEW l \in 1 .. k - 1, NEW m \in 1 .. k - 1, s[l] = s[m], l # m
                 PROVE  FALSE
      OBVIOUS
    <3>1. l \in 1 .. Count /\ m \in 1 .. Count /\ (l < m \/ m < l)
      BY <1>1, <1>2
    <3> QED BY <3>1, OrderIsOnto
  <2>4. first \in Bijection(1 .. k - 1, Predecessors(s[k]))
    <3>1. first \in [1 .. k - 1 -> Predecessors(s[k])]
      BY <2>1
    <3>2. first \in Injection(1 .. k - 1, Predecessors(s[k]))
      BY <3>1, <2>3 DEF Injection, IsInjective
    <3>3. first \in Surjection(1 .. k - 1, Predecessors(s[k]))
      BY <3>1, <2>2 DEF Surjection
    <3> QED BY <3>2, <3>3 DEF Bijection
  <2>5. IsFiniteSet(1 .. k - 1) /\ Cardinality(1 .. k - 1) = k - 1
    BY <1>1, FS_Interval
  <2>6. ExistsBijection(1 .. k - 1, Predecessors(s[k]))
    BY <2>4 DEF ExistsBijection
  <2> QED BY <2>5, <2>6, FS_Bijection DEF Rank
<1>3. ASSUME NEW i \in Matching
      PROVE  s[Rank(i) + 1] = i
  <2>1. PICK k \in 1 .. Count : s[k] = i
    BY OrderIsOnto
  <2>2. Rank(i) = k - 1
    BY <1>2, <2>1
  <2>3. Rank(i) + 1 = k
    BY <1>1, <2>2
  <2> QED BY <2>1, <2>3
<1> QED BY <1>1, <1>2, <1>3

-----------------------------------------------------------------------------
LEMMA PageTypes ==
  ASSUME TypeOK
  PROVE  /\ ask.size \in Nat \ {0}
         /\ From \in Nat /\ To \in Nat /\ To = From + ask.size
<1>1. ask.size \in Nat \ {0} /\ page \in Nat \ {0}
  BY PageAssumption DEF TypeOK, Asks
<1>2. page - 1 \in Nat
  BY <1>1
<1>3. \A p, z \in Nat : p * z \in Nat /\ (p + 1) * z = p * z + z
  OBVIOUS
<1>4. (page - 1) * ask.size \in Nat /\ ((page - 1) + 1) * ask.size = (page - 1) * ask.size + ask.size
  BY <1>1, <1>2, <1>3
<1>5. (page - 1) + 1 = page
  BY <1>1
<1>6. To = From + ask.size
  BY <1>4, <1>5 DEF From, To
<1> QED BY <1>1, <1>4, <1>6 DEF From

\* What a query returns for the page: the events whose ranks are on it, in
\* their order.
LEMMA PageIsByRank ==
  ASSUME TypeOK, NEW s \in Orders(Sort)
  PROVE  LET t == Slice(s, page, ask.size)
             last == IF To < Count THEN To ELSE Count
         IN  /\ t \in Seq(Ids)
             /\ Len(t) = IF From < last THEN last - From ELSE 0
             /\ Ranked(t, From)
             /\ \A i \in Matching : From <= Rank(i) /\ Rank(i) < To => i \in IdsOf(t)
<1> DEFINE t == Slice(s, page, ask.size)
           last == IF To < Count THEN To ELSE Count
<1>1. /\ s \in [1 .. Count -> Matching] /\ Count \in Nat
      /\ From \in Nat /\ To \in Nat /\ last \in Nat /\ last <= Count /\ last <= To
      /\ From < To
  BY OrderIsByRank, MatchingTypes, PageTypes
<1>2. Len(s) = Count
  BY <1>1
<1>3. t = SubSeq(s, From + 1, last)
  BY <1>2 DEF Slice, From, To
<1>4. \A k \in From + 1 .. last : k \in 1 .. Count /\ s[k] \in Matching
  BY <1>1
<1>5. /\ t \in Seq(Matching)
      /\ Len(t) = IF From + 1 <= last THEN last - (From + 1) + 1 ELSE 0
      /\ \A k \in 1 .. last - (From + 1) + 1 : t[k] = s[From + 1 + k - 1]
  <2> HIDE DEF last, t
  <2>1. From + 1 \in Int /\ last \in Int
    BY <1>1
  <2>2. \A k \in From + 1 .. last : s[k] \in Matching
    BY <1>4
  <2> QED BY ONLY <1>3, <2>1, <2>2, SubSeqProperties
<1> HIDE DEF t, last
<1>6. Len(t) = IF From < last THEN last - From ELSE 0
  BY <1>1, <1>5
<1>7. DOMAIN t = 1 .. Len(t) /\ Len(t) \in Nat
  BY <1>5
<1>8. \A k \in 1 .. Len(t) : From + k \in 1 .. Count /\ t[k] = s[From + k]
  <2> SUFFICES ASSUME NEW k \in 1 .. Len(t)
               PROVE  From + k \in 1 .. Count /\ t[k] = s[From + k]
    OBVIOUS
  <2>1. From < last /\ k \in 1 .. last - From
    BY <1>1, <1>6, <1>7
  <2>2. last - (From + 1) + 1 = last - From /\ From + 1 + k - 1 = From + k
    BY <1>1, <2>1
  <2>3. From + k \in 1 .. Count
    BY <1>1, <2>1
  <2> QED BY <1>5, <2>1, <2>2, <2>3
<1>9. Ranked(t, From)
  <2> SUFFICES ASSUME NEW k \in 1 .. Len(t)
               PROVE  t[k] \in Matching /\ Rank(t[k]) = From + k - 1
    BY <1>7 DEF Ranked
  <2> QED BY <1>1, <1>8, OrderIsByRank
<1>10. ASSUME NEW i \in Matching, From <= Rank(i), Rank(i) < To
       PROVE  i \in IdsOf(t)
  <2> DEFINE k == Rank(i) - From + 1
  <2>1. Rank(i) \in Nat /\ Rank(i) < Count
    BY RankType
  <2>2. Rank(i) < last
    BY <1>10, <2>1 DEF last
  <2>3. k \in 1 .. Len(t) /\ From + k = Rank(i) + 1
    BY <1>1, <1>6, <1>10, <2>1, <2>2
  <2>4. t[k] = i
    BY <1>8, <2>3, OrderIsByRank
  <2> QED BY <1>7, <2>3, <2>4 DEF IdsOf
<1>11. t \in Seq(Ids)
  BY <1>5, MatchingTypes
<1> QED BY <1>6, <1>9, <1>10, <1>11 DEF t, last

-----------------------------------------------------------------------------
LEMMA InitOK == Init => IInv
<1> SUFFICES ASSUME Init PROVE IInv
  OBVIOUS
<1>1. TypeOK
  <2>1. DOMAIN store \subseteq Ids /\ \A i \in DOMAIN store : store[i] \in Events
    BY DEF Init, Stores
  <2>2. 0 \in 0 .. Cardinality(Ids)
    BY FS_CardinalityType, IdAssumption
  <2>3. ask \in Asks /\ page \in Nat \ {0} /\ pending \subseteq {"items", "total"}
    BY DEF Init
  <2>7. done \in BOOLEAN
    BY DEF Init
  <2>4. items \in Seq(Ids) /\ seen \in Seq(Ids)
    BY EmptySeq DEF Init
  <2>5. added \subseteq Ids /\ removed \subseteq Ids /\ writes \in 0 .. MaxWrites
    BY WriteAssumption DEF Init
  <2>6. total \in 0 .. Cardinality(Ids)
    BY <2>2 DEF Init
  <2> QED BY <2>1, <2>3, <2>4, <2>5, <2>6, <2>7 DEF TypeOK
<1>2. page = 1 /\ ask.size \in Nat \ {0} /\ From = 0 /\ ~done /\ ~Read
  BY <1>1, PageTypes DEF Init, From, Read
<1>3. seen = <<>> /\ Len(seen) = 0 /\ DOMAIN seen = {}
  BY DEF Init
<1>4. Undisturbed
  BY <1>1, <1>2, <1>3, MatchingTypes DEF Init, Undisturbed, Ranked
<1>5. Shrinking
  BY <1>2, <1>3 DEF Shrinking, Repeated, IdsOf
<1>6. Growing
  BY <1>1, <1>2, RankType DEF Growing, Untouched
<1> QED BY <1>1, <1>2, <1>4, <1>5, <1>6 DEF IInv, Init

\* The result and its ranks depend on the collection and the request only.
LEMMA SameResult ==
  ASSUME store' = store, ask' = ask
  PROVE  /\ Sort' = Sort /\ Matching' = Matching /\ Count' = Count
         /\ \A i : Rank(i)' = Rank(i)
         /\ \A s, first : Ranked(s, first)' = Ranked(s, first)
<1>1. Sort' = Sort
  BY DEF Sort
<1>2. Matching' = Matching
  BY DEF Matching
<1>3. \A i, j : Before(Sort, i, j)' = Before(Sort, i, j)
  BY <1>1 DEF Before, FieldOf
<1>4. \A i : Predecessors(i)' = Predecessors(i)
  BY <1>2, <1>3 DEF Predecessors
<1>5. \A i : Rank(i)' = Rank(i)
  BY <1>4 DEF Rank
<1>6. Count' = Count
  BY <1>2 DEF Count
<1>7. \A s, first : Ranked(s, first)' = Ranked(s, first)
  BY <1>2, <1>5 DEF Ranked
<1> QED BY <1>1, <1>2, <1>5, <1>6, <1>7

LEMMA QueryItemsOK == IInv /\ QueryItems => IInv'
<1> SUFFICES ASSUME IInv, QueryItems PROVE IInv'
  OBVIOUS
<1>1. PICK s \in Orders(Sort) : items' = Slice(s, page, ask.size)
  BY DEF QueryItems, Sort
<1>2. /\ "items" \in pending /\ pending' = pending \ {"items"}
      /\ UNCHANGED <<store, ask, page, total, seen, done, added, removed, writes>>
  BY DEF QueryItems
<1>3. TypeOK /\ ~done /\ ~done' /\ ~Read /\ Read'
  BY <1>2 DEF IInv, Read
<1> DEFINE last == IF To < Count THEN To ELSE Count
<1>4. /\ items' \in Seq(Ids)
      /\ Len(items') = IF From < last THEN last - From ELSE 0
      /\ Ranked(items', From)
      /\ \A i \in Matching : From <= Rank(i) /\ Rank(i) < To => i \in IdsOf(items')
  BY <1>1, <1>3, PageIsByRank
<1>5. /\ Matching' = Matching /\ Count' = Count
      /\ \A i : Rank(i)' = Rank(i)
      /\ \A t, first : Ranked(t, first)' = Ranked(t, first)
      /\ From' = From /\ To' = To
  BY <1>2, SameResult DEF From, To
<1>6. From \in Nat /\ To = From + ask.size /\ ask.size \in Nat \ {0} /\ Count \in Nat
  BY <1>3, PageTypes, MatchingTypes
<1>7. TypeOK'
  BY <1>2, <1>3, <1>4 DEF TypeOK
<1>8. Undisturbed'
  <2> SUFFICES ASSUME added' = {}, removed' = {}
               PROVE  /\ "total" \notin pending' => total' = Count'
                      /\ Ranked(seen, 0)'
                      /\ From' <= Count' /\ Len(seen)' = From'
                      /\ Ranked(items, From)'
                      /\ Len(items)' = IF To' < Count' THEN ask.size' ELSE Count' - From'
    BY <1>3 DEF Undisturbed
  <2>1. /\ "total" \notin pending => total = Count
        /\ Ranked(seen, 0) /\ From <= Count /\ Len(seen) = From
    BY <1>2, <1>3 DEF IInv, Undisturbed
  <2>2. Len(items') = IF To < Count THEN ask.size ELSE Count - From
    BY <1>4, <1>6, <2>1
  <2>3. Ranked(items, From)' /\ Ranked(seen, 0)'
    BY <1>2, <1>4, <1>5, <2>1 DEF Ranked
  <2> QED BY <1>2, <1>5, <2>1, <2>2, <2>3
<1>9. \A k \in DOMAIN items' : items'[k] \in Matching /\ Rank(items'[k]) = From + k - 1
  BY <1>4 DEF Ranked
<1>10. Shrinking'
  <2> SUFFICES ASSUME added' = {}
               PROVE  /\ ~Repeated(seen)'
                      /\ \A i \in (IdsOf(seen) \cap Matching)' : Rank(i)' < From'
                      /\ ~Repeated(items)'
                      /\ IdsOf(items)' \cap IdsOf(seen)' = {}
                      /\ \A i \in (IdsOf(items) \cap Matching)' : Rank(i)' < To'
    BY <1>3 DEF Shrinking
  <2>1. ~Repeated(seen) /\ \A i \in IdsOf(seen) \cap Matching : Rank(i) < From
    BY <1>2, <1>3 DEF IInv, Shrinking
  <2>2. ~Repeated(items')
    <3> SUFFICES ASSUME NEW k \in DOMAIN items', NEW l \in DOMAIN items', items'[k] = items'[l]
                 PROVE  k = l
      BY DEF Repeated
    <3>1. From + k - 1 = From + l - 1
      BY <1>9
    <3>2. k \in Int /\ l \in Int
      BY <1>4
    <3> QED BY <1>6, <3>1, <3>2
  <2>3. \A k \in DOMAIN items' : From <= Rank(items'[k]) /\ Rank(items'[k]) < To
    <3> SUFFICES ASSUME NEW k \in DOMAIN items'
                 PROVE  From <= From + k - 1 /\ From + k - 1 < To
      BY <1>9
    <3>1. k \in 1 .. Len(items') /\ Len(items') \in Nat
      BY <1>4
    <3>2. Len(items') = last - From /\ last <= To
      BY <1>4, <1>6, <3>1
    <3> QED BY <1>6, <3>1, <3>2
  <2>4. IdsOf(items') \cap IdsOf(seen) = {}
    <3> SUFFICES ASSUME NEW k \in DOMAIN items', items'[k] \in IdsOf(seen)
                 PROVE  FALSE
      BY DEF IdsOf
    <3>1. Rank(items'[k]) < From /\ From <= Rank(items'[k])
      BY <1>9, <2>1, <2>3
    <3> QED BY <1>3, <1>6, <1>9, <3>1, RankType
  <2>5. \A i \in IdsOf(items') : Rank(i) < To
    BY <2>3 DEF IdsOf
  <2> QED BY <1>2, <1>5, <2>1, <2>2, <2>4, <2>5 DEF Repeated, IdsOf
<1>11. Growing'
  <2> SUFFICES ASSUME removed' = {}, ask'.stop = "short", NEW i \in Untouched'
               PROVE  \/ i \in (IdsOf(seen) \cup IdsOf(items))'
                      \/ Rank(i)' >= To' /\ Len(items)' = ask.size'
    BY <1>3 DEF Growing
  <2>1. i \in Untouched
    BY <1>2, <1>5 DEF Untouched
  <2>2. i \in Matching /\ (i \in IdsOf(seen) \/ Rank(i) >= From)
    BY <1>2, <1>3, <2>1 DEF IInv, Growing, Untouched
  <2>3. CASE i \in IdsOf(seen)
    BY <1>2, <2>3 DEF IdsOf
  <2>4. CASE Rank(i) >= From /\ Rank(i) < To
    BY <1>4, <2>2, <2>4 DEF IdsOf
  <2>5. CASE Rank(i) >= To
    <3>1. Rank(i) \in Nat /\ Rank(i) < Count
      BY <1>3, <2>2, RankType
    <3>2. Len(items') = ask.size
      BY <1>4, <1>6, <2>5, <3>1
    <3> QED BY <1>2, <1>5, <2>5, <3>2
  <2>6. Rank(i) \in Nat
    BY <1>3, <2>2, RankType
  <2> QED BY <1>6, <2>2, <2>3, <2>4, <2>5, <2>6
<1> QED BY <1>2, <1>3, <1>7, <1>8, <1>10, <1>11 DEF IInv

LEMMA QueryTotalOK == IInv /\ QueryTotal => IInv'
<1> SUFFICES ASSUME IInv, QueryTotal PROVE IInv'
  OBVIOUS
<1>1. /\ "total" \in pending /\ pending' = pending \ {"total"}
      /\ total' = Cardinality(Matching)
      /\ UNCHANGED <<store, ask, page, items, seen, done, added, removed, writes>>
  BY DEF QueryTotal
<1>2. TypeOK /\ ~done /\ ~done' /\ Read' = Read
  BY <1>1 DEF IInv, Read
<1>3. /\ Matching' = Matching /\ Count' = Count
      /\ \A i : Rank(i)' = Rank(i)
      /\ \A t, first : Ranked(t, first)' = Ranked(t, first)
      /\ From' = From /\ To' = To
  BY <1>1, SameResult DEF From, To
<1>4. TypeOK'
  <2>1. total' \in 0 .. Cardinality(Ids)
    BY <1>1, <1>2, MatchingTypes, FS_CardinalityType, IdAssumption DEF Count
  <2> QED BY <1>1, <1>2, <2>1 DEF TypeOK
<1>5. Undisturbed'
  <2>1. Ranked(seen, 0)' = Ranked(seen, 0) /\ Ranked(items, From)' = Ranked(items, From)
    BY <1>1, <1>3 DEF Ranked
  <2>2. total' = Count'
    BY <1>1, <1>3 DEF Count
  <2> QED BY <1>1, <1>2, <1>3, <2>1, <2>2 DEF IInv, Undisturbed
<1>6. Shrinking'
  BY <1>1, <1>2, <1>3 DEF IInv, Shrinking, Repeated, IdsOf
<1>7. Growing'
  BY <1>1, <1>2, <1>3 DEF IInv, Growing, Untouched, IdsOf
<1> QED BY <1>2, <1>4, <1>5, <1>6, <1>7 DEF IInv

\* A page is put behind those before.
LEMMA Appended ==
  ASSUME TypeOK
  PROVE  /\ seen \o items \in Seq(Ids)
         /\ Len(seen \o items) = Len(seen) + Len(items)
         /\ DOMAIN (seen \o items) = 1 .. Len(seen) + Len(items)
         /\ \A k \in 1 .. Len(seen) + Len(items) :
              (seen \o items)[k] = IF k <= Len(seen) THEN seen[k] ELSE items[k - Len(seen)]
         /\ IdsOf(seen \o items) = IdsOf(seen) \cup IdsOf(items)
<1>1. seen \in Seq(Ids) /\ items \in Seq(Ids)
  BY DEF TypeOK
<1>2. /\ Len(seen) \in Nat /\ DOMAIN seen = 1 .. Len(seen)
      /\ Len(items) \in Nat /\ DOMAIN items = 1 .. Len(items)
  BY <1>1
<1>3. /\ seen \o items \in Seq(Ids)
      /\ Len(seen \o items) = Len(seen) + Len(items)
      /\ \A k \in 1 .. Len(seen) + Len(items) :
           (seen \o items)[k] = IF k <= Len(seen) THEN seen[k] ELSE items[k - Len(seen)]
  BY <1>1, ConcatProperties
<1>4. DOMAIN (seen \o items) = 1 .. Len(seen) + Len(items)
  BY <1>3
<1> DEFINE all == seen \o items
<1> HIDE DEF all
<1>5. \A k \in DOMAIN all : all[k] \in IdsOf(seen) \cup IdsOf(items)
  <2> SUFFICES ASSUME NEW k \in 1 .. Len(seen) + Len(items)
               PROVE  all[k] \in IdsOf(seen) \cup IdsOf(items)
    BY <1>4 DEF all
  <2>1. CASE k <= Len(seen)
    BY <1>2, <1>3, <2>1 DEF all, IdsOf
  <2>2. CASE ~(k <= Len(seen))
    <3>1. k - Len(seen) \in DOMAIN items
      BY <1>2, <2>2
    <3> QED BY <1>2, <1>3, <2>2, <3>1 DEF all, IdsOf
  <2> QED BY <2>1, <2>2
<1>6. ASSUME NEW k \in DOMAIN seen
      PROVE  seen[k] \in IdsOf(all)
  <2>1. k \in DOMAIN all /\ all[k] = seen[k]
    BY <1>2, <1>3, <1>4, <1>6 DEF all
  <2> QED BY <2>1 DEF IdsOf
<1>7. ASSUME NEW k \in DOMAIN items
      PROVE  items[k] \in IdsOf(all)
  <2> DEFINE l == Len(seen) + k
  <2>1. l \in 1 .. Len(seen) + Len(items) /\ ~(l <= Len(seen)) /\ l - Len(seen) = k
    BY <1>2, <1>7
  <2>2. l \in DOMAIN all /\ all[l] = items[k]
    BY <1>3, <1>4, <2>1 DEF all
  <2> QED BY <2>2 DEF IdsOf
<1>8. IdsOf(all) = IdsOf(seen) \cup IdsOf(items)
  BY <1>5, <1>6, <1>7 DEF IdsOf
<1> QED BY <1>3, <1>4, <1>8 DEF all

LEMMA TakePageOK == IInv /\ TakePage => IInv'
<1> SUFFICES ASSUME IInv, TakePage PROVE IInv'
  OBVIOUS
<1>1. /\ pending = {} /\ ~done /\ seen' = seen \o items
      /\ UNCHANGED <<store, ask, items, total, added, removed, writes>>
  BY DEF TakePage
<1> DEFINE Enough == \/ ask.stop = "short" /\ Len(items) < ask.size
                     \/ ask.stop = "total" /\ page * ask.size >= total
<1>2. \/ Enough /\ done' /\ page' = page /\ pending' = pending
      \/ ~Enough /\ ~done' /\ page' = page + 1 /\ pending' = {"items", "total"}
  BY <1>1 DEF TakePage
<1>3. TypeOK /\ Read
  BY <1>1 DEF IInv, Read
<1>4. /\ Matching' = Matching /\ Count' = Count
      /\ \A i : Rank(i)' = Rank(i)
      /\ \A t, first : Ranked(t, first)' = Ranked(t, first)
  BY <1>1, SameResult
<1>5. /\ From \in Nat /\ To = From + ask.size /\ ask.size \in Nat \ {0} /\ Count \in Nat
      /\ page \in Nat \ {0} /\ total \in Nat
  BY <1>3, PageTypes, MatchingTypes, FS_CardinalityType, IdAssumption DEF TypeOK
<1>6. ~done' => From' = To /\ "items" \in pending' /\ "total" \in pending'
  <2>1. (page + 1) - 1 = page
    BY <1>5
  <2> QED BY <1>1, <1>2, <2>1 DEF From, To
<1>7. /\ seen' \in Seq(Ids) /\ Len(seen') = Len(seen) + Len(items)
      /\ DOMAIN seen' = 1 .. Len(seen) + Len(items)
      /\ \A k \in 1 .. Len(seen) + Len(items) :
           seen'[k] = IF k <= Len(seen) THEN seen[k] ELSE items[k - Len(seen)]
      /\ IdsOf(seen') = IdsOf(seen) \cup IdsOf(items)
  BY <1>1, <1>3, Appended
<1>8. /\ Len(seen) \in Nat /\ DOMAIN seen = 1 .. Len(seen)
      /\ Len(items) \in Nat /\ DOMAIN items = 1 .. Len(items)
  BY <1>3 DEF TypeOK
<1>9. TypeOK'
  <2>1. page' \in Nat \ {0} /\ pending' \subseteq {"items", "total"}
    BY <1>1, <1>2, <1>5
  <2>2. done' \in BOOLEAN
    BY <1>3 DEF TakePage, TypeOK
  <2>3. ask' \in Asks /\ items' \in Seq(Ids) /\ seen' \in Seq(Ids)
    BY <1>1, <1>3, <1>7 DEF TypeOK
  <2> QED BY <1>1, <1>3, <2>1, <2>2, <2>3 DEF TypeOK
<1>10. done' => pending' = {}
  BY <1>1, <1>2
<1>11. ask.stop = "short" \/ ask.stop = "total"
  BY <1>3 DEF TypeOK, Asks
<1>12. Undisturbed'
  <2> SUFFICES ASSUME added' = {}, removed' = {}
               PROVE  /\ "total" \notin pending' => total' = Count'
                      /\ Ranked(seen, 0)'
                      /\ done' => Len(seen)' = Count'
                      /\ ~done' => From' <= Count' /\ Len(seen)' = From'
    BY <1>6 DEF Undisturbed, Read
  <2>1. /\ total = Count /\ Ranked(seen, 0) /\ From <= Count /\ Len(seen) = From
        /\ Ranked(items, From)
        /\ Len(items) = IF To < Count THEN ask.size ELSE Count - From
    BY <1>1, <1>3 DEF IInv, Undisturbed
  <2>2. ASSUME NEW k \in DOMAIN seen'
        PROVE  seen'[k] \in Matching /\ Rank(seen'[k]) = 0 + k - 1
    <3>1. CASE k <= Len(seen)
      <4>1. k \in DOMAIN seen /\ seen'[k] = seen[k]
        BY <1>7, <1>8, <2>2, <3>1
      <4> QED BY <2>1, <4>1 DEF Ranked
    <3>2. CASE ~(k <= Len(seen))
      <4>1. k - Len(seen) \in DOMAIN items /\ seen'[k] = items[k - Len(seen)] /\ k \in Nat
        BY <1>7, <1>8, <2>2, <3>2
      <4>2. Rank(items[k - Len(seen)]) = From + (k - Len(seen)) - 1
        BY <2>1, <4>1 DEF Ranked
      <4> QED BY <1>5, <2>1, <4>1, <4>2 DEF Ranked
    <3> QED BY <3>1, <3>2
  <2>3. Ranked(seen, 0)'
    BY <1>4, <2>2 DEF Ranked
  <2>4. CASE Enough
    <3>1. To >= Count
      BY <1>5, <2>1, <2>4 DEF To
    <3>2. Len(seen') = Count
      BY <1>5, <1>7, <2>1, <3>1
    <3> QED BY <1>1, <1>2, <1>4, <2>1, <2>3, <2>4, <3>2
  <2>5. CASE ~Enough
    <3>1. Len(items) = ask.size /\ To <= Count
      BY <1>5, <1>8, <1>11, <2>1, <2>5 DEF To
    <3>2. Len(seen') = To
      BY <1>5, <1>7, <2>1, <3>1
    <3> QED BY <1>1, <1>2, <1>4, <1>6, <2>1, <2>3, <2>5, <3>1, <3>2
  <2> QED BY <2>4, <2>5
<1>13. Shrinking'
  <2> SUFFICES ASSUME added' = {}
               PROVE  /\ ~Repeated(seen')
                      /\ \A i \in IdsOf(seen') \cap Matching' : ~done' => Rank(i)' < From'
    BY <1>6 DEF Shrinking, Read, Repeated, IdsOf
  <2>1. /\ ~Repeated(seen) /\ ~Repeated(items)
        /\ IdsOf(items) \cap IdsOf(seen) = {}
        /\ \A i \in IdsOf(seen) \cap Matching : Rank(i) < From
        /\ \A i \in IdsOf(items) \cap Matching : Rank(i) < To
    BY <1>1, <1>3 DEF IInv, Shrinking
  <2>2. ASSUME NEW k \in DOMAIN seen', NEW l \in DOMAIN seen', seen'[k] = seen'[l]
        PROVE  k = l
    <3>1. \A m \in DOMAIN seen' :
            \/ m \in DOMAIN seen /\ seen'[m] = seen[m]
            \/ m - Len(seen) \in DOMAIN items /\ seen'[m] = items[m - Len(seen)]
      BY <1>7, <1>8
    <3>2. \A m \in DOMAIN seen, n \in DOMAIN items : seen[m] # items[n]
      BY <2>1 DEF IdsOf
    <3>3. k \in Nat /\ l \in Nat
      BY <1>7, <2>2
    <3>4. CASE k \in DOMAIN seen /\ seen'[k] = seen[k]
      BY <2>1, <2>2, <3>1, <3>2, <3>4 DEF Repeated
    <3>5. CASE k - Len(seen) \in DOMAIN items /\ seen'[k] = items[k - Len(seen)]
      <4>1. l - Len(seen) \in DOMAIN items /\ seen'[l] = items[l - Len(seen)]
        BY <2>2, <3>1, <3>2, <3>5
      <4>2. k - Len(seen) = l - Len(seen)
        BY <2>1, <2>2, <3>5, <4>1 DEF Repeated
      <4> QED BY <1>8, <3>3, <4>2
    <3> QED BY <2>2, <3>1, <3>4, <3>5
  <2>3. ~Repeated(seen')
    BY <2>2 DEF Repeated
  <2>4. \A i \in IdsOf(seen') \cap Matching : Rank(i) < To
    BY <1>3, <1>5, <1>7, <2>1, RankType
  <2> QED BY <1>4, <1>6, <2>3, <2>4
<1>14. Growing'
  <2> SUFFICES ASSUME removed' = {}, ask'.stop = "short", NEW i \in Untouched'
               PROVE  /\ done' => i \in IdsOf(seen')
                      /\ ~done' => i \in IdsOf(seen') \/ Rank(i)' >= From'
    BY <1>6 DEF Growing, Read, IdsOf
  <2>1. i \in Untouched
    BY <1>1, <1>4 DEF Untouched
  <2>2. \/ i \in IdsOf(seen) \cup IdsOf(items)
        \/ Rank(i) >= To /\ Len(items) = ask.size
    BY <1>1, <1>3, <2>1 DEF IInv, Growing
  <2>3. done' => Len(items) < ask.size
    BY <1>1, <1>2
  <2> QED BY <1>4, <1>5, <1>6, <1>7, <1>8, <2>2, <2>3
<1> QED BY <1>9, <1>10, <1>12, <1>13, <1>14 DEF IInv

-----------------------------------------------------------------------------
\* What the history says of a write: who is in the result afterwards was there
\* before, with the same dates, or was added; and the other way round.
SameDates(i) == store'[i].start = store[i].start /\ store'[i].end = store[i].end

LEMMA WriteKeepsHistory ==
  ASSUME TypeOK, CreateEvent \/ UpdateEvent \/ DeleteEvent
  PROVE  /\ Writes
         /\ added \subseteq added' /\ removed \subseteq removed'
         /\ added' \subseteq Ids /\ removed' \subseteq Ids
         /\ DOMAIN store' \subseteq Ids /\ \A i \in DOMAIN store' : store'[i] \in Events
         /\ \A i \in Matching' : i \in added' \/ (i \in Matching /\ SameDates(i))
         /\ \A i \in Matching : i \in removed' \/ (i \in Matching' /\ SameDates(i))
<1>1. /\ DOMAIN store \subseteq Ids /\ \A i \in DOMAIN store : store[i] \in Events
      /\ added \subseteq Ids /\ removed \subseteq Ids
  BY DEF TypeOK
<1>5. Writes
  BY DEF CreateEvent, UpdateEvent, DeleteEvent
<1>6. /\ \A j : j \in Matching <=> j \in DOMAIN store /\ store[j].match
      /\ \A j : j \in Matching' <=> j \in DOMAIN store' /\ store'[j].match
  BY DEF Matching
<1> DEFINE
      Types == /\ added \subseteq added' /\ removed \subseteq removed'
               /\ added' \subseteq Ids /\ removed' \subseteq Ids
               /\ DOMAIN store' \subseteq Ids
               /\ \A j \in DOMAIN store' : store'[j] \in Events
      Entered == \A j \in Matching' : j \in added' \/ (j \in Matching /\ SameDates(j))
      Left == \A j \in Matching : j \in removed' \/ (j \in Matching' /\ SameDates(j))
<1>2. CASE CreateEvent
  <2>1. PICK i \in Ids \ (DOMAIN store \union removed), e \in Events :
          /\ store' = With(i, e)
          /\ added' = IF e.match THEN added \union {i} ELSE added
          /\ removed' = removed
    BY <1>2 DEF CreateEvent
  <2>2. /\ DOMAIN store' = DOMAIN store \union {i} /\ store'[i] = e
        /\ \A j \in DOMAIN store : j # i /\ store'[j] = store[j]
    BY <2>1 DEF With
  <2>3. Types
    BY <1>1, <2>1, <2>2
  <2>4. e.match => i \in added'
    BY <2>1
  <2>5. Entered
    <3> SUFFICES ASSUME NEW j \in Matching'
                 PROVE  j \in added' \/ (j \in Matching /\ SameDates(j))
      OBVIOUS
    <3>1. j \in DOMAIN store' /\ store'[j].match
      BY <1>6
    <3>2. CASE j = i
      BY <2>2, <2>4, <3>1, <3>2
    <3>3. CASE j \in DOMAIN store
      BY <1>6, <2>2, <3>1, <3>3 DEF SameDates
    <3> QED BY <2>2, <3>1, <3>2, <3>3
  <2>6. Left
    BY <1>6, <2>2 DEF SameDates
  <2> QED BY <1>5, <2>3, <2>5, <2>6
<1>3. CASE UpdateEvent
  <2>1. PICK i \in DOMAIN store, e \in Events :
          LET moved == e.start # store[i].start \/ e.end # store[i].end IN
          /\ store' = With(i, e)
          /\ added' = IF e.match /\ (moved \/ ~store[i].match)
                      THEN added \union {i} ELSE added
          /\ removed' = IF store[i].match /\ (moved \/ ~e.match)
                        THEN removed \union {i} ELSE removed
    BY <1>3 DEF UpdateEvent
  <2>2. /\ DOMAIN store' = DOMAIN store /\ store'[i] = e
        /\ \A j \in DOMAIN store \ {i} : store'[j] = store[j]
    BY <2>1 DEF With
  <2>3. Types
    BY <1>1, <2>1, <2>2
  <2>4. e.match => i \in added' \/ (store[i].match /\ SameDates(i))
    <3>1. CASE SameDates(i)
      BY <2>1, <3>1
    <3>2. CASE e.start # store[i].start \/ e.end # store[i].end
      BY <2>1, <3>2
    <3> QED BY <2>2, <3>1, <3>2 DEF SameDates
  <2>5. store[i].match => i \in removed' \/ (e.match /\ SameDates(i))
    <3>1. CASE SameDates(i)
      BY <2>1, <3>1
    <3>2. CASE e.start # store[i].start \/ e.end # store[i].end
      BY <2>1, <3>2
    <3> QED BY <2>2, <3>1, <3>2 DEF SameDates
  <2>6. \A j \in DOMAIN store \ {i} : SameDates(j)
    BY <2>2 DEF SameDates
  <2>7. Entered
    BY <1>6, <2>1, <2>2, <2>4, <2>6
  <2>8. Left
    BY <1>6, <2>1, <2>2, <2>5, <2>6
  <2> QED BY <1>5, <2>3, <2>7, <2>8
<1>4. CASE DeleteEvent
  <2>1. PICK i \in DOMAIN store :
          store' = Without(i) /\ removed' = removed \union {i} /\ added' = added
    BY <1>4 DEF DeleteEvent
  <2>2. /\ DOMAIN store' = DOMAIN store \ {i}
        /\ \A j \in DOMAIN store \ {i} : store'[j] = store[j]
    BY <2>1 DEF Without
  <2>3. Types
    BY <1>1, <2>1, <2>2
  <2>4. Entered
    BY <1>6, <2>2 DEF SameDates
  <2>5. Left
    <3> SUFFICES ASSUME NEW j \in Matching
                 PROVE  j \in removed' \/ (j \in Matching' /\ SameDates(j))
      OBVIOUS
    <3>1. CASE j = i
      BY <2>1, <3>1
    <3>2. CASE j # i
      BY <1>6, <2>2, <3>2 DEF SameDates
    <3> QED BY <3>1, <3>2
  <2> QED BY <1>5, <2>3, <2>4, <2>5
<1> QED BY <1>2, <1>3, <1>4

\* The order of two events depends on their dates only.
LEMMA SameOrder ==
  ASSUME ask' = ask, NEW i, NEW j, SameDates(i), SameDates(j)
  PROVE  Before(Sort, i, j)' = Before(Sort, i, j)
<1>1. Sort' = Sort
  BY DEF Sort
<1>2. \A k \in DOMAIN Sort : Sort[k][1] \in Fields
  BY SortIs
<1>3. \A k \in DOMAIN Sort :
        /\ FieldOf(i, Sort[k][1])' = FieldOf(i, Sort[k][1])
        /\ FieldOf(j, Sort[k][1])' = FieldOf(j, Sort[k][1])
  BY <1>1, <1>2 DEF FieldOf, Fields, SameDates
<1>4. DOMAIN Sort = 1 .. 3
  BY SortIs
<1>5. \A k \in DOMAIN Sort : \A l \in 1 .. k - 1 : l \in DOMAIN Sort
  BY <1>4
<1> QED BY <1>1, <1>3, <1>5 DEF Before

\* Ranks fall when nothing is added, and rise when nothing is removed.
LEMMA WriteMovesRanks ==
  ASSUME TypeOK, CreateEvent \/ UpdateEvent \/ DeleteEvent
  PROVE  /\ added' = {} => /\ added = {} /\ Matching' \subseteq Matching
                           /\ \A i \in Matching' : Rank(i)' <= Rank(i)
         /\ removed' = {} => /\ removed = {} /\ Matching \subseteq Matching'
                             /\ \A i \in Matching : Rank(i) <= Rank(i)'
<1>1. ask' = ask
  BY WriteKeepsHistory DEF Writes
<1>2. IsFiniteSet(Matching) /\ IsFiniteSet(Matching')
  <2>1. Matching' \subseteq Ids
    BY WriteKeepsHistory DEF Matching
  <2> QED BY <2>1, MatchingTypes, FS_Subset, IdAssumption
<1>3. ASSUME added' = {}
      PROVE  /\ added = {} /\ Matching' \subseteq Matching
             /\ \A i \in Matching' : Rank(i)' <= Rank(i)
  <2>1. added = {} /\ \A i \in Matching' : i \in Matching /\ SameDates(i)
    BY <1>3, WriteKeepsHistory
  <2>2. ASSUME NEW i \in Matching'
        PROVE  Rank(i)' <= Rank(i)
    <3>1. Predecessors(i)' \subseteq Predecessors(i)
      BY <1>1, <2>1, <2>2, SameOrder DEF Predecessors
    <3>2. IsFiniteSet(Predecessors(i))
      BY <2>1, <2>2, RankType
    <3> QED BY <3>1, <3>2, FS_Subset DEF Rank
  <2> QED BY <2>1, <2>2
<1>4. ASSUME removed' = {}
      PROVE  /\ removed = {} /\ Matching \subseteq Matching'
             /\ \A i \in Matching : Rank(i) <= Rank(i)'
  <2>1. removed = {} /\ \A i \in Matching : i \in Matching' /\ SameDates(i)
    BY <1>4, WriteKeepsHistory
  <2>2. ASSUME NEW i \in Matching
        PROVE  Rank(i) <= Rank(i)'
    <3>1. Predecessors(i) \subseteq Predecessors(i)'
      BY <1>1, <2>1, <2>2, SameOrder DEF Predecessors
    <3>2. IsFiniteSet(Predecessors(i)')
      BY <1>2, FS_Subset DEF Predecessors
    <3> QED BY <3>1, <3>2, FS_Subset DEF Rank
  <2> QED BY <2>1, <2>2
<1> QED BY <1>3, <1>4

LEMMA WriteOK == IInv /\ (CreateEvent \/ UpdateEvent \/ DeleteEvent) => IInv'
<1> SUFFICES ASSUME IInv, CreateEvent \/ UpdateEvent \/ DeleteEvent PROVE IInv'
  OBVIOUS
<1>1. /\ ~done /\ writes < MaxWrites /\ writes' = writes + 1
      /\ UNCHANGED <<ask, page, pending, items, total, seen, done>>
      /\ TypeOK
  BY WriteKeepsHistory DEF IInv, Writes
<1>2. From' = From /\ To' = To /\ Read' = Read /\ From \in Nat /\ To \in Nat
  BY <1>1, PageTypes DEF From, To, Read
<1>3. TypeOK'
  <2>1. writes' \in 0 .. MaxWrites
    BY <1>1, WriteAssumption DEF TypeOK
  <2> QED BY <1>1, <2>1, WriteKeepsHistory DEF TypeOK
<1>4. \A i \in Matching : Rank(i) \in Nat
  BY <1>1, RankType
<1>5. \A i \in Matching' : Rank(i)' \in Nat
  <2>1. Matching' \subseteq Ids
    BY <1>1, WriteKeepsHistory DEF Matching
  <2>2. \A i : Predecessors(i)' \subseteq Matching'
    BY DEF Predecessors
  <2>3. IsFiniteSet(Ids)
    BY IdAssumption
  <2>4. \A i : IsFiniteSet(Predecessors(i)')
    BY <2>1, <2>2, <2>3, FS_Subset
  <2> QED BY <2>4, FS_CardinalityType DEF Rank
<1>6. Undisturbed'
  <2> SUFFICES ASSUME added' = {}, removed' = {} PROVE Undisturbed'
    BY DEF Undisturbed
  <2>1. added = {} /\ removed = {} /\ Matching' = Matching
    BY <1>1, WriteMovesRanks
  <2>2. \A i \in Matching : Rank(i)' <= Rank(i) /\ Rank(i) <= Rank(i)'
    BY <1>1, <2>1, WriteMovesRanks
  <2>3. \A i \in Matching : Rank(i)' = Rank(i)
    BY <1>4, <1>5, <2>1, <2>2
  <2>4. Count' = Count
    BY <2>1 DEF Count
  <2>5. /\ Ranked(seen, 0) => Ranked(seen, 0)'
        /\ Ranked(items, From) => Ranked(items, From)'
    BY <1>1, <1>2, <2>1, <2>3 DEF Ranked
  <2> QED BY <1>1, <1>2, <2>1, <2>4, <2>5 DEF IInv, Undisturbed
<1>7. Shrinking'
  <2> SUFFICES ASSUME added' = {} PROVE Shrinking'
    BY DEF Shrinking
  <2>1. added = {} /\ Matching' \subseteq Matching /\ \A i \in Matching' : Rank(i)' <= Rank(i)
    BY <1>1, WriteMovesRanks
  <2>2. ASSUME NEW n \in Nat, NEW i \in Matching', Rank(i) < n
        PROVE  Rank(i)' < n
    BY <1>4, <1>5, <2>1, <2>2
  <2> QED BY <1>1, <1>2, <2>1, <2>2 DEF IInv, Shrinking, Repeated, IdsOf
<1>8. Growing'
  <2> SUFFICES ASSUME removed' = {} PROVE Growing'
    BY DEF Growing
  <2>1. removed = {} /\ Matching \subseteq Matching' /\ \A i \in Matching : Rank(i) <= Rank(i)'
    BY <1>1, WriteMovesRanks
  <2>2. \A i \in Untouched' : i \in Untouched /\ i \in Matching
    BY <1>1, WriteKeepsHistory DEF Untouched
  <2>3. ASSUME NEW n \in Nat, NEW i \in Untouched', Rank(i) >= n
        PROVE  Rank(i)' >= n
    BY <1>4, <1>5, <2>1, <2>2, <2>3
  <2> QED BY <1>1, <1>2, <2>1, <2>2, <2>3 DEF IInv, Growing, IdsOf
<1> QED BY <1>1, <1>3, <1>6, <1>7, <1>8 DEF IInv

LEMMA StutterOK == IInv /\ UNCHANGED vars => IInv'
<1> SUFFICES ASSUME IInv, UNCHANGED vars PROVE IInv'
  OBVIOUS
<1>1. UNCHANGED <<store, ask, page, pending, items, total, seen, done, added, removed, writes>>
  BY DEF vars
<1>2. /\ Matching' = Matching /\ Count' = Count
      /\ \A i : Rank(i)' = Rank(i)
      /\ From' = From /\ To' = To /\ Read' = Read
  BY <1>1, SameResult DEF From, To, Read
<1>3. Ranked(seen, 0)' = Ranked(seen, 0) /\ Ranked(items, From)' = Ranked(items, From)
  BY <1>1, <1>2 DEF Ranked
<1>4. TypeOK'
  BY <1>1 DEF IInv, TypeOK
<1>5. Undisturbed' /\ Shrinking' /\ Growing'
  BY <1>1, <1>2, <1>3 DEF IInv, Undisturbed, Shrinking, Growing, Repeated, IdsOf, Untouched
<1> QED BY <1>1, <1>4, <1>5 DEF IInv

LEMMA NextOK == IInv /\ [Next]_vars => IInv'
BY QueryItemsOK, QueryTotalOK, TakePageOK, WriteOK, StutterOK DEF Next

-----------------------------------------------------------------------------
\* The invariant behind the theorems that follow.
THEOREM Invariance == Spec => []IInv
  BY InitOK, NextOK, PTL DEF Spec

\* The variables keep their types: what a client has read are _ids of events,
\* and no count exceeds their number.
THEOREM TypeCorrect == Spec => []TypeOK
<1>1. IInv => TypeOK
  BY DEF IInv
<1> QED BY <1>1, Invariance, PTL

\* Without writes that matter, the pages put together are the result in the
\* order asked for, whatever the database does with events of the same dates.
THEOREM PagesAreWhole == Spec => []PagesAreComplete
<1>1. IInv => PagesAreComplete
  <2> SUFFICES ASSUME IInv, done, added = {}, removed = {}
               PROVE  seen \in Orders(Sort)
    BY DEF PagesAreComplete, Sort
  <2>1. TypeOK /\ Ranked(seen, 0) /\ Len(seen) = Count /\ Count \in Nat
    BY MatchingTypes DEF IInv, Undisturbed
  <2>2. DOMAIN seen = 1 .. Count /\ seen \in [1 .. Count -> Ids]
    BY <2>1 DEF TypeOK
  <2>3. \A k \in 1 .. Count : seen[k] \in Matching /\ Rank(seen[k]) = 0 + k - 1
    BY <2>1, <2>2 DEF Ranked
  <2>4. seen \in [1 .. Count -> Matching]
    BY <2>2, <2>3
  <2>5. ASSUME NEW k \in 1 .. Count, NEW l \in 1 .. Count, k < l
        PROVE  seen[k] # seen[l] /\ ~Before(Sort, seen[l], seen[k])
    <3>1. Rank(seen[k]) < Rank(seen[l])
      BY <2>1, <2>3, <2>5
    <3>2. seen[k] \in Matching /\ seen[l] \in Matching
      BY <2>3
    <3> QED BY <2>1, <3>1, <3>2, RankGrows, RankType
  <2> QED BY <2>4, <2>5 DEF Orders, Count
<1> QED BY <1>1, Invariance, PTL

\* However many events others create meanwhile, a client that reads on until a
\* short page misses none of those that were there and stayed.
THEOREM NothingIsHidden == Spec => []AdditionsHideNothing
<1>1. IInv => AdditionsHideNothing
  BY DEF IInv, Growing, AdditionsHideNothing, SeenIds, IdsOf
<1> QED BY <1>1, Invariance, PTL

\* However many events others delete meanwhile, no client reads one twice.
THEOREM NothingIsRepeated == Spec => []RemovalsRepeatNothing
<1>1. IInv => RemovalsRepeatNothing
  BY DEF IInv, Shrinking, RemovalsRepeatNothing
<1> QED BY <1>1, Invariance, PTL

-----------------------------------------------------------------------------
(* EventSearch: the query that is made, and what it selects.               *)

\* The events the query selects.
Selected == {i \in DOMAIN collection : \A c \in getFilterQuery : Holds(collection[i], c)}

\* Until the books are looked up there are none found; a request that gets to
\* the events has dates that parse; and a page holds what its query selects.
SearchIInv ==
  /\ SearchTypeOK
  /\ pc \in {"idle", "books"} => hits = {}
  /\ ~Given("bookSearchQuery") => hits = {} /\ pc # "books"
  /\ pc = "events" => ~BadDates
  /\ answer = "page" =>
       /\ pc = "done" /\ ~BadDates
       /\ found = Selected
       /\ populated = planEventPopulates

\* A condition on one path.
LEMMA HoldsOnPath ==
  ASSUME NEW e, NEW path, NEW op, NEW value
  PROVE  Holds(e, Condition({path}, op, value)) <=>
           \E v \in ValuesAt(e, path) :
             \/ op = "eq" /\ v = value
             \/ op = "in" /\ v \in value
             \/ op = "lte" /\ v.form = value.form /\ v.place <= value.place
             \/ op = "gte" /\ v.form = value.form /\ v.place >= value.place
BY DEF Holds, Condition

\* A parameter that is compared asks nothing unless it is given.
LEMMA ComparesAsks ==
  ASSUME NEW e, NEW p, NEW path, NEW op
  PROVE  (\A c \in Compares(p, path, op) : Holds(e, c)) <=>
           (Given(p) => Holds(e, Condition({path}, op, request.filter[p])))
BY DEF Compares

\* What the parameters that name a value mean for an event,
LEMMA EqMeans ==
  ASSUME NEW e, NEW p \in {"name", "status", "type"}
  PROVE  (\A c \in Compares(p, p, "eq") : Holds(e, c)) <=> (Given(p) => e[p] = request.filter[p])
<1>1. ValuesAt(e, p) = {e[p]}
  BY DEF ValuesAt, Roles
<1>2. Holds(e, Condition({p}, "eq", request.filter[p])) <=> e[p] = request.filter[p]
  BY <1>1, HoldsOnPath
<1> QED BY <1>2, ComparesAsks

\* those that list values,
LEMMA InMeans ==
  ASSUME NEW e, NEW p, NEW path \in Roles \union {"threads"}
  PROVE  (\A c \in Compares(p, path, "in") : Holds(e, c)) <=>
           (Given(p) => Overlaps(e[path], request.filter[p]))
<1>1. ValuesAt(e, path) = e[path]
  BY DEF ValuesAt, Roles
<1>2. Holds(e, Condition({path}, "in", request.filter[p])) <=> Overlaps(e[path], request.filter[p])
  BY <1>1, HoldsOnPath DEF Overlaps
<1> QED BY <1>2, ComparesAsks

\* the dates, both ends of a range of which count: only a text is compared,
DateHolds(e, d) == Holds(e, Condition({d[2]}, d[3], ISO(request.filter[d[1]])))

LEMMA DatesMean ==
  ASSUME NEW e
  PROVE  (\A c \in UNION {ComparesDate(d[1], d[2], d[3]) : d \in DateParameters} : Holds(e, c)) <=>
           \A d \in DateParameters : Given(d[1]) => DateHolds(e, d)
<1>1. \A d \in DateParameters :
        (\A c \in ComparesDate(d[1], d[2], d[3]) : Holds(e, c)) <=> (Given(d[1]) => DateHolds(e, d))
  BY DEF ComparesDate, DateHolds
<1> QED BY <1>1

LEMMA DateComparesText ==
  ASSUME NEW e, NEW d \in DateParameters
  PROVE  DateHolds(e, d) <=>
           /\ DateAt(e, d[2]).form = "text"
           /\ d[3] = "lte" => DateAt(e, d[2]).place <= 2 * request.filter[d[1]]
           /\ d[3] = "gte" => DateAt(e, d[2]).place >= 2 * request.filter[d[1]]
<1>1. /\ d[2] \in {"dates.startDate", "dates.endDate"}
      /\ d[3] \in {"lte", "gte"}
  BY DEF DateParameters
<1>2. ValuesAt(e, d[2]) = {DateAt(e, d[2])}
  BY <1>1 DEF ValuesAt, Roles
<1>3. /\ ISO(request.filter[d[1]]).form = "text"
      /\ ISO(request.filter[d[1]]).place = 2 * request.filter[d[1]]
  BY DEF ISO
<1> QED BY <1>1, <1>2, <1>3, HoldsOnPath DEF DateHolds

\* and texts as toISOString writes them are sorted by their instants,
LEMMA DateMeans ==
  ASSUME SearchTypeOK, ~BadDates, NEW e, e.start \in StoredDates, e.end \in StoredDates,
         NEW d \in DateParameters, Given(d[1]), IsISO(DateAt(e, d[2]))
  PROVE  DateHolds(e, d) <=> AsksFor(e, d[1])
<1> DEFINE v == DateAt(e, d[2])
           w == request.filter[d[1]]
<1>1. w \in Int
  BY RequestAssumption DEF SearchTypeOK, BadDates, Given
<1>2. v.instant \in Int
  BY DEF DateAt, StoredDates
<1>3. v.form = "text" /\ v.place = 2 * v.instant
  BY DEF IsISO, ISO
<1>4. v.place <= 2 * w <=> v.instant <= w
  BY <1>1, <1>2, <1>3
<1>5. v.place >= 2 * w <=> w <= v.instant
  BY <1>1, <1>2, <1>3
<1>6. AsksFor(e, d[1]) <=> IF d[3] = "lte" THEN v.instant <= w ELSE w <= v.instant
  <2>1. Dated(v)
    BY <1>3 DEF Dated
  <2>2. CASE d = <<"startDateBefore", "dates.startDate", "lte">>
    BY <2>1, <2>2 DEF AsksFor, DateAt
  <2>3. CASE d = <<"startDateAfter", "dates.startDate", "gte">>
    BY <2>1, <2>3 DEF AsksFor, DateAt
  <2>4. CASE d = <<"endDateBefore", "dates.endDate", "lte">>
    BY <2>1, <2>4 DEF AsksFor, DateAt
  <2>5. CASE d = <<"endDateAfter", "dates.endDate", "gte">>
    BY <2>1, <2>5 DEF AsksFor, DateAt
  <2> QED BY <2>2, <2>3, <2>4, <2>5 DEF DateParameters
<1>7. d[3] \in {"lte", "gte"}
  BY DEF DateParameters
<1> QED BY <1>3, <1>4, <1>5, <1>6, <1>7, DateComparesText

\* and the participants, who count in any role.
LEMMA ParticipantsMean ==
  ASSUME NEW e
  PROVE  (\A c \in IF Given("participantIds")
                   THEN {Condition(Roles, "in", request.filter.participantIds)} ELSE {} :
            Holds(e, c)) <=>
           (Given("participantIds") =>
              \E role \in Roles : Overlaps(e[role], request.filter["participantIds"]))
<1>1. \A role \in Roles : ValuesAt(e, role) = e[role]
  BY DEF ValuesAt, Roles
<1>2. Holds(e, Condition(Roles, "in", request.filter.participantIds)) <=>
        \E role \in Roles : Overlaps(e[role], request.filter.participantIds)
  BY <1>1 DEF Holds, Condition, Overlaps
<1> QED BY <1>2

\* The books found and those asked for by id make one condition.
LEMMA BooksMean ==
  ASSUME NEW e
  PROVE  (\A c \in BookCondition : Holds(e, c)) <=>
           (hits # {} \/ Given("bookIds") =>
              e.book \in (IF Given("bookIds") THEN request.filter.bookIds.ids ELSE {}) \union hits)
<1>1. ValuesAt(e, "book") = {e.book}
  BY DEF ValuesAt, Roles
<1>2. \A ids : Holds(e, Condition({"book"}, "in", ids)) <=> e.book \in ids
  BY <1>1, HoldsOnPath
<1> QED BY <1>2 DEF BookCondition

\* The query asks of an event what its parameters mean, and no more, and that
\* its dates compare.
Undated == Parameters \ (DateNames \union {"bookSearchQuery"})

LEMMA QueryMeans ==
  ASSUME hits = {}, NEW e
  PROVE  (\A c \in getFilterQuery : Holds(e, c)) <=>
           /\ \A p \in Undated : Given(p) => AsksFor(e, p)
           /\ \A d \in DateParameters : Given(d[1]) => DateHolds(e, d)
<1> DEFINE Wants(p) == Given(p) => AsksFor(e, p)
           Answers(C) == \A c \in C : Holds(e, c)
           Dated4 == \A d \in DateParameters : Given(d[1]) => DateHolds(e, d)
           Each ==
             /\ Wants("bookIds") /\ Wants("name") /\ Wants("status") /\ Wants("type")
             /\ Wants("threads") /\ Wants("participantIds")
             /\ Wants("requestedByIds") /\ Wants("interestedIds")
             /\ Wants("readerIds") /\ Wants("leaderIds")
<1>1. Undated = {"bookIds", "name", "threads", "status", "type", "participantIds",
                 "requestedByIds", "interestedIds", "readerIds", "leaderIds"}
  BY DEF Undated, Parameters, DateNames, DateParameters
<1>2. Answers(getFilterQuery) <=>
        /\ Answers(BookCondition)
        /\ Answers(Compares("name", "name", "eq"))
        /\ Answers(Compares("threads", "threads", "in"))
        /\ Answers(Compares("status", "status", "eq"))
        /\ Answers(Compares("type", "type", "eq"))
        /\ Answers(UNION {ComparesDate(d[1], d[2], d[3]) : d \in DateParameters})
        /\ Answers(IF Given("participantIds")
                   THEN {Condition(Roles, "in", request.filter.participantIds)} ELSE {})
        /\ Answers(Compares("requestedByIds", "requestedBy", "in"))
        /\ Answers(Compares("interestedIds", "interested", "in"))
        /\ Answers(Compares("readerIds", "readers", "in"))
        /\ Answers(Compares("leaderIds", "leaders", "in"))
  <2> DEFINE Dates == UNION {ComparesDate(d[1], d[2], d[3]) : d \in DateParameters}
             People == IF Given("participantIds")
                       THEN {Condition(Roles, "in", request.filter.participantIds)} ELSE {}
  <2>1. getFilterQuery =
          BookCondition
          \union Compares("name", "name", "eq")
          \union Compares("threads", "threads", "in")
          \union Compares("status", "status", "eq")
          \union Compares("type", "type", "eq")
          \union Dates
          \union People
          \union Compares("requestedByIds", "requestedBy", "in")
          \union Compares("interestedIds", "interested", "in")
          \union Compares("readerIds", "readers", "in")
          \union Compares("leaderIds", "leaders", "in")
    BY DEF getFilterQuery
  <2> HIDE DEF Dates, People
  <2>2. Answers(getFilterQuery) <=>
          /\ Answers(BookCondition)
          /\ Answers(Compares("name", "name", "eq"))
          /\ Answers(Compares("threads", "threads", "in"))
          /\ Answers(Compares("status", "status", "eq"))
          /\ Answers(Compares("type", "type", "eq"))
          /\ Answers(Dates) /\ Answers(People)
          /\ Answers(Compares("requestedByIds", "requestedBy", "in"))
          /\ Answers(Compares("interestedIds", "interested", "in"))
          /\ Answers(Compares("readerIds", "readers", "in"))
          /\ Answers(Compares("leaderIds", "leaders", "in"))
    BY <2>1
  <2> QED BY <2>2 DEF Dates, People
<1>3. Answers(BookCondition) <=> Wants("bookIds")
  BY BooksMean DEF AsksFor
<1>4. /\ Answers(Compares("name", "name", "eq")) <=> Wants("name")
      /\ Answers(Compares("status", "status", "eq")) <=> Wants("status")
      /\ Answers(Compares("type", "type", "eq")) <=> Wants("type")
  BY EqMeans DEF AsksFor
<1>5. /\ Answers(Compares("threads", "threads", "in")) <=> Wants("threads")
      /\ Answers(Compares("requestedByIds", "requestedBy", "in")) <=> Wants("requestedByIds")
      /\ Answers(Compares("interestedIds", "interested", "in")) <=> Wants("interestedIds")
      /\ Answers(Compares("readerIds", "readers", "in")) <=> Wants("readerIds")
      /\ Answers(Compares("leaderIds", "leaders", "in")) <=> Wants("leaderIds")
  BY InMeans DEF Roles, AsksFor
<1>6. Answers(UNION {ComparesDate(d[1], d[2], d[3]) : d \in DateParameters}) <=> Dated4
  BY DatesMean
<1>7. Answers(IF Given("participantIds")
              THEN {Condition(Roles, "in", request.filter.participantIds)} ELSE {}) <=>
        Wants("participantIds")
  BY ParticipantsMean DEF AsksFor
<1> HIDE DEF Answers, Wants, Each, Dated4
<1>8. (\A p \in Undated : Wants(p)) <=> Each
  BY <1>1 DEF Each
<1>9. Answers(getFilterQuery) <=> (\A p \in Undated : Wants(p)) /\ Dated4
  BY <1>2, <1>3, <1>4, <1>5, <1>6, <1>7, <1>8 DEF Each
<1> QED BY <1>9 DEF Answers, Wants, Dated4

\* The plan populates the references among the fields returned.
LEMMA PlanIsReturned == planEventPopulates = Returned \intersect (Roles \union {"book"})
<1>1. CASE Mode = "none"
  BY <1>1 DEF planEventPopulates, Returned, EventFields
<1>2. CASE Mode = "include"
  BY <1>2 DEF planEventPopulates, Returned
<1>3. CASE Mode = "exclude"
  <2>1. \A f \in Roles \union {"book"} : f \in topLevelFields <=> f \in {e.path : e \in Entries}
    BY DEF topLevelFields, TopLevel, EventFields, Roles
  <2> QED BY <1>3, <2>1 DEF planEventPopulates, Returned, EventFields
<1> QED BY <1>1, <1>2, <1>3 DEF Mode

\* The invariant holds at first,
LEMMA SearchInitOK == SearchInit => SearchIInv
BY ChangesAssumption DEF SearchInit, SearchIInv, SearchTypeOK

\* What is asked for does not change.
LEMMA SameQuery ==
  ASSUME UNCHANGED <<collection, request>>
  PROVE  /\ Given("bookSearchQuery")' = Given("bookSearchQuery") /\ BadDates' = BadDates
         /\ planEventPopulates' = planEventPopulates
         /\ hits' = hits => Selected' = Selected
<1>1. \A p : Given(p)' = Given(p)
  BY DEF Given
<1>2. BadDates' = BadDates
  BY <1>1 DEF BadDates
<1>3. planEventPopulates' = planEventPopulates
  BY DEF planEventPopulates, Mode, Entries, topLevelFields
<1>4. ASSUME hits' = hits PROVE Selected' = Selected
  BY <1>4 DEF Selected, getFilterQuery, BookCondition, Compares, ComparesDate, Given
<1> QED BY <1>1, <1>2, <1>3, <1>4

\* and every step keeps it.
LEMMA SearchStepOK == SearchIInv /\ [SearchNext]_searchVars => SearchIInv'
<1> SUFFICES ASSUME SearchIInv, [SearchNext]_searchVars PROVE SearchIInv'
  OBVIOUS
<1>1. UNCHANGED <<collection, request>>
  BY DEF SearchNext, Receive, Refuse, FindBooks, FindEvents, DbFails, ChangeBook, searchVars
<1>2. /\ Given("bookSearchQuery")' = Given("bookSearchQuery") /\ BadDates' = BadDates
      /\ planEventPopulates' = planEventPopulates
      /\ hits' = hits => Selected' = Selected
  BY <1>1, SameQuery
<1>3. CASE Receive
  BY <1>1, <1>2, <1>3 DEF SearchIInv, SearchTypeOK, Receive, Refuse
<1>4. CASE FindBooks
  BY <1>1, <1>2, <1>4 DEF SearchIInv, SearchTypeOK, FindBooks
<1>5. CASE FindEvents
  <2>1. planEventPopulates \subseteq Roles \union {"book"}
    BY PlanIsReturned
  <2>2. found' = Selected
    BY <1>5 DEF FindEvents, Selected
  <2>3. hits' = hits /\ pc' = "done" /\ answer' = "page" /\ populated' = planEventPopulates
    BY <1>5 DEF FindEvents
  <2>4. UNCHANGED <<titled, changes>> /\ pc = "events"
    BY <1>5 DEF FindEvents
  <2>5. SearchTypeOK'
    BY <1>1, <2>1, <2>2, <2>3, <2>4 DEF SearchIInv, SearchTypeOK, Selected
  <2> QED BY <1>2, <2>2, <2>3, <2>4, <2>5 DEF SearchIInv
<1>6. CASE DbFails
  BY <1>1, <1>2, <1>6 DEF SearchIInv, SearchTypeOK, DbFails, Refuse
<1>7. CASE ChangeBook
  <2>1. changes' \in 0 .. MaxChanges /\ titled' \subseteq Books
    BY <1>7, ChangesAssumption DEF SearchIInv, SearchTypeOK, ChangeBook
  <2> QED BY <1>1, <1>2, <1>7, <2>1 DEF SearchIInv, SearchTypeOK, ChangeBook
<1>8. CASE UNCHANGED searchVars
  BY <1>1, <1>2, <1>8 DEF SearchIInv, SearchTypeOK, searchVars
<1> QED BY <1>3, <1>4, <1>5, <1>6, <1>7, <1>8 DEF SearchNext

\* SearchIInv always holds, whatever becomes of the books meanwhile.
THEOREM SearchInvariance == SearchSpec => []SearchIInv
BY SearchInitOK, SearchStepOK, PTL DEF SearchSpec

\* The variables of EventSearch keep their types.
THEOREM SearchTypeCorrect == SearchSpec => []SearchTypeOK
<1>1. SearchIInv => SearchTypeOK
  BY DEF SearchIInv
<1> QED BY <1>1, SearchInvariance, PTL

\* Without a search a page holds only events that all parameters but dates ask
\* for, and whose dates are texts where they are asked about; and of those with
\* texts as toISOString writes them, all that every parameter asks for and no
\* others: for any events, however their dates are stored, and any filter.
THEOREM FiltersAreConjunctions == SearchSpec => []FilterIsConjunction
<1>1. SearchIInv => FilterIsConjunction
  <2> SUFFICES ASSUME SearchIInv, answer = "page", ~Given("bookSearchQuery"),
                      NEW i \in DOMAIN collection
               PROVE  LET e == collection[i] IN
                      /\ i \in found =>
                           /\ \A p \in Asked \ DateNames : AsksFor(e, p)
                           /\ \A d \in DateParameters :
                                Given(d[1]) => DateAt(e, d[2]).form = "text"
                      /\ (\A d \in DateParameters : Given(d[1]) => IsISO(DateAt(e, d[2]))) =>
                           (i \in found <=> \A p \in Asked : AsksFor(e, p))
    BY DEF FilterIsConjunction
  <2> DEFINE e == collection[i]
  <2>1. SearchTypeOK /\ ~BadDates /\ hits = {} /\ found = Selected
    BY DEF SearchIInv
  <2>2. e.start \in StoredDates /\ e.end \in StoredDates
    BY <2>1, CollectionAssumption DEF SearchTypeOK
  <2> HIDE DEF e
  <2>3. i \in found <=>
          /\ \A p \in Undated : Given(p) => AsksFor(e, p)
          /\ \A d \in DateParameters : Given(d[1]) => DateHolds(e, d)
    <3>1. i \in Selected <=> \A c \in getFilterQuery : Holds(e, c)
      BY DEF Selected, e
    <3> QED BY <2>1, <3>1, QueryMeans
  <2>4. /\ \A p : p \in Asked \ DateNames <=> p \in Undated /\ Given(p)
        /\ \A p : p \in Asked <=>
             (p \in Undated /\ Given(p)) \/ \E d \in DateParameters : p = d[1] /\ Given(p)
    <3>1. DOMAIN request.filter \subseteq Parameters
      BY <2>1, RequestAssumption DEF SearchTypeOK
    <3>2. "bookSearchQuery" \notin DateNames
      BY DEF DateNames, DateParameters
    <3> QED BY <3>1, <3>2 DEF Asked, Undated, Given, DateNames
  <2>5. i \in found => \A d \in DateParameters : Given(d[1]) => DateAt(e, d[2]).form = "text"
    BY <2>3, DateComparesText
  <2>6. ASSUME \A d \in DateParameters : Given(d[1]) => IsISO(DateAt(e, d[2]))
        PROVE  i \in found <=> \A p \in Asked : AsksFor(e, p)
    <3>1. \A d \in DateParameters : Given(d[1]) => (DateHolds(e, d) <=> AsksFor(e, d[1]))
      BY <2>1, <2>2, <2>6, DateMeans
    <3> QED BY <2>3, <2>4, <3>1
  <2> QED BY <2>3, <2>4, <2>5, <2>6 DEF e
<1> QED BY <1>1, SearchInvariance, PTL

\* A search that finds books restricts the page to them and to the books asked
\* for by id, for any events and any change of the books.
THEOREM SearchesWiden == SearchSpec => []SearchWidensIds
<1>1. SearchIInv => SearchWidensIds
  <2> SUFFICES ASSUME SearchIInv, answer = "page", hits # {}, NEW i \in DOMAIN collection
               PROVE  LET ids == IF Given("bookIds") THEN request.filter.bookIds.ids ELSE {} IN
                      /\ i \in found => collection[i].book \in ids \union hits
                      /\ DOMAIN request.filter \subseteq {"bookSearchQuery", "bookIds"}
                           /\ collection[i].book \in ids \union hits => i \in found
    BY DEF SearchWidensIds
  <2> DEFINE e == collection[i]
  <2>1. i \in found <=> \A c \in getFilterQuery : Holds(e, c)
    BY DEF SearchIInv, Selected
  <2>2. BookCondition \subseteq getFilterQuery
    BY DEF getFilterQuery
  <2>3. ASSUME DOMAIN request.filter \subseteq {"bookSearchQuery", "bookIds"}
        PROVE  getFilterQuery = BookCondition
    <3>1. \A p : p \notin {"bookSearchQuery", "bookIds"} => ~Given(p)
      BY <2>3 DEF Given
    <3>2. \A p, path, op : p \notin {"bookSearchQuery", "bookIds"} =>
            Compares(p, path, op) = {} /\ ComparesDate(p, path, op) = {}
      BY <3>1 DEF Compares, ComparesDate
    <3>3. \A d \in DateParameters : d[1] \notin {"bookSearchQuery", "bookIds"}
      BY DEF DateParameters
    <3> QED BY <3>1, <3>2, <3>3 DEF getFilterQuery
  <2> QED BY <2>1, <2>2, <2>3, BooksMean
<1> QED BY <1>1, SearchInvariance, PTL

\* The references populated are those among the fields returned, for any list
\* of fields to take or to leave out.
THEOREM ReferencesFollow == SearchSpec => []PopulatesWhatIsReturned
<1>1. SearchIInv => PopulatesWhatIsReturned
  BY PlanIsReturned DEF SearchIInv, PopulatesWhatIsReturned
<1> QED BY <1>1, SearchInvariance, PTL
=============================================================================
