--------------------------- MODULE Listing_proofs ---------------------------
(***************************************************************************)
(* What the parsers and the meta of a list promise for every parameter and *)
(* every total, and what a client that follows hasMore is shown of a table *)
(* that changes meanwhile, for any rows, queries and number of changes.    *)
(***************************************************************************)
EXTENDS ListWalk, FiniteSetTheorems, TLAPS

\* Whatever limit is not refused is between 1 and MAX_LIMIT, and whatever
\* offset is not refused is a natural number: pagination.ts:20-43.
THEOREM ParsedLimitIsBounded ==
    ASSUME NEW limit \in Param, NEW start \in Param, ~PaginationRefused(limit, start)
    PROVE  LimitOf(limit) \in 1 .. MAX_LIMIT /\ OffsetOf(start) \in Nat
  <1>1. limit.value \in Int /\ start.value \in Int
    BY DEF Param
  <1>2. limit.kind \in Unset \cup {"integer"} /\ start.kind \in Unset \cup {"integer"}
    BY DEF Param, PaginationRefused, Unset
  <1>3. LimitOf(limit) \in 1 .. MAX_LIMIT
    BY <1>1, <1>2 DEF LimitOf, PaginationRefused, DEFAULT_LIMIT, MAX_LIMIT
  <1>4. OffsetOf(start) \in Nat
    BY <1>1, <1>2 DEF OffsetOf, PaginationRefused
  <1> QED  BY <1>3, <1>4

\* hasMore is exact for the total it is given: it is true if and only if the
\* page after this one has a row (pagination.ts:57).
THEOREM HasMoreIsExact ==
    ASSUME NEW count \in Nat, NEW limit \in Nat \ {0}, NEW start \in Nat
    PROVE  buildPaginationMeta(count, limit, start).hasMore
             <=> RowsOf(count, limit, start + limit) > 0
  <1>1. buildPaginationMeta(count, limit, start).hasMore <=> start + limit < count
    BY DEF buildPaginationMeta
  <1>2. start + limit \in Nat
    OBVIOUS
  <1>3. start + limit < count <=> RowsOf(count, limit, start + limit) > 0
    BY <1>2 DEF RowsOf
  <1> QED  BY <1>1, <1>3

\* A page that is not the last is full: no row is lost between two pages.
THEOREM OnlyTheLastPageIsShort ==
    ASSUME NEW count \in Nat, NEW limit \in Nat \ {0}, NEW start \in Nat,
           buildPaginationMeta(count, limit, start).hasMore
    PROVE  RowsOf(count, limit, start) = limit
  <1>1. start + limit < count
    BY DEF buildPaginationMeta
  <1> QED  BY <1>1 DEF RowsOf

-----------------------------------------------------------------------------
(***************************************************************************)
(* The walk.  Rows that leave draw the others towards the start, rows that *)
(* enter push them away; so while rows only leave, none that was shown     *)
(* comes back in front of the walk, and while rows only enter, none that   *)
(* was there all along slips behind it unseen.                             *)
(***************************************************************************)

\* The walk is under way, or over.
Walking == pc \in {"reading", "done"}
Both == {"total", "page"}
Start == OffsetOf(query.offset)

\* The rows before r in the list, and where r therefore is.
Before(r) == {s \in List : Precedes(s, r)}
Position(r) == Cardinality(Before(r))

\* The walk has asked for the rows before this position.
ReadUpTo == IF "page" \in reads THEN offset + Limit ELSE offset

\* The query was not refused, so that it has a limit, an offset and a sort key.
Accepted ==
    /\ query \in Queries /\ ~PaginationRefused(query.limit, query.offset)
    /\ table \in {"Product", "Category", "Customer"} =>
         /\ query.order \in {"asc", "desc"} \cup Unset
         /\ query.sort \in Unset \cup
              (IF table = "Product" THEN ALLOWED_PRODUCT_SORT_FIELDS
                                    ELSE {"createdAt", "name"})

\* While rows only leave, those shown are behind the walk.
ShownAreBehind ==
    ~drift.entered =>
        \A r \in Rows : /\ seen[r] <= 1
                        /\ seen[r] = 1 /\ r \in List => Position(r) < ReadUpTo

\* While rows only enter, those that were there all along are shown or ahead.
KeptAreAhead ==
    Start = 0 /\ ~drift.left =>
        /\ drift.kept \subseteq List
        /\ \A r \in drift.kept : seen[r] > 0 \/ Position(r) >= ReadUpTo

\* Until a row leaves, or enters between the two reads:
Undisturbed == ~drift.left /\ ~drift.between

\* the first of the two reads is still true when the second is made,
FirstReadHolds ==
    Undisturbed =>
        /\ reads = {"total"} => total = Cardinality(List)
        /\ reads = {"page"} => Cardinality(page) = RowsOf(Cardinality(List), Limit, offset)

\* a walk told that there is no more has shown what it had to show,
NothingMissed ==
    Undisturbed /\ Start = 0 /\ reads = Both /\ ~HasMore =>
        \A r \in drift.kept : seen[r] > 0

\* and one told that there is more finds it.
MoreIsThere ==
    Undisturbed =>
        /\ reads = Both /\ HasMore => offset + Limit < Cardinality(List)
        /\ offset > Start =>
             IF "page" \in reads THEN page # {} ELSE offset < Cardinality(List)

WalkInv ==
    /\ WalkTypeOK
    /\ ~Walking => reads = {} /\ \A r \in Rows : seen[r] = 0
    /\ pc = "done" => reads = Both /\ ~HasMore
    /\ Walking => /\ Accepted /\ Cardinality(page) <= Limit
                  /\ ShownAreBehind /\ KeptAreAhead
                  /\ FirstReadHolds /\ NothingMissed /\ MoreIsThere

-----------------------------------------------------------------------------
(***************************************************************************)
(* The positions of the rows.                                              *)
(***************************************************************************)

Key(r) == SortKey(r, amount[r])

LEMMA RowsFinite ==
    /\ IsFiniteSet(Rows) /\ IsFiniteSet(List) /\ List \subseteq Rows
    /\ Cardinality(List) \in 0 .. Cardinality(Rows)
    /\ Cardinality(List) \in Nat /\ Cardinality(Rows) \in Nat
<1>1. IsFiniteSet(Rows) /\ List \in SUBSET Rows
  BY WalkAssumption DEF List
<1> QED BY <1>1, FS_Subset, FS_CardinalityType

LEMMA KeyTyped ==
    ASSUME table \in Tables, Accepted, amount \in [Rows -> Nat], NEW r \in Rows
    PROVE  Key(r) \in Int
<1> DEFINE sort == parseSort(query.sort, query.order)
<1>1. r \in Nat /\ PriceOf[r] \in Nat /\ amount[r] \in Nat
  BY WalkAssumption
<1>2. CASE table = "job"
  BY <1>1, <1>2 DEF Key, SortKey
<1>3. CASE table = "Product"
  <2>1. sort.field \in {"price", "createdAt", "name", "stockQuantity"}
    BY <1>3 DEF Accepted, parseSort, Unset, ALLOWED_PRODUCT_SORT_FIELDS
  <2> HIDE DEF sort
  <2> QED BY <1>1, <1>3, <2>1 DEF Key, SortKey, sort
<1>4. CASE table \in {"Category", "Customer"}
  <2>1. sort.field \in {"createdAt", "name"}
    BY <1>4 DEF Accepted, parseSort, Unset
  <2> QED BY <1>1, <1>4, <2>1 DEF Key, SortKey
<1> QED BY <1>2, <1>3, <1>4 DEF Tables

\* The second sort key tells any two rows apart.
LEMMA PrecedesIsTotal ==
    ASSUME table \in Tables, Accepted, amount \in [Rows -> Nat],
           NEW r \in Rows, NEW s \in Rows, r # s
    PROVE  Precedes(r, s) \/ Precedes(s, r)
<1>1. Key(r) \in Int /\ Key(s) \in Int /\ r \in Nat /\ s \in Nat
  BY KeyTyped, WalkAssumption
<1> QED BY <1>1 DEF Precedes, Key

\* Whatever order the database returns equal rows in, a row's rank is its
\* position, and every position is taken.
LEMMA RankIsPosition ==
    ASSUME table \in Tables, Accepted, amount \in [Rows -> Nat], NEW rank \in Rankings
    PROVE  /\ rank \in Bijection(List, 0 .. Cardinality(List) - 1)
           /\ \A r \in List : rank[r] = Position(r)
<1> DEFINE N == Cardinality(List)
<1>1. N \in Nat /\ IsFiniteSet(List) /\ List \subseteq Rows
  BY RowsFinite
<1>2. /\ rank \in [List -> 0 .. N - 1]
      /\ \A r, s \in List : r # s => rank[r] # rank[s]
      /\ \A r, s \in List : Precedes(r, s) => rank[r] < rank[s]
  BY DEF Rankings
<1>3. IsFiniteSet(0 .. N - 1) /\ Cardinality(0 .. N - 1) = N
  BY <1>1, FS_Interval
<1>4. rank \in Injection(List, 0 .. N - 1)
  BY <1>2 DEF Injection, IsInjective
<1>5. rank \in Surjection(List, 0 .. N - 1)
  BY <1>3, <1>4, FS_Injection
<1>6. rank \in Bijection(List, 0 .. N - 1)
  BY <1>4, <1>5 DEF Bijection
<1>7. ASSUME NEW r \in List PROVE rank[r] = Position(r)
  <2> DEFINE before == [s \in Before(r) |-> rank[s]]
  <2>1. rank[r] \in Nat /\ rank[r] < N /\ Before(r) \in SUBSET List
    BY <1>1, <1>2 DEF Before
  <2>2. ASSUME NEW s \in List PROVE s \in Before(r) <=> rank[s] < rank[r]
    <3>1. rank[s] \in Nat /\ rank[r] \in Nat
      BY <1>1, <1>2
    <3>2. r # s => Precedes(r, s) \/ Precedes(s, r)
      BY <1>1, PrecedesIsTotal
    <3> QED BY <1>2, <3>1, <3>2 DEF Before
  <2>3. before \in [Before(r) -> 0 .. rank[r] - 1]
    BY <1>1, <1>2, <2>1, <2>2
  <2>4. \A k \in 0 .. rank[r] - 1 : \E s \in Before(r) : before[s] = k
    <3> SUFFICES ASSUME NEW k \in 0 .. rank[r] - 1
                 PROVE  \E s \in Before(r) : before[s] = k
      OBVIOUS
    <3>1. k \in 0 .. N - 1
      BY <1>1, <2>1
    <3>2. PICK s \in List : rank[s] = k
      BY <1>5, <3>1 DEF Surjection
    <3>3. s \in Before(r)
      BY <2>1, <2>2, <3>2
    <3> QED BY <3>2, <3>3
  <2>5. \A s, t \in Before(r) : before[s] = before[t] => s = t
    BY <1>2, <2>1
  <2>6. before \in Bijection(Before(r), 0 .. rank[r] - 1)
    <3> HIDE DEF before
    <3> QED BY <2>3, <2>4, <2>5 DEF Bijection, Injection, IsInjective, Surjection
  <2>7. Cardinality(0 .. rank[r] - 1) = Cardinality(Before(r))
    <3>1. IsFiniteSet(Before(r)) /\ ExistsBijection(Before(r), 0 .. rank[r] - 1)
      BY <1>1, <2>1, <2>6, FS_Subset DEF ExistsBijection
    <3> QED BY <3>1, FS_Bijection
  <2> QED BY <2>1, <2>7, FS_Interval DEF Position
<1> QED BY <1>6, <1>7

\* A page has the rows there are, up to the limit.
LEMMA PageSize ==
    ASSUME table \in Tables, Accepted, amount \in [Rows -> Nat], NEW rank \in Rankings,
           NEW o \in Nat, NEW limit \in Nat \ {0}
    PROVE  Cardinality({r \in List : rank[r] \in o .. o + limit - 1})
             = RowsOf(Cardinality(List), limit, o)
<1> DEFINE N == Cardinality(List)
           P == {r \in List : rank[r] \in o .. o + limit - 1}
           m == IF N < o + limit THEN N ELSE o + limit
           onPage == [r \in P |-> rank[r]]
<1>1. N \in Nat /\ IsFiniteSet(List)
  BY RowsFinite
<1>2. rank \in Bijection(List, 0 .. N - 1)
  BY RankIsPosition
<1>3. /\ rank \in [List -> 0 .. N - 1]
      /\ \A r, s \in List : rank[r] = rank[s] => r = s
      /\ \A k \in 0 .. N - 1 : \E r \in List : rank[r] = k
  BY <1>2 DEF Bijection, Injection, IsInjective, Surjection
<1>4. m \in Nat /\ \A k \in Int : k \in o .. m - 1 <=> k \in o .. o + limit - 1 /\ k \in 0 .. N - 1
  BY <1>1
<1> HIDE DEF m
<1>5. P \in SUBSET List /\ \A r \in P : rank[r] \in o .. m - 1
  BY <1>1, <1>3, <1>4
<1>6. \A k \in o .. m - 1 : \E r \in P : rank[r] = k
  BY <1>1, <1>3, <1>4
<1> HIDE DEF P
<1>7. onPage \in Bijection(P, o .. m - 1)
  <2>1. onPage \in [P -> o .. m - 1]
    BY <1>5
  <2>2. \A r, s \in P : onPage[r] = onPage[s] => r = s
    BY <1>3, <1>5
  <2>3. \A k \in o .. m - 1 : \E r \in P : onPage[r] = k
    BY <1>6
  <2> HIDE DEF onPage
  <2> QED BY <2>1, <2>2, <2>3 DEF Bijection, Injection, IsInjective, Surjection
<1>8. Cardinality(P) = Cardinality(o .. m - 1)
  <2>1. IsFiniteSet(P) /\ ExistsBijection(P, o .. m - 1)
    BY <1>1, <1>5, <1>7, FS_Subset DEF ExistsBijection
  <2> QED BY <2>1, FS_Bijection
<1>9. Cardinality(o .. m - 1) = IF o > m - 1 THEN 0 ELSE (m - 1) - o + 1
  BY <1>4, FS_Interval
<1> QED BY <1>1, <1>4, <1>8, <1>9 DEF RowsOf, m, P

-----------------------------------------------------------------------------
(***************************************************************************)
(* What a change of the table does to the list.                            *)
(***************************************************************************)

\* Rows stay or leave, and none gets more rows before it; or the other way round.
OnlyLeaving == List' \subseteq List /\ \A s \in List' : Before(s)' \subseteq Before(s)
OnlyEntering == List \subseteq List' /\ \A s \in List : Before(s) \subseteq Before(s)'

\* A row that does not enter only leaves, and one that does not leave only enters.
LEMMA ChangesList ==
    ASSUME WalkInv, NEW r \in Rows, NEW n \in Nat, Changes(r, n)
    PROVE  \E enters, leaves \in BOOLEAN :
             /\ drift'.entered = (drift.entered \/ enters)
             /\ drift'.left = (drift.left \/ leaves)
             /\ drift'.between = (drift.between \/ (enters /\ Cardinality(reads) = 1))
             /\ drift'.kept = IF leaves THEN drift.kept \ {r} ELSE drift.kept
             /\ ~enters => OnlyLeaving
             /\ ~leaves => OnlyEntering
<1> DEFINE was == Listed(r, amount[r])
           is == Listed(r, n)
           moves == was /\ is /\ SortKey(r, amount[r]) # SortKey(r, n)
           enters == (is /\ ~was) \/ moves
           leaves == (was /\ ~is) \/ moves
<1>1. /\ table' = table /\ query' = query /\ amount' = [amount EXCEPT ![r] = n]
      /\ amount \in [Rows -> Nat]
  BY DEF Changes, WalkInv, WalkTypeOK
<1>2. /\ amount'[r] = n /\ \A s \in Rows \ {r} : amount'[s] = amount[s]
  BY <1>1
<1>3. \A s \in Rows : \A k : Listed(s, k)' = Listed(s, k) /\ SortKey(s, k)' = SortKey(s, k)
  BY <1>1 DEF Listed, SortKey
<1>4. List' = {s \in Rows : Listed(s, amount'[s])}
  BY <1>1, <1>3 DEF List, Listed
<1>5. /\ \A s \in Rows \ {r} : s \in List' <=> s \in List
      /\ r \in List' <=> is
      /\ r \in List <=> was
      /\ List \subseteq Rows /\ List' \subseteq Rows
  BY <1>2, <1>4 DEF List
<1>6. \A s, t \in Rows \ {r} : Precedes(s, t)' <=> Precedes(s, t)
  <2>1. ASSUME NEW s \in Rows \ {r}
        PROVE  SortKey(s, amount[s])' = SortKey(s, amount[s])
    BY <1>1, <1>2, <2>1 DEF SortKey
  <2> QED BY <1>1, <2>1 DEF Precedes
<1>7. ASSUME was, is, ~moves, NEW s \in Rows, NEW t \in Rows
      PROVE  Precedes(s, t)' <=> Precedes(s, t)
  <2>1. \A u \in Rows : SortKey(u, amount'[u]) = SortKey(u, amount[u])
    BY <1>2, <1>7
  <2>2. SortKey(s, amount[s])' = SortKey(s, amount[s])
        /\ SortKey(t, amount[t])' = SortKey(t, amount[t])
    BY <1>1, <2>1 DEF SortKey
  <2> QED BY <1>1, <2>2 DEF Precedes
<1> HIDE DEF is, was
<1>8. ~enters => OnlyLeaving
  <2> SUFFICES ASSUME ~enters PROVE OnlyLeaving
    OBVIOUS
  <2>1. List' \subseteq List
    BY <1>5
  <2>2. ASSUME NEW s \in List' PROVE Before(s)' \subseteq Before(s)
    <3>1. CASE is
      BY <1>5, <1>7, <2>1, <2>2, <3>1 DEF Before
    <3>2. CASE ~is
      BY <1>5, <1>6, <2>1, <2>2, <3>2 DEF Before
    <3> QED BY <3>1, <3>2
  <2> QED BY <2>1, <2>2 DEF OnlyLeaving
<1>9. ~leaves => OnlyEntering
  <2> SUFFICES ASSUME ~leaves PROVE OnlyEntering
    OBVIOUS
  <2>1. List \subseteq List'
    BY <1>5
  <2>2. ASSUME NEW s \in List PROVE Before(s) \subseteq Before(s)'
    <3>1. CASE was
      BY <1>5, <1>7, <2>1, <2>2, <3>1 DEF Before
    <3>2. CASE ~was
      BY <1>5, <1>6, <2>1, <2>2, <3>2 DEF Before
    <3> QED BY <3>1, <3>2
  <2> QED BY <2>1, <2>2 DEF OnlyEntering
<1>10. /\ drift'.entered = (drift.entered \/ enters)
       /\ drift'.left = (drift.left \/ leaves)
       /\ drift'.between = (drift.between \/ (enters /\ Cardinality(reads) = 1))
       /\ drift'.kept = IF leaves THEN drift.kept \ {r} ELSE drift.kept
  BY DEF Changes, is, was
<1> HIDE DEF enters, leaves
<1>11. (enters = TRUE \/ enters = FALSE) /\ (leaves = TRUE \/ leaves = FALSE)
  BY DEF enters, leaves
<1> QED BY <1>8, <1>9, <1>10, <1>11

\* The positions follow.
LEMMA PositionTyped == \A r : Position(r) \in Nat /\ IsFiniteSet(Before(r))
<1> TAKE r
<1>1. Before(r) \in SUBSET List
  BY DEF Before
<1> QED BY <1>1, RowsFinite, FS_Subset, FS_CardinalityType DEF Position

LEMMA RowsFiniteAfter ==
    /\ IsFiniteSet(List') /\ List' \subseteq Rows
    /\ Cardinality(List)' \in 0 .. Cardinality(Rows)
    /\ Cardinality(List)' \in Nat
<1>1. IsFiniteSet(Rows) /\ List' \in SUBSET Rows
  BY WalkAssumption DEF List
<1> QED BY <1>1, FS_Subset, FS_CardinalityType

LEMMA PositionTypedAfter == \A r : Position(r)' \in Nat /\ IsFiniteSet(Before(r)')
<1> TAKE r
<1>1. Before(r)' \in SUBSET (List')
  BY DEF Before
<1> QED BY <1>1, RowsFiniteAfter, FS_Subset, FS_CardinalityType DEF Position

LEMMA LeavingDraws == OnlyLeaving => \A s \in List' : Position(s)' <= Position(s)
<1> SUFFICES ASSUME OnlyLeaving, NEW s \in List' PROVE Position(s)' <= Position(s)
  OBVIOUS
<1>1. Before(s)' \in SUBSET Before(s)
  BY DEF OnlyLeaving
<1> QED BY <1>1, PositionTyped, FS_Subset DEF Position

LEMMA EnteringPushes ==
    OnlyEntering => /\ \A s \in List : Position(s) <= Position(s)'
                    /\ Cardinality(List) <= Cardinality(List)'
<1> SUFFICES ASSUME OnlyEntering
             PROVE  /\ \A s \in List : Position(s) <= Position(s)'
                    /\ Cardinality(List) <= Cardinality(List)'
  OBVIOUS
<1>1. \A s \in List : Before(s) \in SUBSET (Before(s)')
  BY DEF OnlyEntering
<1>2. List \in SUBSET (List')
  BY DEF OnlyEntering
<1>3. Cardinality(List) <= Cardinality(List)'
  BY <1>2, RowsFiniteAfter, FS_Subset
<1> QED BY <1>1, <1>3, PositionTypedAfter, FS_Subset DEF Position

\* A listed row is before the end of the list.
LEMMA PositionInList ==
    ASSUME table \in Tables, Accepted, amount \in [Rows -> Nat], NEW r \in List
    PROVE  Position(r) < Cardinality(List)
<1>1. r \in Rows /\ r \in Nat /\ Key(r) \in Int
  BY RowsFinite, WalkAssumption, KeyTyped
<1>2. r \notin Before(r)
  BY <1>1 DEF Before, Precedes, Key
<1>3. Before(r) \in SUBSET List /\ Before(r) # List
  BY <1>2 DEF Before
<1>4. Position(r) \in Nat /\ Cardinality(List) \in Nat
  BY PositionTyped, RowsFinite
<1> QED BY <1>3, <1>4, RowsFinite, FS_Subset DEF Position

LEMMA PrecedingGrows ==
    ASSUME table \in Tables, Accepted, amount \in [Rows -> Nat],
           NEW r \in List, NEW s \in List, Precedes(r, s)
    PROVE  Position(r) < Position(s)
<1>1. List \subseteq Rows /\ \A t \in Rows : t \in Nat /\ Key(t) \in Int
  BY RowsFinite, WalkAssumption, KeyTyped
<1>2. ASSUME NEW t \in List, Precedes(t, r) PROVE Precedes(t, s)
  <2>1. Key(r) \in Int /\ Key(s) \in Int /\ Key(t) \in Int /\ r \in Nat /\ s \in Nat /\ t \in Nat
    BY <1>1
  <2> QED BY <1>2, <2>1 DEF Precedes, Key
<1>3. ~Precedes(r, r)
  BY <1>1 DEF Precedes, Key
<1>4. Before(r) \in SUBSET Before(s) /\ Before(r) # Before(s)
  BY <1>2, <1>3 DEF Before
<1>5. Position(r) \in Nat /\ Position(s) \in Nat /\ IsFiniteSet(Before(s))
  BY PositionTyped
<1> QED BY <1>4, <1>5, FS_Subset DEF Position

\* ORDER BY leaves exactly one order of the list.
LEMMA OneRanking ==
    ASSUME table \in Tables, Accepted, amount \in [Rows -> Nat]
    PROVE  Rankings = {[r \in List |-> Position(r)]}
<1> DEFINE N == Cardinality(List)
           byPosition == [r \in List |-> Position(r)]
<1>1. N \in Nat /\ List \subseteq Rows /\ \A r \in List : Position(r) \in 0 .. N - 1
  BY RowsFinite, PositionTyped, PositionInList
<1>2. ASSUME NEW r \in List, NEW s \in List
      PROVE  /\ r # s => Position(r) # Position(s)
             /\ Precedes(r, s) => Position(r) < Position(s)
  <2>1. Precedes(r, s) => Position(r) < Position(s)
    BY PrecedingGrows
  <2>2. Precedes(s, r) => Position(s) < Position(r)
    BY PrecedingGrows
  <2>3. Position(r) \in Nat /\ Position(s) \in Nat
    BY PositionTyped
  <2> QED BY <1>1, <2>1, <2>2, <2>3, PrecedesIsTotal
<1>3. byPosition \in Rankings
  <2>1. byPosition \in [List -> 0 .. N - 1]
    BY <1>1
  <2>2. \A r, s \in List : /\ r # s => byPosition[r] # byPosition[s]
                           /\ Precedes(r, s) => byPosition[r] < byPosition[s]
    BY <1>2
  <2> HIDE DEF byPosition
  <2> QED BY <2>1, <2>2 DEF Rankings
<1>4. ASSUME NEW rank \in Rankings PROVE rank = byPosition
  <2>1. rank \in [List -> 0 .. N - 1]
    BY DEF Rankings
  <2>2. \A r \in List : rank[r] = Position(r)
    BY RankIsPosition
  <2> QED BY <2>1, <2>2
<1> HIDE DEF byPosition
<1>5. Rankings = {byPosition}
  BY <1>3, <1>4
<1> QED BY <1>5 DEF byPosition

-----------------------------------------------------------------------------
(***************************************************************************)
(* The steps of the walk.                                                  *)
(***************************************************************************)

LEMMA RowsOfBounds ==
    ASSUME NEW n \in Nat, NEW limit \in Nat \ {0}, NEW o \in Nat
    PROVE  /\ RowsOf(n, limit, o) \in 0 .. limit
           /\ o < n => RowsOf(n, limit, o) > 0
           /\ o + RowsOf(n, limit, o) < n <=> o + limit < n
  BY DEF RowsOf

\* While a request only reads, the list and the query are as they were.
LEMMA SameList ==
    ASSUME table' = table, amount' = amount, query' = query
    PROVE  /\ List' = List /\ \A r : Position(r)' = Position(r)
           /\ Limit' = Limit /\ Start' = Start /\ Accepted' = Accepted
<1>1. \A r, n : Listed(r, n)' = Listed(r, n) /\ SortKey(r, n)' = SortKey(r, n)
  BY DEF Listed, SortKey
<1>2. List' = List /\ \A r, s : Precedes(r, s)' = Precedes(r, s)
  BY DEF List, Precedes, Listed, SortKey
<1>3. \A r : Position(r)' = Position(r)
  BY <1>2 DEF Position, Before
<1> QED BY <1>2, <1>3 DEF Limit, Start, Accepted

LEMMA WalkTypes ==
    ASSUME WalkInv, Walking
    PROVE  /\ table \in Tables /\ amount \in [Rows -> Nat] /\ Accepted
           /\ Limit \in Nat \ {0} /\ offset \in Nat /\ Start \in Nat
           /\ total \in Nat /\ Cardinality(page) \in Nat /\ IsFiniteSet(page)
           /\ Cardinality(List) \in Nat
           /\ reads \subseteq Both /\ ReadUpTo \in Nat
<1>1. WalkTypeOK /\ Accepted
  BY DEF WalkInv
<1>2. page \in SUBSET Rows /\ IsFiniteSet(page) /\ Cardinality(page) \in Nat
  BY <1>1, RowsFinite, FS_Subset, FS_CardinalityType DEF WalkTypeOK
<1>3. Limit \in Nat \ {0}
  BY <1>1 DEF WalkTypeOK, Walking, MAX_LIMIT
<1>4. Start \in Nat
  <2>1. query.limit \in Param /\ query.offset \in Param
    BY <1>1, QueriesAssumption DEF Accepted
  <2> QED BY <1>1, <2>1, ParsedLimitIsBounded DEF Accepted, Start
<1>5. total \in Nat
  BY <1>1, RowsFinite DEF WalkTypeOK
<1> QED BY <1>1, <1>2, <1>3, <1>4, <1>5, RowsFinite DEF WalkTypeOK, Both, ReadUpTo

LEMMA BeginWalkKeeps ==
    ASSUME WalkInv, NEW q \in Queries, BeginWalk(q)
    PROVE  WalkInv'
<1>1. /\ WalkTypeOK /\ pc = "idle" /\ reads = {} /\ \A r \in Rows : seen[r] = 0
      /\ table' = table /\ amount' = amount /\ seen' = seen /\ changes' = changes
      /\ query' = q
      /\ drift' = [left |-> FALSE, entered |-> FALSE, between |-> FALSE, kept |-> List']
  BY DEF WalkInv, BeginWalk, Walking
<1>2. drift' \in [left : BOOLEAN, entered : BOOLEAN, between : BOOLEAN, kept : SUBSET Rows]
      /\ drift'.kept = List' /\ ~drift'.entered
  BY <1>1, RowsFiniteAfter
<1>3. CASE pc' = "refused"
  <2>1. UNCHANGED <<reads, total, page, offset>>
    BY <1>3 DEF BeginWalk, Asks
  <2>2. WalkTypeOK'
    BY <1>1, <1>2, <1>3, <2>1 DEF WalkTypeOK
  <2> QED BY <1>1, <1>3, <2>1, <2>2 DEF WalkInv, Walking
<1>4. CASE pc' # "refused"
  <2>1. /\ pc' = "reading" /\ reads' = {} /\ total' = 0 /\ page' = {}
        /\ offset' = OffsetOf(q.offset)
    BY <1>4 DEF BeginWalk, Asks
  <2>2. ~PaginationRefused(q.limit, q.offset)
    BY <1>1, <1>4 DEF BeginWalk, ProductsRefused, CategoriesRefused, CustomersRefused,
                      JobPaginationRefused, WalkTypeOK, Tables
  <2>3. q.limit \in Param /\ q.offset \in Param
    BY QueriesAssumption
  <2>4. Accepted'
    <3>1. CASE table = "Product"
      BY <1>1, <1>4, <2>2, <3>1 DEF BeginWalk, ProductsRefused, SortRefused, Accepted
    <3>2. CASE table \in {"Category", "Customer"}
      BY <1>1, <1>4, <2>2, <3>2
         DEF BeginWalk, CategoriesRefused, CustomersRefused, SortRefused, Accepted,
             ALLOWED_CATEGORY_SORT, ALLOWED_CUSTOMER_SORT
    <3>3. CASE table = "job"
      BY <1>1, <2>2, <3>3 DEF Accepted
    <3> QED BY <1>1, <3>1, <3>2, <3>3 DEF WalkTypeOK, Tables
  <2>5. /\ Limit' \in 1 .. MAX_LIMIT /\ offset' \in Nat
        /\ Start' = offset' /\ ReadUpTo' = offset'
    BY <1>1, <2>1, <2>2, <2>3, ParsedLimitIsBounded DEF Limit, Start, ReadUpTo
  <2>6. WalkTypeOK'
    BY <1>1, <1>2, <2>1, <2>5, RowsFinite DEF WalkTypeOK
  <2>7. Cardinality(page') <= Limit'
    BY <2>1, <2>5, FS_EmptySet DEF MAX_LIMIT
  <2>8. ShownAreBehind'
    BY <1>1 DEF ShownAreBehind
  <2>9. KeptAreAhead'
    BY <1>2, <2>5, PositionTypedAfter DEF KeptAreAhead
  <2>10. FirstReadHolds' /\ NothingMissed' /\ MoreIsThere'
    BY <2>1, <2>5 DEF FirstReadHolds, NothingMissed, MoreIsThere, Both
  <2> QED BY <2>1, <2>4, <2>6, <2>7, <2>8, <2>9, <2>10 DEF WalkInv, Walking
<1> QED BY <1>3, <1>4

LEMMA ReadTotalKeeps ==
    ASSUME WalkInv, ReadTotal
    PROVE  WalkInv'
<1>1. /\ WalkTypeOK /\ pc = "reading" /\ "total" \notin reads
      /\ total' = Cardinality(List) /\ reads' = reads \cup {"total"}
      /\ UNCHANGED <<table, amount, query, page, offset, seen, pc, changes, drift>>
  BY DEF WalkInv, ReadTotal
<1>2. /\ Walking /\ Accepted /\ Cardinality(page) <= Limit
      /\ ShownAreBehind /\ KeptAreAhead /\ FirstReadHolds /\ NothingMissed /\ MoreIsThere
  BY <1>1 DEF WalkInv, Walking
<1>3. /\ List' = List /\ \A r : Position(r)' = Position(r)
      /\ Limit' = Limit /\ Start' = Start /\ Accepted'
  BY <1>1, <1>2, SameList
<1>4. WalkTypeOK'
  BY <1>1, <1>3, RowsFinite DEF WalkTypeOK
<1>5. ReadUpTo' = ReadUpTo
  BY <1>1, <1>3 DEF ReadUpTo
<1>6. ShownAreBehind' /\ KeptAreAhead'
  BY <1>1, <1>2, <1>3, <1>5 DEF ShownAreBehind, KeptAreAhead
<1>7. Undisturbed' = Undisturbed
  BY <1>1 DEF Undisturbed
<1>8. reads \subseteq Both /\ (reads' = {"total"} \/ (reads = {"page"} /\ reads' = Both))
  BY <1>1 DEF WalkTypeOK, Both
<1>9. FirstReadHolds'
  BY <1>1, <1>3, <1>8 DEF FirstReadHolds, Both
<1>10. ASSUME reads' = Both, Undisturbed
       PROVE  /\ Cardinality(page) = RowsOf(Cardinality(List), Limit, offset)
              /\ "page" \in reads /\ ReadUpTo = offset + Limit
              /\ HasMore' <=> offset + Limit < Cardinality(List)
  <2>1. reads = {"page"}
    BY <1>8, <1>10 DEF Both
  <2>2. Cardinality(page) = RowsOf(Cardinality(List), Limit, offset)
    BY <1>2, <1>10, <2>1 DEF FirstReadHolds
  <2>3. offset + Cardinality(page) < Cardinality(List) <=> offset + Limit < Cardinality(List)
    BY <1>2, <2>2, WalkTypes, RowsOfBounds
  <2>4. HasMore' <=> offset + Limit < Cardinality(List)
    BY <1>1, <1>3, <2>3 DEF HasMore, buildPaginationMeta
  <2> QED BY <2>1, <2>2, <2>4 DEF ReadUpTo
<1>11. NothingMissed'
  <2> SUFFICES ASSUME Undisturbed, Start = 0, reads' = Both, ~HasMore', NEW r \in drift.kept
               PROVE  seen[r] > 0
    BY <1>1, <1>3, <1>7 DEF NothingMissed
  <2>1. /\ r \in List /\ (seen[r] > 0 \/ Position(r) >= offset + Limit)
        /\ ~(offset + Limit < Cardinality(List))
    BY <1>2, <1>10 DEF KeptAreAhead, Undisturbed
  <2>2. Position(r) < Cardinality(List)
    BY <1>2, <2>1, WalkTypes, PositionInList
  <2> QED BY <1>2, <2>1, <2>2, WalkTypes, PositionTyped
<1>12. MoreIsThere'
  <2>1. Undisturbed /\ reads' = Both /\ HasMore' => offset + Limit < Cardinality(List)
    BY <1>10
  <2> QED BY <1>1, <1>2, <1>3, <1>7, <2>1 DEF MoreIsThere
<1> QED BY <1>1, <1>2, <1>3, <1>4, <1>6, <1>9, <1>11, <1>12 DEF WalkInv, Walking

LEMMA ReadPageKeeps ==
    ASSUME WalkInv, ReadPage
    PROVE  WalkInv'
<1>1. /\ WalkTypeOK /\ pc = "reading" /\ "page" \notin reads
      /\ reads' = reads \cup {"page"}
      /\ seen' = [r \in Rows |-> IF r \in page' /\ seen[r] < 2 THEN seen[r] + 1 ELSE seen[r]]
      /\ UNCHANGED <<table, amount, query, total, offset, pc, changes, drift>>
  BY DEF WalkInv, ReadPage
<1>2. /\ Walking /\ Accepted
      /\ ShownAreBehind /\ KeptAreAhead /\ FirstReadHolds /\ NothingMissed /\ MoreIsThere
  BY <1>1 DEF WalkInv, Walking
<1>3. /\ List' = List /\ \A r : Position(r)' = Position(r)
      /\ Limit' = Limit /\ Start' = Start /\ Accepted'
  BY <1>1, <1>2, SameList
<1>4. PICK rank \in Rankings : page' = {r \in List : rank[r] \in offset .. offset + Limit - 1}
  BY DEF ReadPage
<1>5. /\ table \in Tables /\ amount \in [Rows -> Nat]
      /\ Limit \in Nat \ {0} /\ offset \in Nat /\ Start \in Nat /\ Cardinality(List) \in Nat
      /\ List \subseteq Rows /\ \A r \in Rows : seen[r] \in 0 .. 2
  BY <1>1, <1>2, WalkTypes, RowsFinite DEF WalkTypeOK
<1>6. page' \subseteq List
      /\ \A r \in List : r \in page' <=> offset <= Position(r) /\ Position(r) < offset + Limit
  BY <1>2, <1>4, <1>5, RankIsPosition, PositionTyped
<1>7. Cardinality(page') = RowsOf(Cardinality(List), Limit, offset)
  BY <1>2, <1>4, <1>5, PageSize
<1>8. /\ Cardinality(page') \in 0 .. Limit
      /\ offset < Cardinality(List) => Cardinality(page') > 0
      /\ offset + Cardinality(page') < Cardinality(List) <=> offset + Limit < Cardinality(List)
  BY <1>5, <1>7, RowsOfBounds
<1>9. WalkTypeOK'
  <2>1. seen' \in [Rows -> 0 .. 2]
    BY <1>1, <1>5
  <2> QED BY <1>1, <1>3, <1>5, <1>6, <2>1 DEF WalkTypeOK
<1>10. ReadUpTo' = offset + Limit /\ ReadUpTo = offset
  BY <1>1, <1>3 DEF ReadUpTo
<1>11. ShownAreBehind'
  <2> SUFFICES ASSUME ~drift.entered, NEW r \in Rows
               PROVE  seen'[r] <= 1 /\ (seen'[r] = 1 /\ r \in List => Position(r) < offset + Limit)
    BY <1>1, <1>3, <1>10 DEF ShownAreBehind
  <2>1. seen[r] <= 1 /\ (seen[r] = 1 /\ r \in List => Position(r) < offset)
    BY <1>2, <1>10 DEF ShownAreBehind
  <2>2. seen'[r] = (IF r \in page' /\ seen[r] < 2 THEN seen[r] + 1 ELSE seen[r])
        /\ seen[r] \in 0 .. 2 /\ Position(r) \in Nat
    BY <1>1, <1>5, PositionTyped
  <2> QED BY <1>5, <1>6, <2>1, <2>2
<1>12. KeptAreAhead'
  <2> SUFFICES ASSUME Start = 0, ~drift.left
               PROVE  /\ drift.kept \subseteq List
                      /\ \A r \in drift.kept : seen'[r] > 0 \/ Position(r) >= offset + Limit
    BY <1>1, <1>3, <1>10 DEF KeptAreAhead
  <2>1. drift.kept \subseteq List /\ \A r \in drift.kept : seen[r] > 0 \/ Position(r) >= offset
    BY <1>2, <1>10 DEF KeptAreAhead
  <2>2. ASSUME NEW r \in drift.kept PROVE seen'[r] > 0 \/ Position(r) >= offset + Limit
    <3>1. seen'[r] = (IF r \in page' /\ seen[r] < 2 THEN seen[r] + 1 ELSE seen[r])
          /\ seen[r] \in 0 .. 2 /\ Position(r) \in Nat
      BY <1>1, <1>5, <2>1, PositionTyped
    <3> QED BY <1>5, <1>6, <2>1, <3>1
  <2> QED BY <2>1, <2>2
<1>13. Undisturbed' = Undisturbed
  BY <1>1 DEF Undisturbed
<1>14. reads \subseteq Both /\ (reads' = {"page"} \/ (reads = {"total"} /\ reads' = Both))
  BY <1>1 DEF WalkTypeOK, Both
<1>15. FirstReadHolds'
  BY <1>1, <1>3, <1>7, <1>14 DEF FirstReadHolds, Both
<1>16. ASSUME reads' = Both, Undisturbed
       PROVE  HasMore' <=> offset + Limit < Cardinality(List)
  <2>1. reads = {"total"}
    BY <1>14, <1>16 DEF Both
  <2>2. total = Cardinality(List)
    BY <1>2, <1>16, <2>1 DEF FirstReadHolds
  <2> QED BY <1>1, <1>3, <1>8, <2>2 DEF HasMore, buildPaginationMeta
<1>17. NothingMissed'
  <2> SUFFICES ASSUME Undisturbed, Start = 0, reads' = Both, ~HasMore', NEW r \in drift.kept
               PROVE  seen'[r] > 0
    BY <1>1, <1>3, <1>13 DEF NothingMissed
  <2>1. r \in List /\ (seen'[r] > 0 \/ Position(r) >= offset + Limit)
    BY <1>1, <1>3, <1>10, <1>12 DEF KeptAreAhead, Undisturbed
  <2>2. Position(r) < Cardinality(List) /\ Position(r) \in Nat
    BY <1>2, <1>5, <2>1, PositionInList, PositionTyped
  <2> QED BY <1>5, <1>16, <2>1, <2>2
<1>18. MoreIsThere'
  <2>1. ASSUME Undisturbed, offset > Start PROVE page' # {}
    <3>1. offset < Cardinality(List)
      BY <1>1, <1>2, <2>1 DEF MoreIsThere
    <3> QED BY <1>8, <3>1, FS_EmptySet
  <2>2. "page" \in reads'
    BY <1>1
  <2>3. Undisturbed /\ reads' = Both /\ HasMore' => offset + Limit < Cardinality(List)
    BY <1>16
  <2> QED BY <1>1, <1>3, <1>13, <2>1, <2>2, <2>3 DEF MoreIsThere
<1> QED BY <1>1, <1>3, <1>5, <1>8, <1>9, <1>11, <1>12, <1>15, <1>17, <1>18
        DEF WalkInv, Walking

LEMMA NextRequestKeeps ==
    ASSUME WalkInv, NextRequest
    PROVE  WalkInv'
<1>1. /\ WalkTypeOK /\ pc = "reading" /\ reads = Both
      /\ UNCHANGED <<table, amount, query, seen, changes, drift>>
  BY DEF WalkInv, NextRequest, Both
<1>2. /\ Walking /\ Accepted /\ Cardinality(page) <= Limit
      /\ ShownAreBehind /\ KeptAreAhead /\ FirstReadHolds /\ NothingMissed /\ MoreIsThere
  BY <1>1 DEF WalkInv, Walking
<1>3. /\ List' = List /\ \A r : Position(r)' = Position(r)
      /\ Limit' = Limit /\ Start' = Start /\ Accepted'
  BY <1>1, <1>2, SameList
<1>4. /\ Limit \in 1 .. MAX_LIMIT /\ Limit \in Nat \ {0} /\ offset \in Nat /\ Start \in Nat
      /\ ReadUpTo = offset + Limit /\ Cardinality(List) \in Nat
  BY <1>1, <1>2, WalkTypes DEF WalkTypeOK, Both, ReadUpTo
<1>5. Undisturbed' = Undisturbed
  BY <1>1 DEF Undisturbed
<1>6. CASE HasMore
  <2>1. /\ pc' = "reading" /\ reads' = {} /\ total' = 0 /\ page' = {}
        /\ offset' = offset + Limit
    BY <1>6 DEF NextRequest, Asks
  <2>2. WalkTypeOK'
    BY <1>1, <1>3, <1>4, <2>1, RowsFinite DEF WalkTypeOK
  <2>3. ReadUpTo' = ReadUpTo
    BY <1>4, <2>1 DEF ReadUpTo
  <2>4. ShownAreBehind' /\ KeptAreAhead'
    BY <1>1, <1>2, <1>3, <2>3 DEF ShownAreBehind, KeptAreAhead
  <2>5. FirstReadHolds' /\ NothingMissed'
    BY <2>1 DEF FirstReadHolds, NothingMissed, Both
  <2>6. MoreIsThere'
    BY <1>1, <1>2, <1>3, <1>5, <1>6, <2>1 DEF MoreIsThere, Both
  <2>7. Cardinality(page') <= Limit'
    BY <1>3, <1>4, <2>1, FS_EmptySet
  <2> QED BY <1>3, <2>1, <2>2, <2>4, <2>5, <2>6, <2>7 DEF WalkInv, Walking
<1>7. CASE ~HasMore
  <2>1. pc' = "done" /\ UNCHANGED <<reads, total, page, offset>>
    BY <1>7 DEF NextRequest
  <2>2. WalkTypeOK'
    BY <1>1, <1>3, <1>4, <2>1 DEF WalkTypeOK
  <2>3. ReadUpTo' = ReadUpTo /\ HasMore' = HasMore
    BY <1>1, <1>3, <2>1 DEF ReadUpTo, HasMore
  <2>4. ShownAreBehind' /\ KeptAreAhead'
    BY <1>1, <1>2, <1>3, <2>3 DEF ShownAreBehind, KeptAreAhead
  <2>5. FirstReadHolds' /\ NothingMissed' /\ MoreIsThere'
    BY <1>1, <1>2, <1>3, <1>5, <2>1, <2>3 DEF FirstReadHolds, NothingMissed, MoreIsThere
  <2> QED BY <1>1, <1>2, <1>3, <1>7, <2>1, <2>2, <2>3, <2>4, <2>5 DEF WalkInv, Walking
<1> QED BY <1>6, <1>7

LEMMA ChangesKeeps ==
    ASSUME WalkInv, NEW r \in Rows, NEW n \in Nat, Changes(r, n)
    PROVE  WalkInv'
<1>1. /\ WalkTypeOK /\ pc = "reading" /\ changes < MaxChanges /\ changes' = changes + 1
      /\ amount' = [amount EXCEPT ![r] = n]
      /\ UNCHANGED <<table, query, reads, total, page, offset, seen, pc>>
  BY DEF WalkInv, Changes
<1>2. /\ Walking /\ Accepted /\ Cardinality(page) <= Limit
      /\ ShownAreBehind /\ KeptAreAhead /\ FirstReadHolds /\ NothingMissed /\ MoreIsThere
  BY <1>1 DEF WalkInv, Walking
<1>3. /\ Limit' = Limit /\ Start' = Start /\ Accepted' /\ ReadUpTo' = ReadUpTo
      /\ HasMore' = HasMore
  BY <1>1, <1>2 DEF Limit, Start, Accepted, ReadUpTo, HasMore
<1>4. /\ Limit \in Nat \ {0} /\ offset \in Nat /\ Start \in Nat /\ ReadUpTo \in Nat
      /\ Cardinality(List) \in Nat
  BY <1>2, WalkTypes
<1>5. PICK enters \in BOOLEAN, leaves \in BOOLEAN :
        /\ drift'.entered = (drift.entered \/ enters)
        /\ drift'.left = (drift.left \/ leaves)
        /\ drift'.between = (drift.between \/ (enters /\ Cardinality(reads) = 1))
        /\ drift'.kept = IF leaves THEN drift.kept \ {r} ELSE drift.kept
        /\ ~enters => OnlyLeaving
        /\ ~leaves => OnlyEntering
  BY ChangesList
<1>6. WalkTypeOK'
  <2>1. amount' \in [Rows -> Nat]
    BY <1>1 DEF WalkTypeOK
  <2>2. changes' \in 0 .. MaxChanges
    BY <1>1, WalkAssumption DEF WalkTypeOK
  <2>3. drift' \in [left : BOOLEAN, entered : BOOLEAN, between : BOOLEAN, kept : SUBSET Rows]
    BY <1>1 DEF Changes, WalkTypeOK
  <2> QED BY <1>1, <1>3, <2>1, <2>2, <2>3 DEF WalkTypeOK
<1>7. ShownAreBehind'
  <2> SUFFICES ASSUME ~drift'.entered, NEW s \in Rows
               PROVE  seen[s] <= 1 /\ (seen[s] = 1 /\ s \in List' => Position(s)' < ReadUpTo)
    BY <1>1, <1>3 DEF ShownAreBehind
  <2>1. OnlyLeaving /\ seen[s] <= 1 /\ (seen[s] = 1 /\ s \in List => Position(s) < ReadUpTo)
    BY <1>2, <1>5 DEF ShownAreBehind
  <2>2. s \in List' => s \in List /\ Position(s)' <= Position(s)
    BY <2>1, LeavingDraws DEF OnlyLeaving
  <2>3. Position(s) \in Nat /\ Position(s)' \in Nat
    BY PositionTyped, PositionTypedAfter
  <2> QED BY <1>4, <2>1, <2>2, <2>3
<1>8. ASSUME ~drift'.left
      PROVE  ~drift.left /\ OnlyEntering /\ drift'.kept = drift.kept
  BY <1>5, <1>8
<1>9. KeptAreAhead'
  <2> SUFFICES ASSUME Start = 0, ~drift'.left
               PROVE  /\ drift'.kept \subseteq List'
                      /\ \A s \in drift'.kept : seen[s] > 0 \/ Position(s)' >= ReadUpTo
    BY <1>1, <1>3 DEF KeptAreAhead
  <2>1. /\ drift'.kept = drift.kept /\ OnlyEntering /\ drift.kept \subseteq List
        /\ \A s \in drift.kept : seen[s] > 0 \/ Position(s) >= ReadUpTo
    BY <1>2, <1>8 DEF KeptAreAhead
  <2>2. \A s \in drift.kept : Position(s) <= Position(s)'
    BY <2>1, EnteringPushes
  <2>3. \A s : Position(s) \in Nat /\ Position(s)' \in Nat
    BY PositionTyped, PositionTypedAfter
  <2> QED BY <1>4, <2>1, <2>2, <2>3 DEF OnlyEntering
<1>10. ASSUME Undisturbed'
       PROVE  /\ Undisturbed /\ drift'.kept = drift.kept
              /\ Cardinality(List) <= Cardinality(List)'
              /\ Cardinality(reads) = 1 => List' = List
  <2>1. ~drift'.left /\ ~drift'.between
    BY <1>10 DEF Undisturbed
  <2>2. Cardinality(reads) = 1 => OnlyLeaving
    BY <1>5, <2>1
  <2> QED BY <1>5, <1>8, <2>1, <2>2, EnteringPushes DEF Undisturbed, OnlyLeaving, OnlyEntering
<1>11. FirstReadHolds'
  <2>1. reads = {"total"} \/ reads = {"page"} => Cardinality(reads) = 1
    BY FS_Singleton
  <2> QED BY <1>1, <1>2, <1>3, <1>10, <2>1 DEF FirstReadHolds
<1>12. NothingMissed'
  BY <1>1, <1>2, <1>3, <1>10 DEF NothingMissed
<1>13. MoreIsThere'
  <2> SUFFICES ASSUME Undisturbed'
               PROVE  /\ reads = Both /\ HasMore => offset + Limit < Cardinality(List)'
                      /\ offset > Start =>
                           IF "page" \in reads THEN page # {} ELSE offset < Cardinality(List)'
    BY <1>1, <1>3 DEF MoreIsThere
  <2>1. /\ reads = Both /\ HasMore => offset + Limit < Cardinality(List)
        /\ offset > Start => IF "page" \in reads THEN page # {} ELSE offset < Cardinality(List)
    BY <1>2, <1>10 DEF MoreIsThere
  <2>2. Cardinality(List) <= Cardinality(List)' /\ Cardinality(List)' \in Nat
    BY <1>10, RowsFiniteAfter
  <2> QED BY <1>4, <2>1, <2>2
<1> QED BY <1>1, <1>2, <1>3, <1>6, <1>7, <1>9, <1>11, <1>12, <1>13 DEF WalkInv, Walking

-----------------------------------------------------------------------------
(***************************************************************************)
(* The theorems.                                                           *)
(***************************************************************************)

LEMMA WalkInitInv == WalkInit => WalkInv
<1> SUFFICES ASSUME WalkInit PROVE WalkInv
  OBVIOUS
<1>1. amount \in [Rows -> Nat]
  BY WalkAssumption DEF WalkInit, Tables
<1>2. drift \in [left : BOOLEAN, entered : BOOLEAN, between : BOOLEAN, kept : SUBSET Rows]
  BY DEF WalkInit
<1>3. WalkTypeOK
  BY <1>1, <1>2, WalkAssumption, RowsFinite DEF WalkInit, WalkTypeOK
<1> QED BY <1>3 DEF WalkInit, WalkInv, Walking

\* Orders, cancellations, deaths and retries all change one row.
LEMMA OthersChange ==
    ASSUME WalkInv, NEW r \in Rows,
           OrderTakes(r) \/ OrderReturns(r) \/ JobDies(r) \/ JobIsRetried(r)
    PROVE  \E n \in Nat : Changes(r, n)
<1>1. \A s \in Rows : amount[s] \in Nat
  BY DEF WalkInv, WalkTypeOK
<1>2. CASE OrderTakes(r)
  BY <1>1, <1>2 DEF OrderTakes
<1>3. CASE OrderReturns(r)
  BY <1>1, <1>3 DEF OrderReturns
<1>4. CASE JobDies(r)
  BY <1>1, <1>4 DEF JobDies
<1>5. CASE JobIsRetried(r)
  BY <1>5 DEF JobIsRetried
<1> QED BY <1>2, <1>3, <1>4, <1>5

LEMMA WalkStutterInv ==
    ASSUME WalkInv, UNCHANGED walkVars
    PROVE  WalkInv'
<1>1. UNCHANGED <<table, amount, query, reads, total, page, offset, seen, pc, changes, drift>>
  BY DEF walkVars
<1>2. /\ List' = List /\ \A r : Position(r)' = Position(r)
      /\ Limit' = Limit /\ Start' = Start /\ Accepted' = Accepted
  BY <1>1, SameList
<1>3. WalkTypeOK'
  BY <1>1, <1>2 DEF WalkInv, WalkTypeOK
<1>4. HasMore' = HasMore /\ ReadUpTo' = ReadUpTo /\ Undisturbed' = Undisturbed
      /\ Walking' = Walking
  BY <1>1, <1>2 DEF HasMore, ReadUpTo, Undisturbed, Walking
<1>5. Walking => ShownAreBehind' /\ KeptAreAhead'
  BY <1>1, <1>2, <1>4 DEF WalkInv, ShownAreBehind, KeptAreAhead
<1>6. Walking => FirstReadHolds' /\ NothingMissed' /\ MoreIsThere'
  BY <1>1, <1>2, <1>4 DEF WalkInv, FirstReadHolds, NothingMissed, MoreIsThere
<1> QED BY <1>1, <1>2, <1>3, <1>4, <1>5, <1>6 DEF WalkInv

\* The inductive invariant of the walk.
THEOREM WalkCorrect == WalkSpec => []WalkInv
<1>1. WalkInv /\ [WalkNext]_walkVars => WalkInv'
  <2> SUFFICES ASSUME WalkInv, [WalkNext]_walkVars PROVE WalkInv'
    OBVIOUS
  <2>1. CASE UNCHANGED walkVars
    BY <2>1, WalkStutterInv
  <2>2. ASSUME NEW q \in Queries, BeginWalk(q) PROVE WalkInv'
    BY <2>2, BeginWalkKeeps
  <2>3. CASE ReadTotal \/ ReadPage \/ NextRequest
    BY <2>3, ReadTotalKeeps, ReadPageKeeps, NextRequestKeeps
  <2>4. ASSUME NEW r \in Rows,
               OrderTakes(r) \/ OrderReturns(r) \/ JobDies(r) \/ JobIsRetried(r)
        PROVE  WalkInv'
    BY <2>4, OthersChange, ChangesKeeps
  <2> QED BY <2>1, <2>2, <2>3, <2>4 DEF WalkNext
<1> QED BY <1>1, WalkInitInv, PTL DEF WalkSpec

\* Types: a limit that was not refused is between 1 and MAX_LIMIT on every page.
THEOREM WalkTyped == WalkSpec => []WalkTypeOK
<1>1. WalkInv => WalkTypeOK
  BY DEF WalkInv
<1> QED BY <1>1, WalkCorrect, PTL

\* No row is shown twice unless some row entered the list or moved in it: the
\* second sort key of sorting.ts:47-51 and app.ts:200 is enough for that.
THEOREM NoRepeatsWithoutEntry == WalkSpec => []RepeatsOnlyAfterEntry
<1>1. WalkInv => RepeatsOnlyAfterEntry
  <2> SUFFICES ASSUME WalkInv, ~drift.entered, NEW r \in Rows PROVE seen[r] <= 1
    BY DEF RepeatsOnlyAfterEntry
  <2>1. CASE Walking
    BY <2>1 DEF WalkInv, ShownAreBehind
  <2>2. CASE ~Walking
    BY <2>2 DEF WalkInv
  <2> QED BY <2>1, <2>2
<1> QED BY <1>1, WalkCorrect, PTL

\* A walk that ends has shown all that was there all along, unless a row left
\* the list or entered it between the two reads of one request.
THEOREM NoMissWithoutExit == WalkSpec => []MissedOnlyAfterExit
<1>1. WalkInv => MissedOnlyAfterExit
  BY DEF WalkInv, Walking, NothingMissed, Undisturbed, Start, MissedOnlyAfterExit
<1> QED BY <1>1, WalkCorrect, PTL

\* hasMore leads to a page with a row on it, under the same two exceptions.
THEOREM PromisesAreKept == WalkSpec => []PromisedPageExists
<1>1. WalkInv => PromisedPageExists
  BY DEF WalkInv, Walking, MoreIsThere, Undisturbed, Start, PromisedPageExists
<1> QED BY <1>1, WalkCorrect, PTL

\* The second sort key (sorting.ts:47-51, app.ts:200) leaves a page nothing to
\* choose: whatever the table holds by then, and however many of its rows have
\* equal keys, one page can be read for a query that was not refused, and only one.
THEOREM PagesAreDetermined == WalkSpec => [](Walking => \E rank : Rankings = {rank})
<1>1. WalkInv => (Walking => \E rank : Rankings = {rank})
  <2> SUFFICES ASSUME WalkInv, Walking PROVE \E rank : Rankings = {rank}
    OBVIOUS
  <2>1. Rankings = {[r \in List |-> Position(r)]}
    BY OneRanking DEF WalkInv, WalkTypeOK
  <2> QED BY <2>1
<1> QED BY <1>1, WalkCorrect, PTL

=============================================================================
