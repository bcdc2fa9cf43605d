------------------------------ MODULE ListWalk ------------------------------
(***************************************************************************)
(* A client that walks through a paged list by following hasMore, as       *)
(* handleNextPage of the storefront does, while the table changes:         *)
(*                                                                         *)
(*   listProducts of task-1's services/product.service.ts, whose products  *)
(*   change stock with every order (OrderService.tla) and may be filtered  *)
(*   and sorted by it, and the lists of categories and of customers, the   *)
(*   same query without a filter over rows no route writes;                *)
(*                                                                         *)
(*   GET /api/dead-letter of task-2's api/app.ts, whose jobs die and are   *)
(*   retried (JobTable.tla), latest first.                                 *)
(*                                                                         *)
(* Both read a total and a page in two statements, each with a snapshot of *)
(* its own: the transactions of task 1 are READ COMMITTED and run them in  *)
(* order, those of the dead letters run in parallel.                       *)
(***************************************************************************)
EXTENDS Listing, FiniteSets

CONSTANTS
    Rows,         \* of the table; a number stands for a row's id
    CategoryOf,   \* of a product
    PriceOf,
    MaxStock,     \* bound of the stock of a product
    Queries,      \* the raw query strings clients send
    MaxChanges    \* bound: changes of the table during a walk

ASSUME WalkAssumption ==
    /\ Rows \subseteq Nat /\ IsFiniteSet(Rows)
    /\ PriceOf \in [Rows -> Nat] /\ DOMAIN CategoryOf = Rows
    /\ MaxStock \in Nat /\ MaxChanges \in Nat
ASSUME QueriesAssumption ==
    \A q \in Queries : {q.limit, q.offset, q.minPrice, q.maxPrice} \subseteq Param

VARIABLES
    table,     \* the table of the list
    amount,    \* amount[r]: stockQuantity; updatedAt of a dead job, 0 if not dead
    query,     \* the query of the walk
    reads,     \* of the request that runs: which of its two reads are done
    total,     \* what its count returned
    page,      \* the rows its findMany returned
    offset,    \* the offset it asked for
    seen,      \* seen[r]: how often the walk was shown row r, up to twice
    pc,        \* "idle", "reading", "done", "refused"
    changes,
    drift      \* ghost: what has happened to the list since the walk began

Tables == {"Product", "Category", "Customer", "job"}

walkVars == <<table, amount, query, reads, total, page, offset, seen, pc, changes, drift>>

NoQuery == [limit |-> Absent]
Limit == LimitOf(query.limit)

-----------------------------------------------------------------------------
(* The list, as the database orders it.                                    *)

Listed(r, n) ==
    CASE table = "job" -> n > 0
      [] table = "Product" -> Matches(query, CategoryOf[r], PriceOf[r], n)
      [] table \in {"Category", "Customer"} -> TRUE
List == {r \in Rows : Listed(r, amount[r])}

\* orderBy of the two queries; what createdAt, name and id say is the row.
SortKey(r, n) ==
    LET sort == parseSort(query.sort, query.order)
    IN  CASE table = "job" -> -n
          [] table = "Product" /\ sort.field = "stockQuantity" ->
               IF sort.order = "asc" THEN n ELSE -n
          [] table = "Product" /\ sort.field = "price" ->
               IF sort.order = "asc" THEN PriceOf[r] ELSE -PriceOf[r]
          [] table # "job" /\ sort.field \in {"createdAt", "name"} ->
               IF sort.order = "asc" THEN r ELSE -r

\* Mutant: rows with the same key come in any order, there is no second key.
PrecedesByKey(r, s) == SortKey(r, amount[r]) < SortKey(s, amount[s])

\* The id breaks the tie: descending for jobs, ascending for the others.
Precedes(r, s) ==
    \/ SortKey(r, amount[r]) < SortKey(s, amount[s])
    \/ /\ SortKey(r, amount[r]) = SortKey(s, amount[s])
       /\ IF table = "job" THEN r > s ELSE r < s

\* The positions ORDER BY allows the rows to have.
Rankings ==
    {rank \in [List -> 0 .. Cardinality(List) - 1] :
        \A r, s \in List : /\ r # s => rank[r] # rank[s]
                           /\ Precedes(r, s) => rank[r] < rank[s]}

-----------------------------------------------------------------------------
(* The walk.                                                               *)

Asks(o) ==
    /\ pc' = "reading" /\ reads' = {}
    /\ total' = 0 /\ page' = {} /\ offset' = o

\* The list of a category answers 404 when the category does not exist.
CategoryUnknown(q) == q.path # "absent" /\ q.path \notin {CategoryOf[r] : r \in Rows}

ProductsRefused(q) ==
    \/ CategoryUnknown(q) \/ PaginationRefused(q.limit, q.offset)
    \/ SortRefused(ALLOWED_PRODUCT_SORT_FIELDS, q.sort, q.order) \/ FiltersRefused(q)
CategoriesRefused(q) ==
    PaginationRefused(q.limit, q.offset) \/ SortRefused(ALLOWED_CATEGORY_SORT, q.sort, q.order)
CustomersRefused(q) ==
    PaginationRefused(q.limit, q.offset) \/ SortRefused(ALLOWED_CUSTOMER_SORT, q.sort, q.order)

\* The first request of a walk, whose parameters are parsed before any read.
BeginWalk(q) ==
    /\ pc = "idle"
    /\ query' = q
    /\ IF CASE table = "Product" -> ProductsRefused(q)
            [] table = "Category" -> CategoriesRefused(q)
            [] table = "Customer" -> CustomersRefused(q)
            [] table = "job" -> JobPaginationRefused(q.limit, q.offset)
       THEN pc' = "refused" /\ UNCHANGED <<reads, total, page, offset>>
       ELSE Asks(OffsetOf(q.offset))
    /\ UNCHANGED <<table, amount, seen, changes>>
    /\ drift' = [left |-> FALSE, entered |-> FALSE, between |-> FALSE, kept |-> List']

ReadTotal ==
    /\ pc = "reading" /\ "total" \notin reads
    /\ total' = Cardinality(List)
    /\ reads' = reads \cup {"total"}
    /\ UNCHANGED <<table, amount, query, page, offset, seen, pc, changes, drift>>

\* Mutant: one row more is taken, to see whether there are more, and returned.
ReadsOneMore ==
    /\ pc = "reading" /\ "page" \notin reads
    /\ table # "job" => "total" \in reads
    /\ \E rank \in Rankings :
         page' = {r \in List : rank[r] \in offset .. offset + Limit}
    /\ seen' = [r \in Rows |-> IF r \in page' /\ seen[r] < 2 THEN seen[r] + 1 ELSE seen[r]]
    /\ reads' = reads \cup {"page"}
    /\ UNCHANGED <<table, amount, query, total, offset, pc, changes, drift>>

ReadPage ==
    /\ pc = "reading" /\ "page" \notin reads
    /\ table # "job" => "total" \in reads
    /\ \E rank \in Rankings :
         page' = {r \in List : rank[r] \in offset .. offset + Limit - 1}
    /\ seen' = [r \in Rows |-> IF r \in page' /\ seen[r] < 2 THEN seen[r] + 1 ELSE seen[r]]
    /\ reads' = reads \cup {"page"}
    /\ UNCHANGED <<table, amount, query, total, offset, pc, changes, drift>>

\* The dead letters' hasMore counts the rows of the page.
HasMore ==
    IF table = "job" THEN offset + Cardinality(page) < total
    ELSE buildPaginationMeta(total, Limit, offset).hasMore

\* The answer, and the client's request for the page after it.
NextRequest ==
    /\ pc = "reading" /\ reads = {"total", "page"}
    /\ IF HasMore THEN Asks(offset + Limit)
       ELSE pc' = "done" /\ UNCHANGED <<reads, total, page, offset>>
    /\ UNCHANGED <<table, amount, query, seen, changes, drift>>

-----------------------------------------------------------------------------
(* What others do to the table meanwhile.                                  *)

\* Row r now has amount n: it enters the list, leaves it, or, when the list is
\* sorted by it, moves, which is both.
Changes(r, n) ==
    /\ pc = "reading" /\ changes < MaxChanges
    /\ changes' = changes + 1
    /\ amount' = [amount EXCEPT ![r] = n]
    /\ LET was == Listed(r, amount[r])
           is  == Listed(r, n)
           moves == was /\ is /\ SortKey(r, amount[r]) # SortKey(r, n)
           enters == (is /\ ~was) \/ moves
           leaves == (was /\ ~is) \/ moves
       IN  drift' = [left |-> drift.left \/ leaves,
                     entered |-> drift.entered \/ enters,
                     between |-> drift.between \/ (enters /\ Cardinality(reads) = 1),
                     kept |-> IF leaves THEN drift.kept \ {r} ELSE drift.kept]
    /\ UNCHANGED <<table, query, reads, total, page, offset, seen, pc>>

\* An order takes stock, or its cancellation gives it back.
OrderTakes(r) == table = "Product" /\ amount[r] > 0 /\ Changes(r, amount[r] - 1)
OrderReturns(r) == table = "Product" /\ amount[r] < MaxStock /\ Changes(r, amount[r] + 1)

\* A job dies, or a late report charges a dead one again (markJobFailed) and
\* stamps it anew.  updatedAt is the clock of whoever writes it, a worker's host
\* or, in a sweep, the database: later than all others, as late as another, or
\* earlier.  A sweep that kills several jobs stamps them alike, one by one here.
JobDies(r) ==
    /\ table = "job"
    /\ \E latest \in {amount[s] : s \in Rows} :
         /\ \A s \in Rows : amount[s] <= latest
         /\ \E n \in 1 .. latest + 1 : n # amount[r] /\ Changes(r, n)

\* An operator retries a dead job.
JobIsRetried(r) == table = "job" /\ amount[r] > 0 /\ Changes(r, 0)

-----------------------------------------------------------------------------
\* Any stock of the products, any of the jobs dead in the order of their ids.
WalkInit ==
    /\ table \in Tables
    /\ amount \in
         CASE table = "Product" -> [Rows -> 0 .. MaxStock]
           [] table = "job" ->
                {[r \in Rows |-> IF r \in dead THEN r ELSE 0] : dead \in SUBSET Rows}
           [] table \in {"Category", "Customer"} -> {[r \in Rows |-> 0]}
    /\ query = NoQuery /\ reads = {} /\ total = 0 /\ page = {} /\ offset = 0
    /\ seen = [r \in Rows |-> 0] /\ pc = "idle" /\ changes = 0
    /\ drift = [left |-> FALSE, entered |-> FALSE, between |-> FALSE, kept |-> {}]

WalkNext ==
    \/ \E q \in Queries : BeginWalk(q)
    \/ ReadTotal \/ ReadPage \/ NextRequest
    \/ \E r \in Rows : OrderTakes(r) \/ OrderReturns(r)
    \/ \E r \in Rows : JobDies(r) \/ JobIsRetried(r)

WalkSpec == WalkInit /\ [][WalkNext]_walkVars

-----------------------------------------------------------------------------
WalkTypeOK ==
    /\ table \in Tables /\ amount \in [Rows -> Nat]
    /\ query \in Queries \cup {NoQuery}
    /\ pc \in {"idle", "reading", "done", "refused"}
    /\ pc \in {"reading", "done"} => Limit \in 1 .. MAX_LIMIT
    /\ reads \subseteq {"total", "page"} /\ total \in 0 .. Cardinality(Rows)
    /\ page \subseteq Rows /\ offset \in Nat /\ seen \in [Rows -> 0 .. 2]
    /\ changes \in 0 .. MaxChanges
    /\ drift \in [left : BOOLEAN, entered : BOOLEAN, between : BOOLEAN, kept : SUBSET Rows]

\* A walk repeats a row only if some row entered the list, or moved in it, after
\* the walk began: the second sort key makes the order of the pages one order
\* (sorting.ts:47-51, app.ts:200), and rows that leave only draw others forward.
\* A row that moves can be shown twice, which README.md:126 denies.
RepeatsOnlyAfterEntry ==
    ~drift.entered => \A r \in Rows : seen[r] <= 1

\* A walk that ends has shown every row that was in the list all along, unless
\* some row left the list, or entered it between the two reads of one request:
\* a total older than the page hides its last row.  A walk may begin anywhere;
\* only those from the start of the list are spoken of.
MissedOnlyAfterExit ==
    pc = "done" /\ OffsetOf(query.offset) = 0 /\ ~drift.left /\ ~drift.between
        => \A r \in drift.kept : seen[r] > 0

\* hasMore promises a page that is not empty, under the same two exceptions: a
\* total newer than the page of dead letters counts a row the page has not, so
\* that a short last page promises another (app.ts:212).
PromisedPageExists ==
    "page" \in reads /\ offset > OffsetOf(query.offset) /\ page = {}
        => drift.left \/ drift.between
=============================================================================
