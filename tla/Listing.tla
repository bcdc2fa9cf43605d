------------------------------ MODULE Listing ------------------------------
(***************************************************************************)
(* The list query of the two APIs: how the raw query string is read and    *)
(* what a page says of the pages after it.  utils/pagination.ts,           *)
(* utils/sorting.ts and validation/product.schema.ts of                    *)
(* task-1-consumable-api, and parsePagination of task-2's src/api/app.ts.  *)
(*                                                                         *)
(* A parameter of the query string is "absent", "empty" (?limit=), "many"  *)
(* (given twice), "text" (anything the parser does not know), or a value:  *)
(* what a name, a number or a field looks like is left out.                *)
(***************************************************************************)
EXTENDS Integers

\* A numeric parameter; value is read when kind is "integer".
Param == [kind : {"absent", "empty", "many", "text", "integer"}, value : Int]
Absent == [kind |-> "absent", value |-> 0]
Number(n) == [kind |-> "integer", value |-> n]

Unset == {"absent", "empty"}

-----------------------------------------------------------------------------
(* Pagination.                                                             *)

DEFAULT_LIMIT == 20
MAX_LIMIT == 100

\* Mutant: the clamp is forgotten.
UnclampedLimit(p) == IF p.kind \in Unset THEN DEFAULT_LIMIT ELSE p.value

LimitOf(p) ==
    IF p.kind \in Unset THEN DEFAULT_LIMIT
    ELSE IF p.value > MAX_LIMIT THEN MAX_LIMIT ELSE p.value
OffsetOf(p) == IF p.kind \in Unset THEN 0 ELSE p.value

\* What each of the two parsers answers with a 400.  They differ on ?limit=.
PaginationRefused(limit, offset) ==
    \/ {limit.kind, offset.kind} \cap {"many", "text"} # {}
    \/ limit.kind = "integer" /\ limit.value <= 0
    \/ offset.kind = "integer" /\ offset.value < 0

JobPaginationRefused(limit, offset) ==
    PaginationRefused(limit, offset) \/ "empty" \in {limit.kind, offset.kind}

\* Mutant: an off-by-one that promises a page after the last.
MetaWithOneMore(total, limit, offset) ==
    [total |-> total, limit |-> limit, offset |-> offset,
     hasMore |-> offset + limit <= total]

buildPaginationMeta(total, limit, offset) ==
    [total |-> total, limit |-> limit, offset |-> offset,
     hasMore |-> offset + limit < total]

\* The rows the database returns for skip and take, of a list of that total.
RowsOf(total, limit, offset) ==
    IF offset >= total THEN 0
    ELSE IF total - offset < limit THEN total - offset ELSE limit

-----------------------------------------------------------------------------
(* Sorting and filters.                                                    *)

ALLOWED_PRODUCT_SORT_FIELDS == {"price", "createdAt", "name", "stockQuantity"}
ALLOWED_CATEGORY_SORT == {"createdAt", "name"}
ALLOWED_CUSTOMER_SORT == {"createdAt", "name"}

SortRefused(allowedFields, sort, order) ==
    \/ sort \notin allowedFields \cup Unset
    \/ order \notin {"asc", "desc"} \cup Unset

\* A sort field without an order means ascending, neither means newest first.
parseSort(sort, order) ==
    [field |-> IF sort \in Unset THEN "createdAt" ELSE sort,
     order |-> CASE order \notin Unset -> order
                 [] order \in Unset /\ sort \in Unset -> "desc"
                 [] order \in Unset /\ sort \notin Unset -> "asc"]

\* A price that does not fit the INTEGER column counts as "text".
PriceRefused(p) ==
    \/ p.kind \in {"many", "text"}
    \/ p.kind = "integer" /\ p.value < 0

\* The category of the path wins over the one of the query string.
CategoryParam(path, category) == IF path # "absent" THEN path ELSE category

FiltersRefused(q) ==
    \/ CategoryParam(q.path, q.category) \in {"many", "text"}
    \/ PriceRefused(q.minPrice) \/ PriceRefused(q.maxPrice)
    \/ /\ q.minPrice.kind = "integer" /\ q.maxPrice.kind = "integer"
       /\ q.minPrice.value > q.maxPrice.value
    \/ q.inStock \notin {"true", "false"} \cup Unset

\* The WHERE of the query, on a product with this category, price and stock.
Matches(q, category, price, stock) ==
    /\ CategoryParam(q.path, q.category) \in Unset \cup {category}
    /\ q.minPrice.kind = "integer" => price >= q.minPrice.value
    /\ q.maxPrice.kind = "integer" => price <= q.maxPrice.value
    /\ q.inStock = "true" => stock > 0
    /\ q.inStock = "false" => stock = 0
=============================================================================
