----------------------------- MODULE MCListWalk -----------------------------
(***************************************************************************)
(* ListWalk for TLC: three rows, the first two of the same price and the   *)
(* last two of the same category, so that every sort but the one by id has *)
(* ties.  The limits walk the list in one, two or three pages.             *)
(***************************************************************************)
EXTENDS ListWalk, TLC

CONSTANTS shirts, shoes

MCCategoryOf == 1 :> shirts @@ 2 :> shoes @@ 3 :> shoes
MCPriceOf == 1 :> 10 @@ 2 :> 10 @@ 3 :> 20

Plain == [limit |-> Number(1), offset |-> Absent, sort |-> "absent", order |-> "absent",
          path |-> "absent", category |-> "absent", minPrice |-> Absent,
          maxPrice |-> Absent, inStock |-> "absent"]

Answered ==
    {Plain,
     [Plain EXCEPT !.limit = Absent],
     [Plain EXCEPT !.limit = Number(2), !.offset = Number(1), !.inStock = "true"],
     [Plain EXCEPT !.limit = Number(1000), !.sort = "stockQuantity"],
     [Plain EXCEPT !.inStock = "true", !.sort = "price"],
     [Plain EXCEPT !.inStock = "false", !.limit = Number(2)],
     [Plain EXCEPT !.sort = "stockQuantity", !.order = "desc"],
     [Plain EXCEPT !.path = shoes, !.category = shirts, !.inStock = "true", !.order = "asc"],
     [Plain EXCEPT !.minPrice = Number(10), !.maxPrice = Number(10), !.sort = "price"]}

Refused ==
    {[Plain EXCEPT !.limit = Number(0)],
     [Plain EXCEPT !.offset = Number(-1)],
     [Plain EXCEPT !.limit.kind = "empty"],
     [Plain EXCEPT !.limit.kind = "many"],
     [Plain EXCEPT !.sort = "text"],
     [Plain EXCEPT !.path = "hats"],
     [Plain EXCEPT !.minPrice = Number(20), !.maxPrice = Number(10)]}

MCQueries == Answered \cup Refused
=============================================================================
