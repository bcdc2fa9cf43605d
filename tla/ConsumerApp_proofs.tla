------------------------ MODULE ConsumerApp_proofs ------------------------
(***************************************************************************)
(* What the storefront of ConsumerApp.tla never shows, for any categories, *)
(* sorts, totals and number of requests in flight.  The argument: whatever *)
(* starts a load aborts the request before it, so one request is alive; it *)
(* asks for the selection of the last change; and only its end can leave   *)
(* the page without a request that is waited for.                          *)
(***************************************************************************)
EXTENDS ConsumerApp, TLAPS

\* The live request asks for what the toolbar shows.
NewestAsksForSelection ==
    \A s \in Slots : inFlight[s] # Idle /\ inFlight[s].newest
                        => inFlight[s].query = sel \/ detour

ConsumerInv ==
    /\ ConsumerTypeOK
    /\ OneLiveRequest
    /\ NewestAsksForSelection
    /\ ShownFollowsSelection
    /\ BusyMeansWaiting

Requests == [Slots -> Request \cup {Idle}]
Screens == [loading : BOOLEAN, cold : BOOLEAN, error : BOOLEAN]
Timers == [armed : BOOLEAN, ticking : BOOLEAN]

LEMMA FirstQueryTyped == FirstQuery \in Queries
  BY ConsumerAssumption DEF FirstQuery, Queries

\* The changes of the selection the handlers make.
LEMMA SelectionsTyped ==
    ASSUME NEW q \in Queries, NEW c \in Categories \cup {All}, NEW sort \in Sorts,
           NEW n \in 0 .. MaxOffset, NEW b \in BOOLEAN
    PROVE  /\ [q EXCEPT !.category = c, !.offset = n] \in Queries
           /\ [q EXCEPT !.inStock = b, !.offset = n] \in Queries
           /\ [q EXCEPT !.sort = sort, !.offset = n] \in Queries
           /\ [q EXCEPT !.category = c, !.inStock = b, !.offset = n] \in Queries
           /\ [q EXCEPT !.offset = n] \in Queries
  <1>1. [q EXCEPT !.category = c, !.offset = n] \in Queries  BY DEF Queries
  <1>2. [q EXCEPT !.inStock = b, !.offset = n] \in Queries  BY DEF Queries
  <1>3. [q EXCEPT !.sort = sort, !.offset = n] \in Queries  BY DEF Queries
  <1>4. [q EXCEPT !.category = c, !.inStock = b] \in Queries  BY DEF Queries
  <1>5. [[q EXCEPT !.category = c, !.inStock = b] EXCEPT !.offset = n] \in Queries
    BY <1>4 DEF Queries
  <1>6. [q EXCEPT !.offset = n] \in Queries  BY DEF Queries
  <1> QED  BY <1>1, <1>2, <1>3, <1>5, <1>6

\* A request that has just been made.
Fresh(q) == [query |-> q, phase |-> "headers", newest |-> TRUE, aborted |-> FALSE]

LEMMA FreshTyped == ASSUME NEW q \in Queries PROVE Fresh(q) \in Request /\ Fresh(q) # Idle
  <1>1. Fresh(q) \in Request  BY DEF Fresh, Request
  <1> QED  BY <1>1, ConsumerAssumption

\* What Abort leaves behind is in flight, aborted, and no longer the newest.
LEMMA AbortTyped ==
    ASSUME NEW r \in Request \cup {Idle},
           r # Idle => r.aborted # r.newest
    PROVE  /\ Abort(r) \in Request \cup {Idle}
           /\ Abort(r) # Idle => Abort(r).aborted /\ ~Abort(r).newest
  <1>1. CASE r # Idle /\ r.newest
    <2>1. Abort(r) = [r EXCEPT !.aborted = TRUE, !.newest = FALSE, !.query = FirstQuery]
      BY <1>1 DEF Abort
    <2>2. r \in Request  BY <1>1
    <2>3. Abort(r) \in Request  BY <2>1, <2>2, FirstQueryTyped DEF Request
    <2> QED  BY <2>1, <2>2, <2>3 DEF Request
  <1>2. CASE r = Idle  BY <1>2 DEF Abort
  <1>3. CASE r # Idle /\ ~r.newest
    <2>1. r \in Request /\ Abort(r) = r  BY <1>3 DEF Abort
    <2> QED  BY <2>1, <1>3 DEF Request
  <1> QED  BY <1>1, <1>2, <1>3

-----------------------------------------------------------------------------
(***************************************************************************)
(* The two things that happen to requests: one more is made, one ends.     *)
(***************************************************************************)

LEMMA LoadStep ==
    ASSUME ConsumerTypeOK, OneLiveRequest, NEW q \in Queries, LoadProducts(q)
    PROVE  /\ inFlight' \in Requests /\ screen' \in Screens /\ timers' \in Timers
           /\ OneLiveRequest' /\ NewestInFlight'
           /\ \A s \in Slots : inFlight'[s] # Idle /\ inFlight'[s].newest
                                 => inFlight'[s].query = q
           /\ screen'.error = FALSE
  <1>1. PICK n \in Slots :
            /\ inFlight[n] = Idle
            /\ inFlight' = [t \in Slots |-> IF t = n THEN Fresh(q) ELSE Abort(inFlight[t])]
    BY DEF LoadProducts, Fresh
  <1>2. Fresh(q) \in Request /\ Fresh(q) # Idle  BY FreshTyped
  <1>3. ASSUME NEW t \in Slots
        PROVE  /\ Abort(inFlight[t]) \in Request \cup {Idle}
               /\ Abort(inFlight[t]) # Idle =>
                    Abort(inFlight[t]).aborted /\ ~Abort(inFlight[t]).newest
    <2>1. inFlight[t] \in Request \cup {Idle}  BY DEF ConsumerTypeOK
    <2>2. inFlight[t] # Idle => inFlight[t].aborted # inFlight[t].newest
      BY DEF OneLiveRequest
    <2> QED  BY <2>1, <2>2, AbortTyped
  <1>4. inFlight' \in Requests  BY <1>1, <1>2, <1>3 DEF Requests
  <1>5. inFlight'[n] = Fresh(q)  BY <1>1
  <1>6. \A t \in Slots \ {n} : inFlight'[t] # Idle => inFlight'[t].aborted /\ ~inFlight'[t].newest
    BY <1>1, <1>3
  <1>7. Fresh(q).newest = TRUE /\ Fresh(q).aborted = FALSE /\ Fresh(q).query = q
    BY DEF Fresh
  <1>8. OneLiveRequest'
    <2>1. \A s \in Slots : inFlight'[s] # Idle => inFlight'[s].aborted # inFlight'[s].newest
      <3> SUFFICES ASSUME NEW s \in Slots, inFlight'[s] # Idle
                   PROVE  inFlight'[s].aborted # inFlight'[s].newest
        OBVIOUS
      <3>1. CASE s = n  BY <3>1, <1>5, <1>7
      <3>2. CASE s # n
        <4>1. inFlight'[s] \in Request  BY <1>4 DEF Requests
        <4>2. inFlight'[s].aborted \in BOOLEAN /\ inFlight'[s].newest \in BOOLEAN
          BY <4>1 DEF Request
        <4> QED  BY <3>2, <1>6, <4>2
      <3> QED  BY <3>1, <3>2
    <2>2. \A s \in Slots : Live(s)' => s = n  BY <1>6 DEF Live
    <2> QED  BY <2>1, <2>2 DEF OneLiveRequest
  <1>9. NewestInFlight'  BY <1>2, <1>5, <1>7 DEF NewestInFlight
  <1> QED  BY <1>4, <1>5, <1>6, <1>7, <1>8, <1>9 DEF LoadProducts, Screens, Timers

LEMMA EndStep ==
    ASSUME ConsumerTypeOK, OneLiveRequest, NEW s \in Slots,
           inFlight' = [inFlight EXCEPT ![s] = Idle],
           NEW error \in BOOLEAN, Finally(error)
    PROVE  /\ inFlight' \in Requests /\ screen' \in Screens /\ timers' \in Timers
           /\ OneLiveRequest' /\ BusyMeansWaiting'
           /\ \A t \in Slots : t # s => inFlight'[t] = inFlight[t]
           /\ inFlight'[s] = Idle /\ screen'.error = error
  <1>1. inFlight \in Requests  BY DEF ConsumerTypeOK, Requests
  <1>2. /\ \A t \in Slots : t # s => inFlight'[t] = inFlight[t]
        /\ inFlight'[s] = Idle
        /\ inFlight' \in Requests
    BY <1>1 DEF Requests
  <1>3. OneLiveRequest'  BY <1>2 DEF OneLiveRequest, Live
  <1>4. /\ screen' = [loading |-> FALSE, cold |-> FALSE, error |-> error]
        /\ timers' = [armed |-> FALSE, ticking |-> FALSE]
    BY DEF Finally
  <1>5. BusyMeansWaiting'  BY <1>4 DEF BusyMeansWaiting
  <1> QED  BY <1>2, <1>3, <1>4, <1>5 DEF Screens, Timers

-----------------------------------------------------------------------------
(***************************************************************************)
(* The invariant.                                                          *)
(***************************************************************************)

LEMMA ConsumerInitInv == ConsumerInit => ConsumerInv
  <1> SUFFICES ASSUME ConsumerInit PROVE ConsumerInv  OBVIOUS
  <1>1. FirstQuery \in Queries  BY FirstQueryTyped
  <1>2. PICK n \in Slots : inFlight = [t \in Slots |-> IF t = n THEN Fresh(FirstQuery) ELSE Idle]
    BY DEF ConsumerInit, Fresh
  <1>3. Fresh(FirstQuery) \in Request /\ Fresh(FirstQuery) # Idle  BY <1>1, FreshTyped
  <1>4. /\ Fresh(FirstQuery).newest = TRUE /\ Fresh(FirstQuery).aborted = FALSE
        /\ Fresh(FirstQuery).query = FirstQuery
    BY DEF Fresh
  <1>5. inFlight[n] = Fresh(FirstQuery) /\ \A t \in Slots \ {n} : inFlight[t] = Idle
    BY <1>2
  <1>6. ConsumerTypeOK
    <2>1. inFlight \in [Slots -> Request \cup {Idle}]  BY <1>2, <1>3
    <2>2. link \in [offline : BOOLEAN, checking : BOOLEAN]  BY DEF ConsumerInit
    <2> QED  BY <1>1, <2>1, <2>2 DEF ConsumerInit, ConsumerTypeOK
  <1>7. OneLiveRequest  BY <1>3, <1>4, <1>5 DEF OneLiveRequest, Live
  <1>8. NewestInFlight  BY <1>3, <1>4, <1>5 DEF NewestInFlight
  <1>9. NewestAsksForSelection  BY <1>4, <1>5 DEF NewestAsksForSelection, ConsumerInit
  <1> QED  BY <1>6, <1>7, <1>8, <1>9
           DEF ConsumerInv, ShownFollowsSelection, BusyMeansWaiting

\* A load of q, the selection becoming new: every handler but the network's.
LEMMA LoadKeepsInv ==
    ASSUME ConsumerInv, NEW q \in Queries, LoadProducts(q),
           sel' \in Queries, page' = page, q = sel' \/ detour' = TRUE,
           detour' \in BOOLEAN,
           categories' \in {"none", "fetching", "loaded"},
           link' \in [offline : BOOLEAN, checking : BOOLEAN],
           checks' \subseteq Queries
    PROVE  ConsumerInv'
  <1>1. /\ inFlight' \in Requests /\ screen' \in Screens /\ timers' \in Timers
        /\ OneLiveRequest' /\ NewestInFlight'
        /\ \A s \in Slots : inFlight'[s] # Idle /\ inFlight'[s].newest
                              => inFlight'[s].query = q
    BY LoadStep DEF ConsumerInv
  <1>2. ConsumerTypeOK'
    BY <1>1 DEF ConsumerInv, ConsumerTypeOK, Requests, Screens, Timers
  <1>3. NewestAsksForSelection'  BY <1>1 DEF NewestAsksForSelection
  <1>4. ShownFollowsSelection' /\ BusyMeansWaiting'
    BY <1>1 DEF ShownFollowsSelection, BusyMeansWaiting
  <1> QED  BY <1>1, <1>2, <1>3, <1>4 DEF ConsumerInv

\* A step that leaves requests, selection and page alone.
LEMMA QuietKeepsInv ==
    ASSUME ConsumerInv,
           UNCHANGED <<sel, page, inFlight, detour>>,
           screen' \in Screens, screen'.error = screen.error, timers' \in Timers,
           BusyMeansWaiting',
           categories' \in {"none", "fetching", "loaded"},
           link' \in [offline : BOOLEAN, checking : BOOLEAN],
           checks' \subseteq Queries
    PROVE  ConsumerInv'
  <1>1. ConsumerTypeOK'
    BY DEF ConsumerInv, ConsumerTypeOK, Screens, Timers
  <1>2. OneLiveRequest'  BY DEF ConsumerInv, OneLiveRequest, Live
  <1>3. NewestAsksForSelection'  BY DEF ConsumerInv, NewestAsksForSelection
  <1>4. ShownFollowsSelection'
    BY DEF ConsumerInv, ShownFollowsSelection, NewestInFlight
  <1> QED  BY <1>1, <1>2, <1>3, <1>4 DEF ConsumerInv

LEMMA SelectKeepsInv ==
    ASSUME ConsumerInv, NEW s \in Queries, Select(s)
    PROVE  ConsumerInv'
  <1>1. CASE s = sel
    <2>1. UNCHANGED <<sel, page, screen, timers, inFlight, categories, link, checks, detour>>
      BY <1>1 DEF Select
    <2>2. BusyMeansWaiting'
      BY <2>1 DEF ConsumerInv, BusyMeansWaiting, NewestInFlight
    <2> QED  BY <2>1, <2>2, QuietKeepsInv DEF ConsumerInv, ConsumerTypeOK, Screens, Timers
  <1>2. CASE s # sel
    <2>1. LoadProducts(s) /\ sel' = s /\ detour' = FALSE
          /\ UNCHANGED <<page, categories, link, checks>>
      BY <1>2 DEF Select
    <2> QED  BY <2>1, LoadKeepsInv DEF ConsumerInv, ConsumerTypeOK
  <1> QED  BY <1>1, <1>2

LEMMA LoadCategoriesTyped ==
    ASSUME ConsumerTypeOK, LoadCategories
    PROVE  categories' \in {"none", "fetching", "loaded"}
  BY DEF ConsumerTypeOK, LoadCategories

LEMMA UserEventInv == ASSUME ConsumerInv, UserEvent PROVE ConsumerInv'
  <1> USE DEF ConsumerInv, ConsumerTypeOK
  <1>0. sel \in Queries /\ 0 \in 0 .. MaxOffset /\ All \in Categories \cup {All}
        /\ sel.inStock \in BOOLEAN /\ Newest \in Sorts
    BY ConsumerAssumption DEF Queries
  <1>1. ASSUME NEW c \in Categories \cup {All}, HandleCategoryChange(c) PROVE ConsumerInv'
    <2>1. [sel EXCEPT !.category = c, !.offset = 0] \in Queries
      BY <1>0, SelectionsTyped
    <2> QED  BY <1>1, <2>1, SelectKeepsInv DEF HandleCategoryChange
  <1>2. CASE HandleToggleInStock
    <2>1. [sel EXCEPT !.inStock = ~@, !.offset = 0] \in Queries
      BY <1>0, SelectionsTyped
    <2> QED  BY <1>2, <2>1, SelectKeepsInv DEF HandleToggleInStock
  <1>3. ASSUME NEW sort \in Sorts, HandleSortChange(sort) PROVE ConsumerInv'
    <2>1. [sel EXCEPT !.sort = sort, !.offset = 0] \in Queries
      BY <1>0, SelectionsTyped
    <2> QED  BY <1>3, <2>1, SelectKeepsInv DEF HandleSortChange
  <1>4. CASE HandleClearFilters
    <2>1. [sel EXCEPT !.category = All, !.inStock = FALSE, !.offset = 0] \in Queries
      BY <1>0, SelectionsTyped
    <2> QED  BY <1>4, <2>1, SelectKeepsInv DEF HandleClearFilters
  <1>11. CASE RemoveCategoryTag
    <2>1. [sel EXCEPT !.category = All, !.offset = 0] \in Queries
      BY <1>0, SelectionsTyped
    <2> QED  BY <1>11, <2>1, SelectKeepsInv DEF RemoveCategoryTag
  <1>12. CASE RemoveInStockTag
    <2>1. [sel EXCEPT !.inStock = FALSE, !.offset = 0] \in Queries
      BY <1>0, SelectionsTyped
    <2> QED  BY <1>12, <2>1, SelectKeepsInv DEF RemoveInStockTag
  <1>5. CASE HandlePrevPage
    <2>1. [sel EXCEPT !.offset = IF @ > PAGE_LIMIT THEN @ - PAGE_LIMIT ELSE 0] \in Queries
      BY ConsumerAssumption DEF Queries
    <2> QED  BY <1>5, <2>1, SelectKeepsInv DEF HandlePrevPage
  <1>6. CASE HandleNextPage
    <2>1. [sel EXCEPT !.offset = @ + PAGE_LIMIT] \in Queries
      BY <1>6, ConsumerAssumption DEF Queries, HandleNextPage
    <2> QED  BY <1>6, <2>1, SelectKeepsInv DEF HandleNextPage
  <1>7. CASE HandleBackToBeginning
    <2>1. [sel EXCEPT !.offset = 0] \in Queries
      BY <1>0, SelectionsTyped
    <2> QED  BY <1>7, <2>1, SelectKeepsInv DEF HandleBackToBeginning
  <1>8. CASE RefreshCatalog
    BY <1>8, LoadKeepsInv DEF RefreshCatalog
  <1>9. CASE HandleFullRetry
    BY <1>9, LoadKeepsInv, LoadCategoriesTyped DEF HandleFullRetry
  <1>10. CASE HandleCheckHealth
    <2>1. BusyMeansWaiting'
      BY <1>10 DEF HandleCheckHealth, BusyMeansWaiting, NewestInFlight
    <2> QED  BY <1>10, <2>1, QuietKeepsInv DEF HandleCheckHealth, Screens, Timers
  <1> QED  BY <1>1, <1>2, <1>3, <1>4, <1>5, <1>6, <1>7, <1>8, <1>9, <1>10,
              <1>11, <1>12 DEF UserEvent

\* The newest request ends: the page follows the selection or an error is set.
LEMMA ProductsArriveInv ==
    ASSUME ConsumerInv, NEW s \in Slots, ProductsArrive(s) PROVE ConsumerInv'
  <1> DEFINE q == inFlight[s].query
  <1>1. /\ inFlight[s] # Idle /\ ~inFlight[s].aborted
        /\ inFlight' = [inFlight EXCEPT ![s] = Idle]
        /\ page' = [query |-> q, total |-> Total[<<q.category, q.inStock>>]]
        /\ Finally(FALSE) /\ LoadCategories
        /\ UNCHANGED <<sel, link, checks, detour>>
    BY DEF ProductsArrive, Live
  <1>2. inFlight[s] \in Request  BY <1>1 DEF ConsumerInv, ConsumerTypeOK
  <1>3. inFlight[s].newest
    BY <1>1, <1>2 DEF ConsumerInv, OneLiveRequest, Request
  <1>4. q = sel \/ detour  BY <1>1, <1>3 DEF ConsumerInv, NewestAsksForSelection
  <1>5. /\ inFlight' \in Requests /\ screen' \in Screens /\ timers' \in Timers
        /\ OneLiveRequest' /\ BusyMeansWaiting'
        /\ \A t \in Slots : t # s => inFlight'[t] = inFlight[t]
        /\ inFlight'[s] = Idle
    BY <1>1, EndStep DEF ConsumerInv
  <1>6. page' \in [query : Queries, total : Nat]
    <2>1. q \in Queries  BY <1>2 DEF Request
    <2>2. <<q.category, q.inStock>> \in Filters  BY <2>1 DEF Queries, Filters
    <2> QED  BY <1>1, <2>1, <2>2, ConsumerAssumption
  <1>7. ConsumerTypeOK'
    BY <1>1, <1>5, <1>6, LoadCategoriesTyped
       DEF ConsumerInv, ConsumerTypeOK, Requests, Screens, Timers
  <1>8. NewestAsksForSelection'
    BY <1>1, <1>5 DEF ConsumerInv, NewestAsksForSelection
  <1>9. ShownFollowsSelection'  BY <1>1, <1>4 DEF ShownFollowsSelection
  <1> QED  BY <1>5, <1>7, <1>8, <1>9 DEF ConsumerInv

LEMMA RequestRejectsInv ==
    ASSUME ConsumerInv, NEW s \in Slots, RequestRejects(s) PROVE ConsumerInv'
  <1> DEFINE error == screen.error \/ ~RejectsWithAbortError(inFlight[s])
  <1>1. /\ inFlight[s] # Idle
        /\ inFlight' = [inFlight EXCEPT ![s] = Idle]
        /\ Finally(error)
        /\ UNCHANGED <<sel, page, categories, link, checks, detour>>
    BY DEF RequestRejects
  <1>2. inFlight[s] \in Request  BY <1>1 DEF ConsumerInv, ConsumerTypeOK
  <1>3. error \in BOOLEAN  OBVIOUS
  <1>4. /\ inFlight' \in Requests /\ screen' \in Screens /\ timers' \in Timers
        /\ OneLiveRequest' /\ BusyMeansWaiting'
        /\ \A t \in Slots : t # s => inFlight'[t] = inFlight[t]
        /\ inFlight'[s] = Idle /\ screen'.error = error
    BY <1>1, <1>3, EndStep DEF ConsumerInv
  <1>5. ConsumerTypeOK'
    BY <1>1, <1>4 DEF ConsumerInv, ConsumerTypeOK, Requests, Screens, Timers
  <1>6. NewestAsksForSelection'
    BY <1>1, <1>4 DEF ConsumerInv, NewestAsksForSelection
  <1>7. ShownFollowsSelection'
    <2> SUFFICES ASSUME ~NewestInFlight', ~screen'.error, ~detour'
                 PROVE  page' = page /\ page.query = sel /\ sel' = sel
      BY DEF ShownFollowsSelection
    <2>1. inFlight[s].aborted /\ ~screen.error
      BY <1>4 DEF RejectsWithAbortError
    <2>2. ~inFlight[s].newest
      BY <1>1, <1>2, <2>1 DEF ConsumerInv, OneLiveRequest, Request
    <2>3. ~NewestInFlight  BY <1>4, <2>2 DEF NewestInFlight
    <2> QED  BY <1>1, <2>1, <2>3 DEF ConsumerInv, ShownFollowsSelection
  <1> QED  BY <1>4, <1>5, <1>6, <1>7 DEF ConsumerInv

LEMMA HeadersArriveInv ==
    ASSUME ConsumerInv, NEW s \in Slots, HeadersArrive(s) PROVE ConsumerInv'
  <1>1. PICK p \in {"body", "errorBody"} : inFlight' = [inFlight EXCEPT ![s].phase = p]
    BY DEF HeadersArrive
  <1>2. inFlight[s] # Idle /\ UNCHANGED <<sel, page, screen, timers, categories, link, checks, detour>>
    BY DEF HeadersArrive, Live
  <1>3. inFlight \in Requests /\ inFlight[s] \in Request
    BY <1>2 DEF ConsumerInv, ConsumerTypeOK, Requests
  <1>4. /\ inFlight'[s] = [inFlight[s] EXCEPT !.phase = p]
        /\ \A t \in Slots : t # s => inFlight'[t] = inFlight[t]
    BY <1>1, <1>3 DEF Requests
  <1>5. [inFlight[s] EXCEPT !.phase = p] \in Request  BY <1>3 DEF Request
  <1>6. inFlight' \in Requests  BY <1>1, <1>3, <1>5 DEF Requests
  <1>7. /\ inFlight'[s] # Idle /\ inFlight'[s].newest = inFlight[s].newest
        /\ inFlight'[s].aborted = inFlight[s].aborted /\ inFlight'[s].query = inFlight[s].query
    <2>1. [inFlight[s] EXCEPT !.phase = p] # Idle  BY <1>5, ConsumerAssumption
    <2> QED  BY <1>3, <1>4, <2>1 DEF Request
  <1>8. ConsumerTypeOK'  BY <1>2, <1>6 DEF ConsumerInv, ConsumerTypeOK, Requests
  <1>9. \A t \in Slots : Live(t)' <=> Live(t)  BY <1>2, <1>4, <1>7 DEF Live
  <1>10. OneLiveRequest'
    <2>1. \A t \in Slots : inFlight'[t] # Idle => inFlight'[t].aborted # inFlight'[t].newest
      BY <1>2, <1>4, <1>7 DEF ConsumerInv, OneLiveRequest
    <2> QED  BY <2>1, <1>9 DEF ConsumerInv, OneLiveRequest
  <1>11. NewestInFlight' <=> NewestInFlight  BY <1>2, <1>4, <1>7 DEF NewestInFlight
  <1>12. NewestAsksForSelection'
    BY <1>2, <1>4, <1>7 DEF ConsumerInv, NewestAsksForSelection
  <1> QED  BY <1>2, <1>8, <1>10, <1>11, <1>12
           DEF ConsumerInv, ShownFollowsSelection, BusyMeansWaiting

LEMMA BrowserEventInv == ASSUME ConsumerInv, BrowserEvent PROVE ConsumerInv'
  <1> USE DEF ConsumerInv, ConsumerTypeOK
  <1>1. ASSUME NEW q \in checks, HealthAnswered(q) PROVE ConsumerInv'
    <2>1. q \in Queries  OBVIOUS
    <2>2. /\ link' \in [offline : BOOLEAN, checking : BOOLEAN]
          /\ checks' \subseteq Queries /\ UNCHANGED <<sel, page>>
      BY <1>1 DEF HealthAnswered
    <2>3. CASE LoadCategories /\ LoadProducts(q) /\ detour' = (q # sel)
      BY <2>1, <2>2, <2>3, LoadKeepsInv, LoadCategoriesTyped
    <2>4. CASE UNCHANGED <<screen, timers, inFlight, categories, detour>>
      <3>1. BusyMeansWaiting'  BY <2>4 DEF BusyMeansWaiting, NewestInFlight
      <3> QED  BY <2>2, <2>4, <3>1, QuietKeepsInv DEF Screens, Timers
    <2> QED  BY <1>1, <2>3, <2>4 DEF HealthAnswered
  <1>2. CASE HandleOffline
    <2>1. BusyMeansWaiting'  BY <1>2 DEF HandleOffline, BusyMeansWaiting, NewestInFlight
    <2> QED  BY <1>2, <2>1, QuietKeepsInv DEF HandleOffline, Screens, Timers
  <1>3. CASE HandleOnline
    BY <1>3, LoadKeepsInv, LoadCategoriesTyped, FirstQueryTyped DEF HandleOnline
  <1>4. CASE ColdStartTimer
    <2>1. NewestInFlight'
      BY <1>4 DEF ColdStartTimer, BusyMeansWaiting, NewestInFlight
    <2>2. screen' \in Screens /\ screen'.error = screen.error /\ timers' \in Timers
      BY <1>4 DEF ColdStartTimer, Screens, Timers
    <2> QED  BY <1>4, <2>1, <2>2, QuietKeepsInv DEF ColdStartTimer, BusyMeansWaiting
  <1>5. CASE CategoriesAnswered
    <2>1. BusyMeansWaiting'
      BY <1>5 DEF CategoriesAnswered, BusyMeansWaiting, NewestInFlight
    <2> QED  BY <1>5, <2>1, QuietKeepsInv DEF CategoriesAnswered, Screens, Timers
  <1> QED  BY <1>1, <1>2, <1>3, <1>4, <1>5, HeadersArriveInv, ProductsArriveInv,
              RequestRejectsInv DEF BrowserEvent

LEMMA ConsumerStutterInv == ASSUME ConsumerInv, UNCHANGED consumerVars PROVE ConsumerInv'
  <1>1. UNCHANGED <<sel, page, screen, timers, inFlight, categories, link, checks, detour>>
    BY DEF consumerVars
  <1>2. BusyMeansWaiting'  BY <1>1 DEF ConsumerInv, BusyMeansWaiting, NewestInFlight
  <1> QED  BY <1>1, <1>2, QuietKeepsInv DEF ConsumerInv, ConsumerTypeOK, Screens, Timers

\* The inductive invariant of the storefront: whatever the user, the browser and
\* the network do, in any order.
THEOREM ConsumerCorrect == ConsumerSpec => []ConsumerInv
  <1>1. ConsumerInit => ConsumerInv  BY ConsumerInitInv
  <1>2. ConsumerInv /\ [ConsumerNext]_consumerVars => ConsumerInv'
    BY UserEventInv, BrowserEventInv, ConsumerStutterInv DEF ConsumerNext
  <1> QED  BY <1>1, <1>2, PTL DEF ConsumerSpec

\* What the component keeps (App.tsx:14-53) has its type, whatever is clicked
\* and whatever arrives: the list shown is one a selection can ask for.
THEOREM ConsumerTyped == ConsumerSpec => []ConsumerTypeOK
  <1>1. ConsumerInv => ConsumerTypeOK  BY DEF ConsumerInv
  <1> QED  BY <1>1, ConsumerCorrect, PTL

\* One request is alive, the last one made: App.tsx:115-120.
THEOREM OneRequestLives == ConsumerSpec => []OneLiveRequest
  <1>1. ConsumerInv => OneLiveRequest  BY DEF ConsumerInv
  <1> QED  BY <1>1, ConsumerCorrect, PTL

\* The list on the screen is the one the toolbar describes: App.tsx:177-181.
THEOREM ScreenFollowsSelection == ConsumerSpec => []ShownFollowsSelection
  <1>1. ConsumerInv => ShownFollowsSelection  BY DEF ConsumerInv
  <1> QED  BY <1>1, ConsumerCorrect, PTL

\* No spinner, banner or timer outlives its request: App.tsx:167-176.
THEOREM NothingSpinsForever == ConsumerSpec => []BusyMeansWaiting
  <1>1. ConsumerInv => BusyMeansWaiting  BY DEF ConsumerInv
  <1> QED  BY <1>1, ConsumerCorrect, PTL

LEMMA PageStep ==
    ASSUME ConsumerInv, [ConsumerNext]_consumerVars, page' # page
    PROVE  \E s \in Slots : /\ inFlight[s] # Idle /\ inFlight[s].newest
                            /\ page'.query = inFlight[s].query
                            /\ inFlight'[s] = Idle
  <1>1. PICK s \in Slots : ProductsArrive(s)
    BY DEF ConsumerNext, consumerVars, UserEvent, BrowserEvent, Select,
           HandleCategoryChange, HandleToggleInStock, HandleSortChange,
           RemoveCategoryTag, RemoveInStockTag, HandleClearFilters,
           HandlePrevPage, HandleNextPage, HandleBackToBeginning,
           RefreshCatalog, HandleFullRetry, HandleCheckHealth, HealthAnswered,
           HandleOffline, HandleOnline, ColdStartTimer, CategoriesAnswered,
           HeadersArrive, RequestRejects
  <1>2. /\ inFlight[s] # Idle /\ ~inFlight[s].aborted
        /\ inFlight' = [inFlight EXCEPT ![s] = Idle]
        /\ page'.query = inFlight[s].query
    BY <1>1 DEF ProductsArrive, Live
  <1>3. inFlight \in Requests /\ inFlight[s] \in Request
    BY <1>2 DEF ConsumerInv, ConsumerTypeOK, Requests
  <1>4. inFlight[s].newest  BY <1>2, <1>3 DEF ConsumerInv, OneLiveRequest, Request
  <1>5. inFlight'[s] = Idle  BY <1>2, <1>3 DEF Requests
  <1> QED  BY <1>2, <1>4, <1>5

\* An overtaken answer is never shown: App.tsx:115-120, 154-155.
THEOREM NoOvertakenAnswer == ConsumerSpec => OnlyTheNewestShows
  <1> DEFINE Shows == page' # page =>
                        \E s \in Slots : /\ inFlight[s] # Idle /\ inFlight[s].newest
                                        /\ page'.query = inFlight[s].query
                                        /\ inFlight'[s] = Idle
  <1>1. ConsumerInv /\ [ConsumerNext]_consumerVars => Shows  BY PageStep
  <1>2. OnlyTheNewestShows <=> [][Shows]_consumerVars  BY DEF OnlyTheNewestShows
  <1> HIDE DEF Shows
  <1> QED  BY <1>1, <1>2, ConsumerCorrect, PTL DEF ConsumerSpec
=============================================================================
