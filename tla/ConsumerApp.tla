---------------------------- MODULE ConsumerApp ----------------------------
(***************************************************************************)
(* The storefront of task-1-consumable-api, consumer/src/App.tsx with its  *)
(* client consumer/src/api.ts: one browser tab, one user, one product list *)
(* reloaded whenever the selection (filters, sort, page) changes.          *)
(*                                                                         *)
(* A browser runs one event handler at a time, and React runs the effect a *)
(* handler triggers before the next event: a handler and the load it       *)
(* causes are one action.  What is asynchronous is the network: an answer, *)
(* a failure, the timer of the cold-start banner, the browser's online and *)
(* offline events, and the rejection of a request that was aborted.        *)
(*                                                                         *)
(* Abstracted: theme, wording, the seconds counter of the banner, and the  *)
(* products themselves: a page is the query it answers and its total.      *)
(***************************************************************************)
EXTENDS Naturals, FiniteSets, Listing

CONSTANTS
    All,          \* the empty choice of the category dropdown
    Categories,   \* the categories the API returns
    Sorts,        \* the entries of the sort selector
    Newest,       \* the one selected at first: createdAt descending
    Total,        \* Total[<<category, inStock>>]: the matching products
    PAGE_LIMIT,
    MaxOffset,    \* bound: Next is not pressed beyond it
    Slots,        \* bound: requests for products in flight, aborted included
    MaxChecks,    \* bound: health checks in flight
    Idle          \* no request in this slot

Filters == (Categories \cup {All}) \X BOOLEAN
Queries == [category : Categories \cup {All}, inStock : BOOLEAN,
            sort : Sorts, offset : 0 .. MaxOffset]

\* A request of fetchProducts: waiting for the headers, for the body of a
\* success, or for the body of an error.  newest: abortControllerRef holds it.
Request == [query : Queries, phase : {"headers", "body", "errorBody"},
            newest : BOOLEAN, aborted : BOOLEAN]

ASSUME ConsumerAssumption ==
    /\ Newest \in Sorts /\ All \notin Categories
    /\ Total \in [Filters -> Nat]
    /\ PAGE_LIMIT \in Nat \ {0} /\ MaxOffset \in Nat /\ MaxChecks \in Nat
    /\ Slots # {} /\ Idle \notin Request

\* App.tsx:24-28, the state of the first render.
FirstQuery == [category |-> All, inStock |-> FALSE, sort |-> Newest, offset |-> 0]

VARIABLES
    sel,         \* selectedCategory, inStockOnly, sortBy and sortOrder, offset
    page,        \* products and meta: the query they answer and the total
    screen,      \* isLoading, isColdStarting, errorMessage # null
    timers,      \* coldStartTimerRef armed, secondsIntervalRef ticking
    inFlight,    \* inFlight[s]: the request in slot s, or Idle
    categories,  \* the dropdown: "none", "fetching" or "loaded"
    link,        \* isOffline; healthStatus = "checking" (the others are badges)
    checks,      \* the queries held by health checks that have not answered
    detour       \* ghost: the last load came from a handler of older filters

consumerVars ==
    <<sel, page, screen, timers, inFlight, categories, link, checks, detour>>

NoPage == [query |-> Idle, total |-> 0]

-----------------------------------------------------------------------------
(* What the page shows.                                                    *)

HasProducts == page.query # Idle /\ RowsOf(page.total, PAGE_LIMIT, page.query.offset) > 0
HasMore == page.query # Idle /\ buildPaginationMeta(page.total, PAGE_LIMIT, page.query.offset).hasMore
HasActiveFilters == sel.category # All \/ sel.inStock

\* The four state containers.
Screen ==
    CASE ~screen.loading /\ screen.error /\ ~HasProducts -> "error"
      [] screen.loading /\ ~HasProducts -> "loading"
      [] ~screen.loading /\ ~screen.error /\ ~HasProducts -> "empty"
      [] HasProducts -> "grid"

PrevEnabled == page.total > 0 /\ sel.offset # 0 /\ ~screen.loading
NextEnabled == page.total > 0 /\ HasMore /\ ~screen.loading

-----------------------------------------------------------------------------
(* Requests.                                                               *)

Live(s) == inFlight[s] # Idle /\ ~inFlight[s].aborted
NewestInFlight == \E s \in Slots : inFlight[s] # Idle /\ inFlight[s].newest

\* Mutant: the reference moves to the new request, the old one is not aborted.
AbortOnlyForgets(r) == IF r = Idle THEN r ELSE [r EXCEPT !.newest = FALSE]

\* abortControllerRef.current.abort(): the controller of the newest request.
\* Nothing reads the query of an aborted request: it is forgotten.
Abort(r) == IF r # Idle /\ r.newest
            THEN [r EXCEPT !.aborted = TRUE, !.newest = FALSE, !.query = FirstQuery]
            ELSE r

\* fetch and res.json() reject with an AbortError, except that the catch on
\* the body of an error answer replaces whatever went wrong by an HTTP error.
RejectsWithAbortError(r) == r.aborted /\ r.phase # "errorBody"

\* loadProducts, as the render with selection q created it.
LoadProducts(q) ==
    /\ \E s \in Slots :
        /\ inFlight[s] = Idle
        /\ inFlight' = [t \in Slots |->
               IF t = s THEN [query |-> q, phase |-> "headers",
                              newest |-> TRUE, aborted |-> FALSE]
               ELSE Abort(inFlight[t])]
    /\ screen' = [loading |-> TRUE, cold |-> FALSE, error |-> FALSE]
    /\ timers' = [armed |-> TRUE, ticking |-> FALSE]

\* Mutant: the interval of the seconds counter is left running.
FinallyKeepsTicker(error) ==
    /\ screen' = [loading |-> FALSE, cold |-> FALSE, error |-> error]
    /\ timers' = [timers EXCEPT !.armed = FALSE]

\* The finally of loadProducts: whoever's request ended, it clears the timers
\* the refs hold now and the loading state.
Finally(error) ==
    /\ screen' = [loading |-> FALSE, cold |-> FALSE, error |-> error]
    /\ timers' = [armed |-> FALSE, ticking |-> FALSE]

\* A fetch that finds the dropdown filled brings the same list again.
LoadCategories == categories' = IF categories = "none" THEN "fetching" ELSE categories

-----------------------------------------------------------------------------
(* Handlers of the user's events.                                          *)

\* Mutant: sortBy and sortOrder are missing from the dependencies.
SelectMissesSort(s) ==
    /\ sel' = s
    /\ IF [s EXCEPT !.sort = sel.sort] = sel THEN UNCHANGED <<inFlight, screen, timers, detour>>
       ELSE LoadProducts(s) /\ detour' = FALSE
    /\ UNCHANGED <<page, categories, link, checks>>

\* setState calls of one event are one render; the effect on [loadProducts]
\* runs when one of the values loadProducts closes over has changed.
Select(s) ==
    /\ sel' = s
    /\ IF s = sel THEN UNCHANGED <<inFlight, screen, timers, detour>>
       ELSE LoadProducts(s) /\ detour' = FALSE
    /\ UNCHANGED <<page, categories, link, checks>>

\* The dropdown lists the categories loaded so far.
CategoryOptions == {All} \cup (IF categories = "loaded" THEN Categories ELSE {})

HandleCategoryChange(c) ==
    /\ c \in CategoryOptions
    /\ Select([sel EXCEPT !.category = c, !.offset = 0])

HandleToggleInStock == Select([sel EXCEPT !.inStock = ~@, !.offset = 0])

HandleSortChange(sort) == Select([sel EXCEPT !.sort = sort, !.offset = 0])

\* The strip of active filters: a tag for each, and a button for all.
RemoveCategoryTag ==
    /\ sel.category # All
    /\ Select([sel EXCEPT !.category = All, !.offset = 0])

RemoveInStockTag ==
    /\ sel.inStock
    /\ Select([sel EXCEPT !.inStock = FALSE, !.offset = 0])

HandleClearFilters ==
    /\ HasActiveFilters
    /\ Select([sel EXCEPT !.category = All, !.inStock = FALSE, !.offset = 0])

\* Mutant: the button is never disabled and the offset not clamped.
HandlePrevPageUnclamped ==
    /\ page.total > 0
    /\ Select([sel EXCEPT !.offset = @ - PAGE_LIMIT])

HandlePrevPage ==
    /\ PrevEnabled
    /\ Select([sel EXCEPT !.offset = IF @ > PAGE_LIMIT THEN @ - PAGE_LIMIT ELSE 0])

HandleNextPage ==
    /\ NextEnabled
    /\ sel.offset + PAGE_LIMIT <= MaxOffset
    /\ Select([sel EXCEPT !.offset = @ + PAGE_LIMIT])

\* The button of the end-of-catalogue banner, when there are several pages.
HandleBackToBeginning ==
    /\ Screen = "grid" /\ ~HasMore /\ page.total > PAGE_LIMIT
    /\ Select([sel EXCEPT !.offset = 0])

\* Refresh Catalog calls the loadProducts of the current render.
RefreshCatalog ==
    /\ Screen = "empty" /\ ~HasActiveFilters
    /\ LoadProducts(sel) /\ detour' = FALSE
    /\ UNCHANGED <<sel, page, categories, link, checks>>

HandleFullRetry ==
    /\ Screen = "error"
    /\ link' = [link EXCEPT !.checking = FALSE]
    /\ LoadCategories /\ LoadProducts(sel) /\ detour' = FALSE
    /\ UNCHANGED <<sel, page, checks>>

\* Up to the await: the render's loadProducts, and so its selection, is kept.
HandleCheckHealth ==
    /\ Screen = "error" /\ ~link.checking /\ Cardinality(checks) < MaxChecks
    /\ link' = [link EXCEPT !.checking = TRUE]
    /\ checks' = checks \cup {sel}
    /\ UNCHANGED <<sel, page, screen, timers, inFlight, categories, detour>>

-----------------------------------------------------------------------------
(* Events of the browser and of the network.                               *)

\* After the await.  checkHealth turns every failure into false.
HealthAnswered(q) ==
    /\ checks' = checks \ {q}
    /\ link' = [link EXCEPT !.checking = FALSE]
    /\ \/ LoadCategories /\ LoadProducts(q) /\ detour' = (q # sel)
       \/ UNCHANGED <<screen, timers, inFlight, categories, detour>>
    /\ UNCHANGED <<sel, page>>

HandleOffline ==
    /\ ~link.offline
    /\ link' = [link EXCEPT !.offline = TRUE]
    /\ UNCHANGED <<sel, page, screen, timers, inFlight, categories, checks, detour>>

\* The listener is added once, by the first render: it calls that render's
\* loadProducts.
HandleOnline ==
    /\ link.offline
    /\ link' = [link EXCEPT !.offline = FALSE]
    /\ LoadCategories /\ LoadProducts(FirstQuery) /\ detour' = (FirstQuery # sel)
    /\ UNCHANGED <<sel, page, checks>>

\* The 2.5 seconds are over.
ColdStartTimer ==
    /\ timers.armed
    /\ timers' = [armed |-> FALSE, ticking |-> TRUE]
    /\ screen' = [screen EXCEPT !.cold = TRUE]
    /\ UNCHANGED <<sel, page, inFlight, categories, link, checks, detour>>

HeadersArrive(s) ==
    /\ Live(s) /\ inFlight[s].phase = "headers"
    /\ \E p \in {"body", "errorBody"} : inFlight' = [inFlight EXCEPT ![s].phase = p]
    /\ UNCHANGED <<sel, page, screen, timers, categories, link, checks, detour>>

\* Mutant: the request is not given the signal, an old answer still arrives.
ProductsArriveUnguarded(s) ==
    /\ inFlight[s] # Idle /\ inFlight[s].phase = "body"
    /\ inFlight' = [inFlight EXCEPT ![s] = Idle]
    /\ LET q == inFlight[s].query
       IN  page' = [query |-> q, total |-> Total[<<q.category, q.inStock>>]]
    /\ Finally(FALSE) /\ LoadCategories
    /\ UNCHANGED <<sel, link, checks, detour>>

\* then and finally: no other event runs between them.
ProductsArrive(s) ==
    /\ Live(s) /\ inFlight[s].phase = "body"
    /\ inFlight' = [inFlight EXCEPT ![s] = Idle]
    /\ LET q == inFlight[s].query
       IN  page' = [query |-> q, total |-> Total[<<q.category, q.inStock>>]]
    /\ Finally(FALSE)
    /\ LoadCategories
    /\ UNCHANGED <<sel, link, checks, detour>>

\* catch and finally: the network fails, an error body has been read, or an
\* aborted request rejects.
RequestRejects(s) ==
    /\ inFlight[s] # Idle
    /\ inFlight' = [inFlight EXCEPT ![s] = Idle]
    /\ Finally(screen.error \/ ~RejectsWithAbortError(inFlight[s]))
    /\ UNCHANGED <<sel, page, categories, link, checks, detour>>

\* A category fetch fills the dropdown, or the last one running fails.
CategoriesAnswered ==
    /\ categories = "fetching"
    /\ categories' \in {"loaded", "none"}
    /\ UNCHANGED <<sel, page, screen, timers, inFlight, link, checks, detour>>

-----------------------------------------------------------------------------
\* After the effects of the first render.
ConsumerInit ==
    /\ sel = FirstQuery /\ page = NoPage /\ detour = FALSE /\ checks = {}
    /\ screen = [loading |-> TRUE, cold |-> FALSE, error |-> FALSE]
    /\ timers = [armed |-> TRUE, ticking |-> FALSE]
    /\ categories = "fetching"
    /\ \E offline \in BOOLEAN : link = [offline |-> offline, checking |-> FALSE]
    /\ \E s \in Slots : inFlight = [t \in Slots |->
           IF t = s THEN [query |-> FirstQuery, phase |-> "headers",
                          newest |-> TRUE, aborted |-> FALSE]
           ELSE Idle]

UserEvent ==
    \/ \E c \in Categories \cup {All} : HandleCategoryChange(c)
    \/ HandleToggleInStock
    \/ \E sort \in Sorts : HandleSortChange(sort)
    \/ RemoveCategoryTag
    \/ RemoveInStockTag
    \/ HandleClearFilters
    \/ HandlePrevPage
    \/ HandleNextPage
    \/ HandleBackToBeginning
    \/ RefreshCatalog
    \/ HandleFullRetry
    \/ HandleCheckHealth

BrowserEvent ==
    \/ \E q \in checks : HealthAnswered(q)
    \/ HandleOffline
    \/ HandleOnline
    \/ ColdStartTimer
    \/ CategoriesAnswered
    \/ \E s \in Slots : HeadersArrive(s)
    \/ \E s \in Slots : ProductsArrive(s)
    \/ \E s \in Slots : RequestRejects(s)

ConsumerNext == UserEvent \/ BrowserEvent
ConsumerSpec == ConsumerInit /\ [][ConsumerNext]_consumerVars

-----------------------------------------------------------------------------
ConsumerTypeOK ==
    /\ sel \in Queries
    /\ page = NoPage \/ page \in [query : Queries, total : Nat]
    /\ screen \in [loading : BOOLEAN, cold : BOOLEAN, error : BOOLEAN]
    /\ timers \in [armed : BOOLEAN, ticking : BOOLEAN]
    /\ inFlight \in [Slots -> Request \cup {Idle}]
    /\ categories \in {"none", "fetching", "loaded"}
    /\ link \in [offline : BOOLEAN, checking : BOOLEAN]
    /\ checks \subseteq Queries /\ detour \in BOOLEAN

\* Of the requests in flight, all but the last one made are aborted: starting a
\* load always cancels the one before it (App.tsx:115-120), across the effect,
\* the retries, the health check and the online event, which all start loads.
OneLiveRequest ==
    /\ \A s \in Slots : inFlight[s] # Idle => inFlight[s].aborted # inFlight[s].newest
    /\ \A s, t \in Slots : Live(s) /\ Live(t) => s = t

\* The list changes only when the request made last answers, to what that one
\* asked for: an answer overtaken by a later request is never shown, whatever
\* the order in which the network delivers them.
OnlyTheNewestShows ==
    [][page' # page =>
        \E s \in Slots : /\ inFlight[s] # Idle /\ inFlight[s].newest
                        /\ page'.query = inFlight[s].query
                        /\ inFlight'[s] = Idle]_consumerVars

\* Once nothing is awaited and no error is set, the list on the screen is the
\* one the toolbar and the pager describe, through any series of changes,
\* failures and answers.  The exceptions are the loads of the two handlers that
\* call an older render's loadProducts (detour).
ShownFollowsSelection ==
    ~NewestInFlight /\ ~screen.error /\ ~detour => page.query = sel

\* The spinner, the cold-start banner, its timer and its seconds counter stand
\* for a request that has not ended: none is left behind, in whatever order
\* requests end and the timer fires.
BusyMeansWaiting ==
    screen.loading \/ screen.cold \/ timers.armed \/ timers.ticking => NewestInFlight

\* PRD.md:474, "disable the button when `meta.hasMore === false`, rather than
\* letting the user page into an empty result": Next stays within the results
\* of the selection.  It does not: Next goes by the hasMore of the page on the
\* screen, which may still be that of an older selection when the newer load
\* has failed, or when the finally of an aborted request has ended its
\* loading state for it.
NextStaysInData ==
    [][HandleNextPage => sel'.offset < Total[<<sel'.category, sel'.inStock>>]]_consumerVars
=============================================================================
