# Verification of the ecommerce-api repository

This directory holds TLA+ models of the programs in this repository, the TLC
configurations that check them, and TLAPS proofs about them. Paths below are
relative to the repository's root; `T1` is `task-1-consumable-api`, `T2` is
`task-2-background-jobs`, `T3` is `task-3-api-data-modeling` and `T5` is
`task-5-pseudocoding`.

## 1. The system

The repository holds independent programs.

| Part | State | Operations | Interacts with |
|---|---|---|---|
| **T2 queue** `src/queue/index.ts` | tables `Job`, `JobOutput` in PostgreSQL | enqueueJob, claimNextJob, heartbeatJob, markJobFailed, completeJob, sweepStuckJobs, retryDeadJob | called by workers and by the API; all state is in the database |
| **T2 worker** `src/worker/runner.ts` | isRunning, activeJobsCount, claims and executions in memory | start, runLoop, executeJob, heartbeat and sweep timers, stop | queue statements; signals; one event loop interleaves everything |
| **T2 handlers** `src/handlers/index.ts` | none | four job types; two look for a stored output | called by executeJob |
| **T2 API** `src/api/app.ts` | none | POST job, GET job, dead-letter list, retry, metrics | queue statements and direct reads |
| **T1 orders** `src/services/order.service.ts` | tables `Order`, `OrderItem`, `Product.stockQuantity` | createOrder, updateOrderStatus, deletePendingOrder | row locks of PostgreSQL |
| **T1 catalogue** `src/services/*.service.ts`, `src/utils` | tables, read only | lists with pagination, filters, sorting | reads what orders write |
| T1 HTTP layer `src/middleware`, `src/utils` | the rate limiter's counters | validation, rate limit, error envelope | every route |
| **T1 consumer** `consumer/src/App.tsx`, `api.ts` | React state: selection, page, requests in flight, timers, online flag | filters, sort, paging, load, retry, abort, health check | T1 API over HTTP; the browser's events |
| **T3 ApexRide** `src/db/migrate.ts` | tables with foreign keys, CHECKs, partial unique indexes, a trigger | the statements of the trip service; migrate() | concurrent transactions |
| **T5 delivery fee** `part-b`, `part-c` | none | one pure function in two versions, and their comparison | - |
| Seeds, probes, evidence, reviews | - | scripts and prose | - |

What is hard in it:

- **T2.** A job's owner is not written in its row: there is a status, no claim
  identity. Crashed, stalled, slow and stopping workers, two sweepers, lost
  replies, an operator's retry and the passage of time all act on the same row.
  Correct means: an accepted job is settled in the end; it is handed out no
  more often than its budget allows; an attempt is charged once; a success has
  its output; dead is dead until an operator says otherwise; the concurrency
  count is exact.
- **T1 orders.** Transactions with row locks, taken one at a time and in no
  fixed order. Correct means: stock is conserved, transactions are
  serializable, an order is refused for lack of stock only when it is short, and
  every request is answered.
- **T1 catalogue.** A page is two statements with a snapshot each, a walk is
  many, and orders change the column some lists filter and sort by. Correct
  means: a walk repeats a row, or misses one, only if the table changed so that
  it must; `hasMore` is exact for the total it was computed from.
- **T1 consumer.** Requests overlap with aborts, timers, a health check and
  online/offline events, each with a closure of some render. Correct means: of
  several requests only the last can show, nothing spins without a request, and
  what is on the screen is what the toolbar says.
- **T3.** Constraints are checked by statements that wait for, or cannot see,
  other transactions. Correct means: one active trip per rider and driver, one
  active vehicle, no dangling reference, a review only of a completed trip, a
  trip that goes through its states one edge at a time.
- **T5.** Two roundings in doubles. Correct means: the versions agree, and the
  fee is near its price and grows with the distance.

`PROJECT.json` lists every component with its status and every hazard with its
line and the properties that would show it.

## 2. The modules

| Module | Models | Notes |
|---|---|---|
| `JobTable` | the tables and all queue statements of T2 | any client may issue any statement at any time |
| `JobTable_proofs` | theorems about `JobTable` | |
| `FaultBudget` | which disturbances an environment causes, and how many | |
| `JobWorker` | worker processes and handlers | extends `JobTable`, `FaultBudget` |
| `JobApi` | the two requests that write | extends `JobTable`, `FaultBudget` |
| `JobSystem` | T2 as deployed, and the passage of time | extends `JobWorker`, `JobApi` |
| `JobLifecycle` | what T2 promises of one job | abstract; `JobSystem` implements it |
| `Inventory` | what T1 promises of orders and stock | abstract, serial |
| `OrderService` | the three writing requests of T1 as transactions | implements `Inventory` |
| `OrderService_proofs` | theorems about `OrderService` | |
| `JobSystem_proofs` | theorems about `JobSystem` in every environment | extends `JobTable_proofs` |
| `JobTimely_proofs` | theorems about `JobSystem` without stalls and lost replies | extends `JobSystem_proofs` |
| `Listing` | the list query: parsing, refusals, filters, sort, pagination | operators only |
| `Listing_proofs` | theorems about `Listing` and `ListWalk` | extends `ListWalk` |
| `ListWalk` | a client's walk through a list that changes | extends `Listing` |
| `ConsumerApp` | the storefront in one tab | extends `Listing` |
| `ConsumerApp_proofs` | theorems about `ConsumerApp` | |
| `TripLifecycle` | what T3 promises of trips | abstract, no transactions |
| `ApexRide` | the T3 database under concurrent transactions | implements `TripLifecycle` |
| `ApexRide_proofs` | theorems about `ApexRide` | |
| `DeliveryFee` | both fee functions of T5 | |
| `DeliveryFee_proofs` | theorems about `DeliveryFee` | |
| `MC...` | values for TLC, one module for each model | |

### JobTable

`job[j]` is the row with idempotency key `j` (the unique index makes a key a
row), `output[j]` its `JobOutput`, `claims[j]` a ghost that counts hand-outs
since the row was created or reset. Each action is one exported function of
`src/queue/index.ts`, its transaction included: every statement locks the row
it writes until it commits, so a transaction is one step of the table. (A
completeJob that finds its row no longer in processing locks no row of `Job`: that
its output shows only at the commit, when the row may have been claimed again, is
left out.)
`Charged` is the decision "failed or dead" that markJobFailed and
sweepStuckJobs both make.

Time is abstract. Of the timestamps a row keeps the two comparisons the
statements make: `due` (runAt <= NOW()) and `beat` (heartbeat or start NULL,
younger, or older than the stuck timeout). `RunAtArrives` and `BeatAges` let
time pass. A new or retried row may be due or not, because its runAt is the
application host's clock, which may be ahead of the database's.

### JobWorker, JobApi, JobSystem

A worker process is one event loop: `loop[w]` is where runLoop is, `fetched[w]`
the claim whose reply is on its way, `active[w]` is activeJobsCount, `exec[w][s]`
an executeJob in progress. An action is the code between two awaits with the
statement it awaits. The claim is split from its reply, because a process can
die or stop between the two; the other statements are one step with their
reply, except that a reply may be lost (`lostReply`), when the statement
commits and the code sees an error. `FailErrors` ends the process: markJobFailed
runs in executeJob's catch block, nothing catches its error, and Node ends a
process on an unhandled rejection.

`JobApi` models POST /api/jobs (insert, on P2002 read) and the retry of a dead
job (read, check, reset, three points where others act).

`JobSystem.Ages` holds the one assumption on time: the row of a claim that a
live process holds ages past the stuck timeout only by a `stall`. The
configuration refuses a heartbeat interval not below the timeout
(`src/config/index.ts`:24-30); a stall is what makes it late all the same
(blocked event loop, database unreachable, suspended host).

### OrderService

`stock` and `orders` are the committed rows; `plock`, `olock` who holds the row
locks; `req[r]` a request with what its transaction has read and waits for.
Writes show when the transaction commits. A transaction takes product locks one
at a time in any order: `SELECT ... WHERE id = ANY(...) FOR UPDATE` has no ORDER
BY (line 63), and a delete updates in the order of an unordered read (line 224).
`DeadlockAborts` is PostgreSQL's detector, `TransactionFails` any rollback. An
order's id is the request that created it. The catalogue is constant because no
route of this API writes it.

### Listing, ListWalk

`Listing` is the pure part, shared by three models: how a raw parameter (absent,
empty, given twice, not a number, a number) becomes a limit and an offset or a
400, in task 1's parser and in task 2's, which differ on an empty parameter; the
filters of a product list; the sort with its second key; `buildPaginationMeta`.

`ListWalk` runs a client that asks for a page, follows `hasMore` and asks again.
`reads` says which of the count and the page have been read; the table changes
between any two. `table` says whose list it is: products (whose stock orders
change), categories and customers (which nothing changes), or dead letters
(which die, are charged again by late reports and are retried; their updatedAt, by
which the list is sorted, is the clock of whoever writes it, so it may be later
than all others, equal or earlier). `seen` counts what the walk was shown, `drift` is a
ghost: what entered, left or moved in the list meanwhile.
A 400 and the 404 of an unknown category are one refusal. A walk starts on any
stock of the products and any set of dead jobs.

### ConsumerApp

`sel` is what the toolbar says, `page` the products with the query they answer,
`screen` loading, cold-start banner and error, `timers` the two timer refs,
`inFlight[s]` a request (its query, whether it waits for headers or a body,
whether `abortControllerRef` holds it, whether it is aborted), `categories` the
dropdown, `link` offline and health, `checks` the closures health checks hold.

A browser runs one handler at a time and React runs the effect it causes before
the next event, so a handler, its setState calls and the load of the effect are
one action. The network is the other actor: headers, body, failure, and the
rejection of an aborted request come in any order and at any later time, as do
the timer, the online and the offline event. `detour` is a ghost: the last load
came from a handler that closed over an older selection (the online handler
and the health check).

### ApexRide, TripLifecycle

`db` holds the committed rows, `dirty[c]` those a transaction of client `c` has
written and not committed, `trigger` whether the review trigger exists. A
transaction is one statement and a commit or rollback. `Writes` says when the
statement goes through: no uncommitted version of its rows, none that collides
in a unique index, none of a row it refers to or that refers to it; CHECK,
foreign keys and indexes allow the rows. A statement that would wait is disabled,
one that is refused changes nothing. Deleting a vehicle sets it NULL in its
trips; deleting a driver removes the vehicles. `DropTrigger` and `CreateTrigger`
are migrate(), whose two statements are not in one transaction; the ghost
`unguarded` collects trips reviewed in the gap, and `MaxEarly` bounds them.

The trip service is not in the repository: its statements are those of
`T3/src/tests/model-proof.test.ts` and of its documents.

### DeliveryFee

One call: `input`, and what each function returned or threw, with every
validation in its order. A distance is a whole number of sixteenths of a
kilometre, which doubles hold exactly. The only place where the rounding of a
double shows, a tie of Math.round whose product with 1.4 falls short of .5, is
`FallsShort`, computed from the error of the double 1.4.

## 3. What is checked

Passing runs:

| Run | Configuration | Shows |
|---|---|---|
| `system_timely` | 2 jobs, 2 workers of concurrency 1, 2 enqueues, 1 retry, at most 2 of crash, signal, failed statement | an execution owns its row, no job runs twice at a time, every attempt is charged once, an output means success, and the system implements `JobLifecycle` |
| `system_hostile` | 1 job whose handler may throw, 2 workers of concurrency 1, 1 retry, at most 3 disturbances of any kind, fair | the tables keep their invariants, dead and stored stay so, and the job is settled for good, also when a former owner's heartbeats keep the row of a dead owner fresh |
| `system_settles` | 2 jobs, one without a handler, 1 worker of concurrency 2, 2 enqueues, 1 retry, at most 1 disturbance of any kind, fair | the concurrency count is exact, a key has one creator, the system implements `JobTable!TableSpec`, and every accepted job is settled for good with sweeps of one row |
| `orders` | 2 creates, 1 status change, 1 delete, at most 1 rollback, 2 products with 2 and 1 units, an unknown third, fair | stock is conserved, decisions are not stale, the transactions are serializable, refusals are justified, every request is answered |
| `consumer` | one category, two sorts, pages of two rows, 2 requests in flight, 1 health check | one request lives, an overtaken answer is never shown, nothing spins without a request, the list is the one the toolbar describes |
| `list_walk` | three rows, every table, nine accepted and seven refused queries, at most 3 changes during a walk | a repeated row has moved or entered, a missed one has moved or left, a promised page exists unless the list shrank |
| `apexride` | two riders, drivers, vehicles, trips and clients, migrate() beside them, at most one review in its gap | single active trip and vehicle, no dangling reference, reviews of completed trips, and the database implements `TripLifecycle` |
| `fees` | every 1/16 km from -1/16 to 11 km, NaN, Infinity, subtotals around the threshold | the two versions agree, and the fee is fair |

Properties are stated and explained in the modules. `mutants` of `PROJECT.json`
pairs each with a plausible bug, kept beside the definition it changes and
marked "Mutant", that TLC finds to violate it.

Runs that are expected to find a violation. Each states what a comment or
document says, and the code does otherwise:

| Run | The code | What says otherwise |
|---|---|---|
| `stale_completion` | a recovered worker stamps a row another worker re-claimed | `T2/src/queue/index.ts`:243 |
| `order_deadlock` | orders of the same two products wait in a circle, one gets a 500 | `T1/README.md`:160-167 |
| `double_retry` | of two retries of one job, the second resets a row that is no longer dead: pending, in a worker's hands or succeeded | `T2/src/api/app.ts`:241 |
| `next_past_end` | Next goes by the hasMore of a page of an older selection and shows an empty one | `T1/PRD.md`:474 |

Met while modelling, without a run of their own:

- a stalled worker's completion of a swept job stores an output of a job that is
  not done: `OutputMeansDone` fails under a stall, against
  `T2/src/handlers/index.ts`:33-35;
- the heartbeat of a former owner is accepted and refreshes the new owner's row
  (`BeatRow` asks for the status only), where `T2/src/queue/index.ts`:151-152 has it
  refused when the job was handed to somebody else, and
  `T2/src/worker/runner.ts`:103 calls the answer stillOwned;
- `T1/README.md`:126 says that "tiebreaker sorting on `id` prevents duplicate rows
  during concurrent writes". It makes the order of one page definite; a walk shows
  a row twice when stock moves between two pages of a list sorted or filtered by
  it, which is what `RepeatsOnlyAfterEntry` excepts (`T1/PRD.md`:288 admits it);
- the end of an aborted request clears the loading state and the cold-start timer
  of the newer one (`T1/consumer/src/App.tsx`:167-176): a slow answer is then not
  announced, against `T1/consumer/src/App.tsx`:127 and `T1/PRD.md`:471;
- a request aborted while it reads the body of an error answer rejects with an HTTP
  error and puts it up for the newer one (`RejectsWithAbortError`,
  `T1/consumer/src/api.ts`:64-67), against `T1/PRD.md`:473;
- migrate() run again drops the review trigger and creates it in a later statement
  (`T3/src/db/migrate.ts`:325-328): in the gap a review of a trip under way goes
  through, though the race analysis at lines 294-298 says that the rule cannot be
  bypassed; `ReviewsAreOfCompletedTrips` excepts those reviews;
- a lost reply of completeJob turns a succeeded job into a failed one
  (`T2/src/queue/index.ts`:217), which can then succeed again, although
  `T2/src/api/app.ts`:383 takes succeeded for final;
- stop() does not wait for a claim in flight (`T2/src/worker/runner.ts`:145-151),
  so the claimed row is left to the sweeper;
- an error in markJobFailed ends the process (`T2/src/worker/runner.ts`:134,
  compare `T2/README.md`:304);
- a swept row is due at once (`SweepRows`), where `T2/README.md`:328 speaks of a
  future runAt;
- an order's total can overflow the INTEGER column (`T1/prisma/schema.prisma`:64;
  `task-4-code-review/reviews-received/MY_PR_TRANSACTIONAL_INVENTORY_LOCKS.md`:52-56):
  the transaction fails and is answered 500 (`CreateAborts`);
- cancelling a pending order does not restock (`PatchCommits`), where
  `T1/evidence/LINKEDIN_POST.md`:41 says it does;
- the comment at `T3/src/tests/model-proof.test.ts`:300-301 says SET NULL of
  Vehicle.driverId, which cascades (`migrate.ts`:124);
- the comment on exact ties at `T5/part-b/delivery_fee_manual.ts`:103-105 fails
  for some of them, since 1.4 is not a double: 2.25 km by car at the peak is
  the first;
- an error while products are on the screen is shown nowhere
  (`T1/consumer/src/App.tsx`:419);
- after a load by the online handler or the health check, whose closures are of an
  older render (`T1/consumer/src/App.tsx`:88), the list may be of other filters than
  the toolbar's until the next change (`detour`, which `ShownFollowsSelection`
  excepts);
- the parsers let any integer through as an offset (`T1/src/utils/pagination.ts`:38-42);
  one beyond what Prisma and PostgreSQL take would fail there. The model serves it,
  with an empty page.

### Bounds

- Two workers suffice for the races of T2: they are between an owner, a former
  owner and a sweeper (every worker has one). Two jobs let one process hold a
  claim while it executes another, and let a batch of one leave a stuck row
  behind. Budgets of 1 and 2 reach dead both at once and after a retry.
- `system_hostile` has three disturbances, so that a stalled owner, a new owner that
  dies and one more meet on the job. `system_settles` has two jobs, for a sweep of
  one row to leave another behind.
- One retry request in the passing runs; `double_retry` has two. The timely
  theorems are for any number that take turns.
- `MaxFaults` bounds disturbances per behaviour: 3 of any kind for one job, 1 for
  two, or 2 of the timely kinds. The theorems need no bound.
- Slots: one more than the concurrency, so that a broken cap would show.
- Results are numbers of attempts: two executions of one job never compute the
  same, so an overwritten output shows.
- Two units of one product and one of another let two orders compete for the
  last unit, and let one order fit where another does not. Prices and `MaxInt`
  are scaled down: the run needs a total just above the limit, not 2^31.
- `ApexRide`: two rows in each table are what a unique index compares, two
  clients what a lock keeps apart. The vehicles belong to one driver, the only
  case their index can refuse. All sets but the drivers are symmetric.
- `ListWalk`: three rows and limits of 1, 2 and more give walks of one to three
  pages; ties in price and category make the second sort key matter; three
  changes are enough to move a row over a page border and back.
- `ConsumerApp`: two requests in flight are an aborted one and the one that
  follows; the totals 3, 2, 1 and 0 give a second page, a full one, a short one
  and an empty one. `MaxOffset` is one page past the first, so that Next can
  run past the end of a narrower selection.
- `DeliveryFee`: every sixteenth of a kilometre over both thresholds; fifteen of
  the distances have a tie that falls short.
- Deadlock is checked but where a run ends: `orders` and `order_deadlock` when
  all requests are answered, `list_walk` at the end of a walk, `fees` when the
  comparison is made.
- One status change and one delete meet on an order in either order; the proof of
  `Serializable` covers any number. Worker symmetry is used in runs without
  liveness only.

### Fairness

`JobSystem!Fairness`: a process that is down is started again (an assumption on
the deployment: `npm run worker` has no supervisor in this repository), a
stopping one ends (five seconds), the loop and each execution go on (timers and
promises of one event loop; SLOW_TEST_JOB is clamped to 60 s), the sweep timer
of some process fires and takes the longest-stuck rows first, runAt arrives, an
unattended claim ages. No fairness for clients, signals, errors, crashes, and
none for heartbeats.

`OrderService!Fairness`: each request's handler goes on, waiting requests are
granted a free lock, the database looks for deadlocks.

The other models state no fairness. In particular a fetch of the storefront has
no timeout: that a list stops loading would have to be assumed of the network.

## 4. What is proved

`JobTable_proofs`, for any set of jobs, budgets, results and any batch size:

`InductiveInvariant` is the heart. `IInv` adds to `TypeOK` a statement about
each row (`RowInv`): a row that exists has a positive maximum; it is dead
exactly when its attempts have reached it, unless absent; in processing it
carries a timestamp; succeeded, it has an output; and its hand-outs are its
attempts, at most, plus one while it is in processing or succeeded. The last is
why `ClaimsWithinBudget` holds: a claim needs a row that is not dead, so attempts
are below the maximum before one more hand-out, and no row returns from
processing to a claimable state without a charge. The invariants follow; the
action properties follow from the invariant and the action's shape.

`JobSystem_proofs`, for any number of jobs, workers, requests, any concurrency,
and any number of disturbances of every kind:

| theorem | property | what it says |
|---|---|---|
| `SystemInvariant` | `[]SystemInv` | the inductive invariant |
| `SystemTyped` | `SystemTypeOK` | types; the count never goes below zero |
| `SystemImplementsTable` | `ImplementsTable` | workers and requests write the tables by the queue's statements only |
| `SystemKeepsBudgets` | `ClaimsWithinBudget` | all workers together are handed a job at most maxAttempts times |
| `CountIsExact` | `CountKeepsCap` | activeJobsCount is the number of executions, and never above the cap |
| `OneCreator` | `OneCreatorPerKey` | one client is told it created the job |

`SystemInv` joins `IInv` of the tables with what the processes know: what a worker
holds was claimed at an attempt within the row's budget (`Holdings`), the count is
the cardinality of the busy slots, plus a claim in flight only below the cap
(`Counts`), and of the requests for one key those that were told "created" are the
one whose insert won (`RequestInv`). Every step is a step of `TableNext` or leaves
the tables alone: so every theorem of `JobTable_proofs` holds of the system.

`JobTimely_proofs` assumes besides that neither `stall` nor `lostReply` happens
(`Timely`), and of a behaviour that no two retries are between the read and the
reset of the same job at the same time (`[]RetriesTakeTurns`; `double_retry` shows
what they would do). Retries, crashes, signals and failed statements are any number:

| theorem | property | what it says |
|---|---|---|
| `TimelyInvariant` | `[]TimelyInv` | the inductive invariant |
| `OwnersExecute` | `ExecutionsOwnTheirRow` | an execution works on the claim its row stands for |
| `ExecutedOnce` | `SingleExecution` | no job is executed twice at a time |
| `ChargedOnce` | `ClaimsAccounted` | a claim is charged once, or still open |
| `OutputIsOfDone` | `OutputMeansDone` | an output means a succeeded job |
| `ImplementsTheLife` | `ImplementsLifecycle` | the system implements the documented life of a job |

The argument: what any process holds, be it a reply in flight or an execution, is
of a row in processing, at the attempt it was claimed at, with a fresh timestamp
(`HoldersOwn`), and no two hands hold the same job (`HoldersAlone`). A sweeper takes
stale rows only, so it never takes a row in a hand; and a row that a retry has read
as dead is dead when it is reset (`DeadWaits`), so neither does a retry. Without
the first, as `stale_completion` shows, none of the five holds.

`OrderService_proofs`, for any products, carts, prices and requests:

| theorem | property | what it says |
|---|---|---|
| `StateInvariant` | `[]IInv` | a transaction holds the lock of every row it read and will write, the rows are as read, stock is a natural number |
| `DecisionsAreCurrent` | `ReadsStayTrue` | what a transaction decides on is still so when it commits |
| `Serializable` | `ImplementsInventory` | every transaction takes effect in the step that commits it, as the step of `Inventory` it stands for |
| `RefusalsAreJustified` | `RefusedOnlyWhenShort` | a 409 for stock is answered only when the stock is short |
| `StockIsConserved` | `StockConserved` | stock and existing orders add up to the initial stock |
| `OrdersTyped` | `OrderTypeOK` | orders, locks and requests keep their types |

The argument is two-phase locking: what a transaction has read stays true because
whoever would change it needs the lock. `IInv` says so request by request
(`CreateInv`, `ChangeInv`, `DeleteInv`); the lemma `Framed` reduces a step of one
request to that request's own part and to what the step must leave alone
(`LocksKept`, `RowsKept`), which each commit owes to `HoldsWhatItChanges`.
`StockConserved` is a sum over all orders. By `Serializable` every step is one of
`Inventory`: it moves units between the stock and one order, or moves none. So the
proof needs what a sum does when one summand changes (`SumChanges`), and that is an
induction over a finite set. The library's induction theorems cannot be used here
(they take an operator as a parameter), so `SubsetInduction` states the induction
for a set of subsets instead of a predicate: a smallest subset outside of it would
exist, by the well-foundedness of strict inclusion of finite sets, and has none
below it to blame. `SumUnfolds` gets from it that a sum with one element more is
the sum and that element, whichever element the fold takes first.

The assumptions on the constants are the ASSUMEs of `OrderService`: the creates are
finitely many, for a sum to be defined, and a cart is what the schema lets through.
That the merged quantities of a cart are natural numbers, and none of a line is
lost in merging, is proved (`BasketsTyped`, `MergedCovers`).

`ConsumerApp_proofs`, for any categories, sorts, totals, page size and number of
requests in flight:

| theorem | property | what it says |
|---|---|---|
| `ConsumerCorrect` | `[]ConsumerInv` | the inductive invariant |
| `OneRequestLives` | `OneLiveRequest` | all requests but the last are aborted |
| `ScreenFollowsSelection` | `ShownFollowsSelection` | when nothing is awaited and no error is set, the list is the toolbar's |
| `NothingSpinsForever` | `BusyMeansWaiting` | spinner, banner, timer and counter are never left without a request |
| `NoOvertakenAnswer` | `OnlyTheNewestShows` | the list is replaced by the answer to the newest request only |
| `ConsumerTyped` | `ConsumerTypeOK` | the component's state keeps its type |

The invariant says that whatever starts a load aborts the one before: a request
that is not aborted is the one `abortControllerRef` holds, it carries the
selection (but after a detour), and without it the loading state is off.

`ApexRide_proofs`, for any riders, drivers, vehicles, trips and clients:

| theorem | property | what it says |
|---|---|---|
| `ApexCorrect` | `[]ApexInv` | the inductive invariant |
| `ApexTyped` | `ApexTypeOK` | rows keep to their columns |
| `OneActiveEach` | `SingleActive` | one active trip per rider and driver, one active vehicle per driver |
| `NothingDangles` | `ReferencesExist` | references exist, matched trips have a driver |
| `ReviewsAfterCompletion` | `ReviewsAreOfCompletedTrips` | the trigger's early look at the trip is enough |
| `ImplementsTheTripLife` | `ImplementsTripLifecycle` | a commit is one step of `TripLifecycle`, or leaves trips alone |

`SingleActive` is not inductive: it says nothing of rows a transaction has written
and not committed. `ApexInv` speaks of every version of every row instead: no two
rows collide whichever version is taken (`NeverCollide`), what an uncommitted row
refers to is not being deleted (`PendingReferences`), who deletes a row holds all
that refer to it (`DeletersHoldReferring`), and an uncommitted trip is one step
from the committed one (`TripsStep`). A commit only chooses among versions, so it
keeps all of this; a statement that would break it waits or is refused. All seven
statements and the cascades are shown to be of one form (`Statement`), for which
preservation is proved once.

`Listing_proofs`, of the parsers and the meta, for all integers:
`ParsedLimitIsBounded` (what is not refused is in range), `HasMoreIsExact` (true
exactly when the next page of the same total has a row), `OnlyTheLastPageIsShort`.
Of a walk, for any rows, prices, categories, queries and number of changes:

| theorem | property | what it says |
|---|---|---|
| `WalkCorrect` | `[]WalkInv` | the inductive invariant |
| `WalkTyped` | `WalkTypeOK` | types; a limit is between 1 and MAX_LIMIT on every page |
| `NoRepeatsWithoutEntry` | `RepeatsOnlyAfterEntry` | a repeated row means that a row entered or moved |
| `NoMissWithoutExit` | `MissedOnlyAfterExit` | a missed row means that a row left, or entered between two reads |
| `PromisesAreKept` | `PromisedPageExists` | hasMore leads to a page with a row, with the same exceptions |
| `PagesAreDetermined` | - | one page can be read, and only one |

The properties speak of what was seen and the ghost of what happened, and the
invariant has to say where the rows are meanwhile. A row's position is the number
of rows before it. A row that leaves takes nobody's place but draws others towards
the start (`LeavingDraws`), one that enters pushes others away (`EnteringPushes`),
and a move is both (`ChangesList`). So while rows only leave, those shown stay
behind the point the walk has reached (`ShownAreBehind`), and while rows only
enter, those not yet shown stay at or past it (`KeptAreAhead`). The rest of
`WalkInv` is about one request: until a row leaves, or enters between the two
reads, what the first read found still holds at the second (`FirstReadHolds`), an
answer without more has shown all (`NothingMissed`), and one with more is right
(`MoreIsThere`). That the positions of the database's ORDER BY are those counted
(`RankIsPosition`) needs that the second sort key tells any two rows apart
(`PrecedesIsTotal`); that a page has as many rows as the meta reckons is `PageSize`.
`QueriesAssumption` is the only assumption on what clients send: their numbers are
raw parameters of the kinds in `Param`.

`DeliveryFee_proofs`, for all distances, subtotals and vehicles: `FeesAgree`
(`ImplementationsAgree`) and `FeesAreFair` (`FeeIsFair`), by the monotonicity of
the rounding and of what `FallsShort` takes from it.

## 5. What is only model-checked

Liveness, which is out of the provers' reach: `EventuallySettled` of the job system,
with one process and with two, and `EveryRequestAnswered` of the orders. Every other property of a passing run,
invariant, action property or refinement, is the statement of a theorem. The
theorems of `JobTimely_proofs` have the hypotheses named above; the properties of
the runs that expect a violation are false.

What a run adds to a theorem: it shows that the interesting cases happen (each
property has a mutant that breaks it under the run's own bounds), and it checks
the constants' assumptions on values.

## 6. Not modelled

T1: the validation of bodies, the rate limiter (a library with a counter per
address), reading one row by id. T2: the metrics, the status of one job and the
dashboard, which are reads of one statement or none. T3: fare receipts (their
constraints speak of one row), soft deletes (which keep the row), ratings, the
query plans of `explain.ts`. T5: the coupon calculator and the probes of
`evidence`. Seeds and evidence of all parts: scripts that run once.

Validation, response formats, logging, the dashboard, error texts. Real time:
backoff lengths, jitter, FIFO order by runAt, clock skew. Connection pools.
Global concurrency over several processes, which the README of T2 excludes.
Retention: rows are never deleted. The parts marked not_modelled in
`PROJECT.json`.

## 7. How to run

    tlc -config SystemTimely.cfg MCJobSystem
    tlc -config Consumer.cfg MCConsumerApp
    tlapm JobTimely_proofs.tla

The modules with theorems are those named `..._proofs`; each is checked by itself.

`runs` in `PROJECT.json` names the module of each configuration.

## 8. Plan

Done, in the order of their importance: the tables, workers and API of T2 with
their proofs, orders, the storefront, the ApexRide database, the lists, the
delivery fees. Left:

1. `JobClock`: a timed refinement of `JobTable` with skewed clocks, heartbeat
   interval, timeout and backoff, to justify `JobSystem!Ages`.
2. The rate limiter's window and the fare receipts.
