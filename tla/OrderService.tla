---------------------------- MODULE OrderService ----------------------------
(***************************************************************************)
(* The writes of task-1-consumable-api: POST, PATCH and DELETE on orders,  *)
(* src/services/order.service.ts.  Each is one database transaction; a     *)
(* transaction sees committed rows, locks the rows it reads FOR UPDATE or  *)
(* updates, waits for locks held by others, and shows its writes when it   *)
(* commits.  Nothing else in the API writes: the catalogue is constant.    *)
(*                                                                         *)
(* A transaction takes its locks one row at a time.  The order is that of  *)
(* the executor's scan (createOrder: id = ANY(...) FOR UPDATE, no ORDER BY)*)
(* or of an unordered read of the items (deletePendingOrder): any order.   *)
(***************************************************************************)
EXTENDS Integers, Sequences, SequencesExt, FaultBudget

CONSTANTS
    Products,       \* the product ids clients send
    Catalog,        \* those that exist
    InitialStock,   \* stockQuantity of each product
    Price,          \* price of each product, in kobo
    MaxInt,         \* largest value of an INTEGER column, scaled down
    Carts,          \* the items arrays clients send: sequences of lines
    Creates, Patches, Deletes,   \* the requests
    Nobody

\* An order's id is the request that created it.
Orders == Creates
Requests == Creates \cup Patches \cup Deletes

VARIABLES
    stock,    \* stock[p]: the committed stockQuantity
    orders,   \* orders[o]: the committed row with its items, or NoOrder
    plock,    \* plock[p]: the request whose transaction holds product p
    olock,    \* olock[o]: the request whose transaction holds order o
    req       \* req[r]: where request r is, what it read, what it answered

orderVars == <<stock, orders, plock, olock, req, faults>>

OrderStatus == {"pending", "paid", "shipped", "delivered", "cancelled"}

ALLOWED_TRANSITIONS ==
    [pending |-> {"paid", "cancelled"}, paid |-> {"shipped", "cancelled"},
     shipped |-> {"delivered"}, delivered |-> {}, cancelled |-> {}]

\* The items arrays that validation does not answer with a 422.
createOrderSchema(cart) ==
    cart # <<>> /\ cart \in Seq([product : Products, quantity : Nat \ {0}])

\* mergedItemMap: the quantities of duplicate lines are summed.
Merged(cart) ==
    LET quantities == [i \in DOMAIN cart |-> cart[i].quantity]
    IN  [p \in Products |->
           SumFunctionOnSet(quantities, {i \in DOMAIN cart : cart[i].product = p})]

Nothing == [p \in Products |-> 0]
NoOrder == [status |-> "absent", items |-> Nothing]

ASSUME CatalogAssumption ==
    /\ Catalog \subseteq Products
    /\ InitialStock \in [Products -> Nat] /\ Price \in [Products -> Nat \ {0}]
    /\ \A p \in Products \ Catalog : InitialStock[p] = 0
ASSUME CartsAssumption == \A c \in Carts : createOrderSchema(c)
ASSUME RequestKindsAssumption ==
    /\ Creates \cap Patches = {} /\ Creates \cap Deletes = {} /\ Patches \cap Deletes = {}
    /\ Nobody \notin Requests /\ IsFiniteSet(Creates) /\ MaxInt \in Nat

Baskets == {Merged(c) : c \in Carts}
ItemIds(items) == {p \in Catalog : items[p] > 0}

\* A request before its transaction: nothing read, nothing wanted.
Fresh == [pc |-> "sent", order |-> Nobody, items |-> Nothing, status |-> "absent",
          read |-> "absent", seen |-> Nothing, wants |-> Nobody, reply |-> "none"]

Init ==
    /\ stock = InitialStock
    /\ orders = [o \in Orders |-> NoOrder]
    /\ plock = [p \in Products |-> Nobody]
    /\ olock = [o \in Orders |-> Nobody]
    /\ req = [r \in Requests |-> Fresh]
    /\ faults = MaxFaults

-----------------------------------------------------------------------------
(***************************************************************************)
(* Transactions.                                                           *)
(***************************************************************************)

\* Mutant: an answer leaves the lock of the order behind.
EndsHoldingOrder(r, reply) ==
    /\ req' = [req EXCEPT ![r] = [Fresh EXCEPT !.pc = "done", !.reply = reply]]
    /\ plock' = [p \in Products |-> IF plock[p] = r THEN Nobody ELSE plock[p]]
    /\ UNCHANGED olock

\* Commit or rollback, and the answer: every lock is released.
Ends(r, reply) ==
    /\ req' = [req EXCEPT ![r] = [Fresh EXCEPT !.pc = "done", !.reply = reply]]
    /\ plock' = [p \in Products |-> IF plock[p] = r THEN Nobody ELSE plock[p]]
    /\ olock' = [o \in Orders |-> IF olock[o] = r THEN Nobody ELSE olock[o]]

Held(r) == {p \in Products : plock[p] = r}
Waiting(r) == req[r].pc = "locking" /\ plock[req[r].wants] # Nobody

\* r goes on to lock one of the products in need; without any it is ready.
LocksNext(state, need) ==
    IF need = {} THEN {[state EXCEPT !.pc = "ready", !.wants = Nobody]}
    ELSE {[state EXCEPT !.pc = "locking", !.wants = p] : p \in need}

\* Mutant: the product is read without FOR UPDATE.
LocksProductNot(r) ==
    /\ req[r].pc = "locking" /\ ~Waiting(r)
    /\ LET p == req[r].wants
           rest == {q \in ItemIds(req[r].items) : req[r].seen[q] = 0} \ {p}
       IN  \E next \in LocksNext([req[r] EXCEPT !.seen[p] = stock[p]], rest) :
               req' = [req EXCEPT ![r] = next]
    /\ UNCHANGED <<stock, orders, plock, olock, faults>>

\* The lock of a row is granted, and the row is read as it is then: FOR UPDATE
\* re-reads a row it had to wait for, and an increment starts from it.
LocksProduct(r) ==
    /\ req[r].pc = "locking" /\ ~Waiting(r)
    /\ LET p == req[r].wants
           rest == ItemIds(req[r].items) \ (Held(r) \cup {p})
       IN  /\ plock' = [plock EXCEPT ![p] = r]
           /\ \E next \in LocksNext([req[r] EXCEPT !.seen[p] = stock[p]], rest) :
                  req' = [req EXCEPT ![r] = next]
    /\ UNCHANGED <<stock, orders, olock, faults>>

\* A transaction fails on its own: connection lost, timeout of 20 s, no
\* connection within maxWait, process killed.  It is rolled back.
TransactionFails(r) ==
    /\ req[r].pc # "done" /\ Fault("dbError")
    /\ Ends(r, "error")
    /\ UNCHANGED <<stock, orders>>

\* r waits for a product in a circle of transactions that do.
InCircle(r) ==
    \E S \in SUBSET Requests :
        /\ r \in S
        /\ \A q \in S : Waiting(q) /\ plock[req[q].wants] \in S
        /\ \A q \in S : \E v \in S : plock[req[v].wants] = q

\* The database breaks the circle: one of its transactions is rolled back with
\* error 40P01, which the error handler answers with 500.
DeadlockAborts(r) ==
    /\ InCircle(r)
    /\ Ends(r, "error")
    /\ UNCHANGED <<stock, orders, faults>>

-----------------------------------------------------------------------------
(***************************************************************************)
(* POST /orders: createOrder.                                              *)
(***************************************************************************)

\* The customer is looked up, the lines are merged and the locking read is sent.
CreateBegins(r) ==
    /\ req[r].pc = "sent"
    /\ \/ Ends(r, "notFound")
       \/ /\ \E cart \in Carts :
              \E next \in LocksNext([req[r] EXCEPT !.items = Merged(cart)],
                                    ItemIds(Merged(cart))) :
                 req' = [req EXCEPT ![r] = next]
          /\ UNCHANGED <<plock, olock>>
    /\ UNCHANGED <<stock, orders, faults>>

Unknown(items) == \E p \in Products \ Catalog : items[p] > 0

\* Mutant: an order for the last unit is refused.
ShortOffByOne(seen, items) == \E p \in Catalog : items[p] > 0 /\ seen[p] <= items[p]

\* A line asks for more than the stock the transaction read.
Short(seen, items) == \E p \in Catalog : seen[p] < items[p]

TotalAmount(items) ==
    SumFunctionOnSet([p \in Products |-> Price[p] * items[p]], ItemIds(items))

CreateRefuses(r) ==
    /\ req[r].pc = "ready"
    /\ \/ Unknown(req[r].items) /\ Ends(r, "notFound")
       \/ /\ ~Unknown(req[r].items) /\ Short(req[r].seen, req[r].items)
          /\ Ends(r, "conflict")
    /\ UNCHANGED <<stock, orders, faults>>

\* The update that would leave a negative stock violates the CHECK constraint,
\* the total that does not fit the column is refused: the answer is an error.
Fits(items) == TotalAmount(items) <= MaxInt
Covered(items) == \A p \in Catalog : items[p] <= stock[p]

CreateAborts(r) ==
    /\ req[r].pc = "ready" /\ ~Unknown(req[r].items) /\ ~Short(req[r].seen, req[r].items)
    /\ ~(Fits(req[r].items) /\ Covered(req[r].items))
    /\ Ends(r, "error")
    /\ UNCHANGED <<stock, orders, faults>>

\* Mutant: the stock is checked but not decremented.
CreateCommitsUndecremented(r) ==
    /\ req[r].pc = "ready" /\ ~Unknown(req[r].items) /\ ~Short(req[r].seen, req[r].items)
    /\ Fits(req[r].items) /\ Covered(req[r].items)
    /\ orders' = [orders EXCEPT ![r] = [status |-> "pending", items |-> req[r].items]]
    /\ Ends(r, "ok")
    /\ UNCHANGED <<stock, faults>>

CreateCommits(r) ==
    /\ req[r].pc = "ready" /\ ~Unknown(req[r].items) /\ ~Short(req[r].seen, req[r].items)
    /\ Fits(req[r].items) /\ Covered(req[r].items)
    /\ stock' = [p \in Products |-> stock[p] - req[r].items[p]]
    /\ orders' = [orders EXCEPT ![r] = [status |-> "pending", items |-> req[r].items]]
    /\ Ends(r, "ok")
    /\ UNCHANGED faults

-----------------------------------------------------------------------------
(***************************************************************************)
(* PATCH /orders/:id: updateOrderStatus.                                   *)
(***************************************************************************)

\* A PATCH or DELETE arrives and sends its locking read of one order.
Queues(r, o, s) ==
    /\ req[r].pc = "sent"
    /\ req' = [req EXCEPT ![r] = [Fresh EXCEPT !.pc = "queued", !.order = o, !.status = s]]
    /\ UNCHANGED <<stock, orders, plock, olock, faults>>

Granted(r) == req[r].pc = "queued" /\ olock[req[r].order] = Nobody

PatchBegins(r) == \E o \in Orders, s \in OrderStatus : Queues(r, o, s)

\* The row was not there, or is not any more.
FindsNoOrder(r) ==
    /\ Granted(r) /\ orders[req[r].order] = NoOrder
    /\ Ends(r, "notFound")
    /\ UNCHANGED <<stock, orders, faults>>

\* Mutant: the status is read without FOR UPDATE.
PatchLocksNot(r) ==
    /\ Granted(r) /\ orders[req[r].order] # NoOrder
    /\ req' = [req EXCEPT ![r].pc = "ready", ![r].read = orders[req[r].order].status]
    /\ UNCHANGED <<stock, orders, plock, olock, faults>>

PatchLocks(r) ==
    /\ Granted(r) /\ orders[req[r].order] # NoOrder
    /\ req' = [req EXCEPT ![r].pc = "ready", ![r].read = orders[req[r].order].status]
    /\ olock' = [olock EXCEPT ![req[r].order] = r]
    /\ UNCHANGED <<stock, orders, plock, faults>>

\* The same status is a success that changes nothing.
PatchRefuses(r) ==
    /\ req[r].pc = "ready" /\ req[r].status \notin ALLOWED_TRANSITIONS[req[r].read]
    /\ Ends(r, IF req[r].status = req[r].read THEN "ok" ELSE "conflict")
    /\ UNCHANGED <<stock, orders, faults>>

PatchCommits(r) ==
    /\ req[r].pc = "ready" /\ req[r].status \in ALLOWED_TRANSITIONS[req[r].read]
    /\ orders' = [orders EXCEPT ![req[r].order].status = req[r].status]
    /\ Ends(r, "ok")
    /\ UNCHANGED <<stock, faults>>

-----------------------------------------------------------------------------
(***************************************************************************)
(* DELETE /orders/:id: deletePendingOrder.                                 *)
(***************************************************************************)

DeleteBegins(r) == \E o \in Orders : Queues(r, o, "absent")

DeleteRefuses(r) ==
    /\ Granted(r) /\ orders[req[r].order].status \in OrderStatus \ {"pending"}
    /\ Ends(r, "conflict")
    /\ UNCHANGED <<stock, orders, faults>>

\* The order is locked and its items are read; each is to be updated in turn.
DeleteLocks(r) ==
    /\ Granted(r) /\ orders[req[r].order].status = "pending"
    /\ LET items == orders[req[r].order].items
       IN  \E next \in LocksNext([req[r] EXCEPT !.read = "pending", !.items = items],
                                 ItemIds(items)) :
               req' = [req EXCEPT ![r] = next]
    /\ olock' = [olock EXCEPT ![req[r].order] = r]
    /\ UNCHANGED <<stock, orders, plock, faults>>

\* Mutant: the order goes but its items are not put back.
DeleteCommitsWithoutRestock(r) ==
    /\ req[r].pc = "ready"
    /\ orders' = [orders EXCEPT ![req[r].order] = NoOrder]
    /\ Ends(r, "ok")
    /\ UNCHANGED <<stock, faults>>

\* The items go back and the order goes, its items with it (ON DELETE CASCADE).
DeleteCommits(r) ==
    /\ req[r].pc = "ready"
    /\ stock' = [p \in Products |-> stock[p] + req[r].items[p]]
    /\ orders' = [orders EXCEPT ![req[r].order] = NoOrder]
    /\ Ends(r, "ok")
    /\ UNCHANGED faults

-----------------------------------------------------------------------------
CreateStep(r) ==
    CreateBegins(r) \/ LocksProduct(r) \/ CreateRefuses(r) \/ CreateAborts(r) \/ CreateCommits(r)
PatchStep(r) ==
    PatchBegins(r) \/ FindsNoOrder(r) \/ PatchLocks(r) \/ PatchRefuses(r) \/ PatchCommits(r)
DeleteStep(r) ==
    \/ DeleteBegins(r) \/ FindsNoOrder(r) \/ DeleteRefuses(r) \/ DeleteLocks(r)
    \/ LocksProduct(r) \/ DeleteCommits(r)

Next ==
    \/ \E r \in Creates : CreateStep(r)
    \/ \E r \in Patches : PatchStep(r)
    \/ \E r \in Deletes : DeleteStep(r)
    \/ \E r \in Requests : TransactionFails(r) \/ DeadlockAborts(r)

Spec == Init /\ [][Next]_orderVars

\* A handler goes on when what it awaits is there, the database grants locks
\* and looks for deadlocks.
Fairness ==
    /\ \A r \in Creates : WF_orderVars(CreateStep(r))
    /\ \A r \in Patches : WF_orderVars(PatchStep(r))
    /\ \A r \in Deletes : WF_orderVars(DeleteStep(r))
    /\ WF_orderVars(\E r \in Requests : DeadlockAborts(r))

FairSpec == Spec /\ Fairness

-----------------------------------------------------------------------------
(***************************************************************************)
(* Properties.                                                             *)
(***************************************************************************)

\* Types.  Stock never goes below zero, and never above what there was.
OrderTypeOK ==
    /\ \A p \in Products : stock[p] \in 0 .. InitialStock[p]
    /\ \A o \in Orders : orders[o] \in [status : OrderStatus, items : Baskets] \cup {NoOrder}
    /\ plock \in [Products -> Requests \cup {Nobody}]
    /\ olock \in [Orders -> Requests \cup {Nobody}]
    /\ \A r \in Requests : req[r].pc \in {"sent", "queued", "locking", "ready", "done"}

\* The units of p in the orders that exist.
Ordered(p) == SumFunctionOnSet([o \in Orders |-> orders[o].items[p]], Orders)

\* Nothing is sold twice and nothing gets lost: what is in stock and what is in
\* the orders that exist is what there was, whatever transactions interleave,
\* deadlock or fail (createOrder's decrement against deletePendingOrder's
\* restock).
StockConserved == \A p \in Products : stock[p] + Ordered(p) = InitialStock[p]

\* What a transaction decides on is still so when it commits: the stock it read
\* under a lock and the status it read FOR UPDATE.
ReadsStayTrue ==
    \A r \in Requests :
        /\ req[r].pc = "ready" /\ req[r].order = Nobody
             => \A p \in ItemIds(req[r].items) : req[r].seen[p] = stock[p]
        /\ req[r].pc \in {"locking", "ready"} /\ req[r].order # Nobody
             => orders[req[r].order].status = req[r].read

\* The locked, interleaved transactions have the effect of requests that are
\* executed one after the other; in particular no status moves along an edge
\* the state machine lacks and only a pending order is deleted.
Serial == INSTANCE Inventory WITH Moves <- ALLOWED_TRANSITIONS
ImplementsInventory == Serial!Spec

\* An order is refused for lack of stock only when, at that moment, the stock
\* does not cover it: no race and no rounding turns a customer away.
RefusedOnlyWhenShort ==
    [][\A r \in Creates :
         req[r].pc = "ready" /\ req'[r].reply = "conflict"
             => \E p \in Products : stock[p] < req[r].items[p]]_orderVars

\* Every request is answered, although transactions wait for each other.
EveryRequestAnswered == \A r \in Requests : <>(req[r].pc = "done")

-----------------------------------------------------------------------------
(***************************************************************************)
(* What a document says of the code, where it does otherwise.              *)
(***************************************************************************)

\* README.md, 2.6: competing transactions "wait for the lock; when released,
\* they read the decremented stock and fail with a clean 409 Conflict if stock
\* is exhausted": none waits in a circle, which ends in a 500.
CompetitorsWaitInLine == \A r \in Requests : ~InCircle(r)
=============================================================================
