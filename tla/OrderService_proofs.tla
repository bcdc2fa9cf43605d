------------------------ MODULE OrderService_proofs ------------------------
(***************************************************************************)
(* Why the transactions of order.service.ts are serializable, for any      *)
(* products, prices, carts and requests: two-phase locking.  What a        *)
(* transaction read stays true until it commits, because whoever would     *)
(* change it needs a lock the transaction holds; so its whole effect can   *)
(* be taken to happen in the step that commits it.                         *)
(***************************************************************************)
EXTENDS OrderService, FiniteSetTheorems, TLAPS

Status == OrderStatus \cup {"absent"}
Quantities == [Products -> Nat]
Changes == Patches \cup Deletes   \* the requests that name an order
Working == {"locking", "ready"}   \* where a transaction has read something

Request == [pc : {"sent", "queued", "locking", "ready", "done"},
            order : Orders \cup {Nobody}, items : Quantities, status : Status,
            read : Status, seen : Quantities, wants : Products \cup {Nobody},
            reply : {"none", "ok", "notFound", "conflict", "error"}]
Row == [status : Status, items : Quantities]

Typed ==
    /\ stock \in Quantities
    /\ orders \in [Orders -> Row]
    /\ plock \in [Products -> Requests \cup {Nobody}]
    /\ olock \in [Orders -> Requests \cup {Nobody}]
    /\ req \in [Requests -> Request]

\* A row is a basket of known products, or there is none.
OrderInv(o) ==
    \/ orders[o] = NoOrder
    \/ /\ orders[o].status \in OrderStatus /\ orders[o].items \in Baskets
       /\ ~Unknown(orders[o].items)

\* A transaction that has its products locked holds all of them.
LockingInv(r) ==
    /\ req[r].pc = "locking" => req[r].wants \in ItemIds(req[r].items)
    /\ req[r].pc = "ready" => ItemIds(req[r].items) \subseteq Held(r)

\* createOrder: its id is not used before it commits, and the stock it read is
\* the stock while it holds the product.
CreateInv(r) ==
    /\ req[r].order = Nobody /\ req[r].pc # "queued"
    /\ req[r].pc # "done" => orders[r] = NoOrder /\ req[r].reply = "none"
    /\ req[r].pc \in Working => req[r].items \in Baskets
    /\ \A p \in Products : plock[p] = r => req[r].seen[p] = stock[p]
    /\ LockingInv(r)

\* updateOrderStatus and deletePendingOrder: the order is locked and is as read.
ChangeInv(r) ==
    /\ req[r].pc \in Working \cup {"queued"} => req[r].order \in Orders
    /\ req[r].pc \in Working =>
         /\ olock[req[r].order] = r
         /\ orders[req[r].order] # NoOrder /\ orders[req[r].order].status = req[r].read

DeleteInv(r) ==
    /\ req[r].pc \in Working =>
         req[r].read = "pending" /\ req[r].items = orders[req[r].order].items
    /\ LockingInv(r)

RequestInv(r) ==
    /\ r \in Creates => CreateInv(r)
    /\ r \in Changes => ChangeInv(r)
    /\ r \in Deletes => DeleteInv(r)
    /\ r \in Patches => req[r].pc # "locking"

IInv ==
    /\ Typed
    /\ \A o \in Orders : OrderInv(o)
    /\ \A r \in Requests : RequestInv(r)

-----------------------------------------------------------------------------
(***************************************************************************)
(* Sums over finite sets.  SumFunctionOnSet picks the elements one by one, *)
(* by CHOOSE; what it computes follows by induction on the subsets of the  *)
(* set, taken as the search for a smallest subset that is an exception.    *)
(***************************************************************************)

\* A set of subsets is inductive if it has each subset whose own subsets it has.
Inductive(good, S) ==
    \A s \in SUBSET S :
        s # {} /\ (\A u \in SUBSET s : u # s => u \in good) => s \in good

LEMMA SubsetInduction ==
    ASSUME NEW S, IsFiniteSet(S), NEW good \in SUBSET SUBSET S, {} \in good,
           Inductive(good, S)
    PROVE  good = SUBSET S
<1> DEFINE bad == (SUBSET S) \ good
<1> SUFFICES ASSUME bad # {} PROVE FALSE
  OBVIOUS
<1>1. IsWellFoundedOn(StrictSubsetOrdering(S), SUBSET S)
  BY FS_FiniteSubsetsOfFinite, FS_StrictSubsetOrderingWellFounded
<1>2. PICK m \in bad : \A u \in bad : <<u, m>> \notin StrictSubsetOrdering(S)
  <2>1. bad \subseteq SUBSET S
    OBVIOUS
  <2> HIDE DEF bad
  <2> QED BY <1>1, <2>1, WFMin
<1>3. ASSUME NEW u \in SUBSET m, u # m PROVE u \in good
  <2>1. <<u, m>> \in (SUBSET S) \X (SUBSET S) /\ <<u, m>>[1] = u /\ <<u, m>>[2] = m
    BY <1>2, <1>3
  <2>2. <<u, m>> \in StrictSubsetOrdering(S)
    BY <2>1, <1>3 DEF StrictSubsetOrdering
  <2> QED BY <1>2, <2>1, <2>2
<1> QED BY <1>2, <1>3 DEF Inductive

First(s) == CHOOSE x \in s : TRUE

\* iter is the function by which SumFunctionOnSet sums f over the subsets of S.
IsSum(iter, f, S) ==
    iter = [s \in SUBSET S |->
              IF s = {} THEN 0 ELSE f[First(s)] + iter[s \ {First(s)}]]

LEMMA SumIsIterated ==
    ASSUME NEW S, NEW f
    PROVE  SumFunctionOnSet(f, S) = (CHOOSE iter : IsSum(iter, f, S))[S]
  BY DEF SumFunctionOnSet, FoldFunctionOnSet, MapThenFoldSet, IsSum, First

LEMMA IterSteps ==
    ASSUME NEW S, NEW f, NEW iter, IsSum(iter, f, S)
    PROVE  /\ iter[{}] = 0
           /\ \A s \in SUBSET S :
                s # {} => First(s) \in s /\ iter[s] = f[First(s)] + iter[s \ {First(s)}]
<1>1. {} \in SUBSET S /\ \A s : s # {} => First(s) \in s
  BY DEF First
<1> QED BY <1>1 DEF IsSum

\* The sums over the subsets of T are the same, whatever larger set is summed.
LEMMA IterAgrees ==
    ASSUME NEW S, IsFiniteSet(S), NEW T \in SUBSET S, NEW f,
           NEW g, IsSum(g, f, S), NEW h, IsSum(h, f, T)
    PROVE  \A s \in SUBSET T : g[s] = h[s]
<1> DEFINE good == {s \in SUBSET T : g[s] = h[s]}
<1>1. IsFiniteSet(T)
  BY FS_Subset
<1>2. good \in SUBSET SUBSET T /\ {} \in good
  BY IterSteps
<1>3. ASSUME NEW s \in SUBSET T, s # {}, \A u \in SUBSET s : u # s => u \in good
      PROVE  s \in good
  <2>1. s \in SUBSET S
    OBVIOUS
  <2>2. First(s) \in s /\ g[s] = f[First(s)] + g[s \ {First(s)}]
    BY <2>1, <1>3, IterSteps
  <2>3. h[s] = f[First(s)] + h[s \ {First(s)}]
    BY <1>3, IterSteps
  <2>4. s \ {First(s)} \in good
    BY <2>2, <1>3
  <2> QED BY <2>2, <2>3, <2>4
<1>4. good = SUBSET T
  <2>1. Inductive(good, T)
    BY <1>3 DEF Inductive
  <2> HIDE DEF good
  <2> QED BY <1>1, <1>2, <2>1, SubsetInduction
<1> QED BY <1>4

\* The recursion has a solution: it is put together from those on smaller sets.
LEMMA IterExists ==
    ASSUME NEW S, IsFiniteSet(S), NEW f
    PROVE  \E iter : IsSum(iter, f, S)
<1> DEFINE good == {s \in SUBSET S : \E iter : IsSum(iter, f, s)}
           G(s) == CHOOSE iter : IsSum(iter, f, s)
<1>1. good \in SUBSET SUBSET S
  OBVIOUS
<1>2. {} \in good
  <2>1. IsSum([s \in SUBSET {} |-> 0], f, {})
    BY DEF IsSum
  <2> QED BY <2>1
<1>3. ASSUME NEW m \in SUBSET S, m # {}, \A u \in SUBSET m : u # m => u \in good
      PROVE  m \in good
  <2> DEFINE iter == [s \in SUBSET m |->
                        IF s = {} THEN 0
                        ELSE f[First(s)] + G(s \ {First(s)})[s \ {First(s)}]]
  <2>1. ASSUME NEW u \in SUBSET m, u # m
        PROVE  iter[u] = G(u)[u]
    <3>1. IsSum(G(u), f, u)
      BY <1>3, <2>1
    <3>2. CASE u = {}
      BY <3>1, <3>2, IterSteps
    <3>3. CASE u # {}
      <4> DEFINE v == u \ {First(u)}
      <4>1. First(u) \in u /\ G(u)[u] = f[First(u)] + G(u)[v]
        <5>1. u \in SUBSET u
          OBVIOUS
        <5> HIDE DEF G, iter
        <5>2. \A s \in SUBSET u :
                s # {} => First(s) \in s /\ G(u)[s] = f[First(s)] + G(u)[s \ {First(s)}]
          BY <3>1, IterSteps
        <5> QED BY <3>3, <5>1, <5>2
      <4>2. v \in SUBSET m /\ v # m /\ v \in SUBSET u
        BY <4>1, <2>1
      <4>3. IsSum(G(v), f, v) /\ IsFiniteSet(u)
        BY <1>3, <4>2, FS_Subset
      <4>4. G(u)[v] = G(v)[v]
        <5> HIDE DEF v, G
        <5> QED BY <3>1, <4>2, <4>3, IterAgrees
      <4>5. iter[u] = f[First(u)] + G(v)[v]
        BY <3>3
      <4> HIDE DEF v, G, iter
      <4> QED BY <4>1, <4>4, <4>5
    <3> QED BY <3>2, <3>3
  <2>2. ASSUME NEW s \in SUBSET m, s # {}
        PROVE  iter[s] = f[First(s)] + iter[s \ {First(s)}]
    <3>1. s \ {First(s)} \in SUBSET m /\ s \ {First(s)} # m
      BY <2>2 DEF First
    <3>2. iter[s] = f[First(s)] + G(s \ {First(s)})[s \ {First(s)}]
      BY <2>2
    <3> HIDE DEF iter, G
    <3> QED BY <2>1, <3>1, <3>2
  <2>3. iter[{}] = 0 /\ iter = [s \in SUBSET m |-> iter[s]]
    OBVIOUS
  <2>4. IsSum(iter, f, m)
    <3> HIDE DEF iter
    <3> QED BY <2>2, <2>3 DEF IsSum
  <2> QED BY <2>4
<1>4. good = SUBSET S
  <2>1. Inductive(good, S)
    BY <1>3 DEF Inductive
  <2> HIDE DEF good
  <2> QED BY <1>1, <1>2, <2>1, SubsetInduction
<1> QED BY <1>4

\* The equation of the sum.
LEMMA SumUnfolds ==
    ASSUME NEW S, IsFiniteSet(S), NEW f
    PROVE  /\ SumFunctionOnSet(f, {}) = 0
           /\ S # {} => /\ First(S) \in S
                        /\ SumFunctionOnSet(f, S) =
                             f[First(S)] + SumFunctionOnSet(f, S \ {First(S)})
<1> DEFINE G(s) == CHOOSE iter : IsSum(iter, f, s)
<1>1. ASSUME NEW s \in SUBSET S
      PROVE  IsSum(G(s), f, s) /\ SumFunctionOnSet(f, s) = G(s)[s]
  <2>1. IsFiniteSet(s)
    BY FS_Subset
  <2> QED BY <2>1, IterExists, SumIsIterated
<1>2. SumFunctionOnSet(f, {}) = 0
  <2>1. {} \in SUBSET S
    OBVIOUS
  <2> HIDE DEF G
  <2> QED BY <2>1, <1>1, IterSteps
<1>3. ASSUME S # {}
      PROVE  /\ First(S) \in S
             /\ SumFunctionOnSet(f, S) = f[First(S)] + SumFunctionOnSet(f, S \ {First(S)})
  <2> DEFINE v == S \ {First(S)}
  <2>1. S \in SUBSET S /\ v \in SUBSET S /\ v \in SUBSET v
    OBVIOUS
  <2> HIDE DEF G
  <2>2. First(S) \in S /\ G(S)[S] = f[First(S)] + G(S)[v]
    BY <1>1, <1>3, <2>1, IterSteps
  <2>3. G(S)[v] = G(v)[v]
    <3> HIDE DEF v
    <3> QED BY <1>1, <2>1, IterAgrees
  <2> QED BY <1>1, <2>1, <2>2, <2>3
<1> QED BY <1>2, <1>3

LEMMA SumOfNone == \A f : SumFunctionOnSet(f, {}) = 0
  BY FS_EmptySet, SumUnfolds

LEMMA SumTyped ==
    ASSUME NEW S, IsFiniteSet(S), NEW f, \A x \in S : f[x] \in Nat
    PROVE  SumFunctionOnSet(f, S) \in Nat
<1> DEFINE good == {s \in SUBSET S : SumFunctionOnSet(f, s) \in Nat}
<1>1. good \in SUBSET SUBSET S /\ {} \in good
  BY SumOfNone
<1>2. ASSUME NEW s \in SUBSET S, s # {}, \A u \in SUBSET s : u # s => u \in good
      PROVE  s \in good
  <2>1. IsFiniteSet(s)
    BY FS_Subset
  <2>2. First(s) \in s
        /\ SumFunctionOnSet(f, s) = f[First(s)] + SumFunctionOnSet(f, s \ {First(s)})
    BY <1>2, <2>1, SumUnfolds
  <2>3. s \ {First(s)} \in good
    BY <1>2, <2>2
  <2> QED BY <2>2, <2>3
<1>3. good = SUBSET S
  <2>1. Inductive(good, S)
    BY <1>2 DEF Inductive
  <2> HIDE DEF good
  <2> QED BY <1>1, <2>1, SubsetInduction
<1> QED BY <1>3

\* A change of one term changes the sum by as much.
LEMMA SumChanges ==
    ASSUME NEW S, IsFiniteSet(S), NEW o \in S, NEW f, NEW g,
           \A x \in S : f[x] \in Nat /\ g[x] \in Nat /\ (x # o => g[x] = f[x])
    PROVE  SumFunctionOnSet(g, S) = SumFunctionOnSet(f, S) + (g[o] - f[o])
<1> DEFINE good == {s \in SUBSET S :
                      SumFunctionOnSet(g, s) =
                        SumFunctionOnSet(f, s) + (IF o \in s THEN g[o] - f[o] ELSE 0)}
<1>1. good \in SUBSET SUBSET S /\ {} \in good
  BY SumOfNone
<1>2. ASSUME NEW s \in SUBSET S, s # {}, \A u \in SUBSET s : u # s => u \in good
      PROVE  s \in good
  <2> DEFINE x == First(s)
             v == s \ {x}
  <2>1. IsFiniteSet(s)
    BY FS_Subset
  <2>2. /\ x \in s
        /\ SumFunctionOnSet(f, s) = f[x] + SumFunctionOnSet(f, v)
        /\ SumFunctionOnSet(g, s) = g[x] + SumFunctionOnSet(g, v)
    BY <1>2, <2>1, SumUnfolds
  <2>3. v \in good
    BY <1>2, <2>2
  <2>4. IsFiniteSet(v) /\ \A y \in v : y \in S
    BY <2>1, FS_Subset
  <2>5. SumFunctionOnSet(f, v) \in Nat /\ SumFunctionOnSet(g, v) \in Nat
    <3> HIDE DEF v
    <3> QED BY <2>4, SumTyped
  <2>6. f[x] \in Nat /\ g[x] \in Nat /\ f[o] \in Nat /\ g[o] \in Nat
    BY <2>2
  <2>7. CASE x = o
    BY <2>2, <2>3, <2>5, <2>6, <2>7
  <2>8. CASE x # o
    BY <2>2, <2>3, <2>5, <2>6, <2>8
  <2> QED BY <2>7, <2>8
<1>3. good = SUBSET S
  <2>1. Inductive(good, S)
    BY <1>2 DEF Inductive
  <2> HIDE DEF good
  <2> QED BY <1>1, <2>1, SubsetInduction
<1> QED BY <1>3

\* No term exceeds the sum.
LEMMA SumBounds ==
    ASSUME NEW S, IsFiniteSet(S), NEW o \in S, NEW f, \A x \in S : f[x] \in Nat
    PROVE  f[o] <= SumFunctionOnSet(f, S)
<1> DEFINE g == [x \in S |-> IF x = o THEN 0 ELSE f[x]]
<1>1. /\ \A x \in S : g[x] \in Nat /\ (x # o => f[x] = g[x])
      /\ g[o] = 0
  OBVIOUS
<1> HIDE DEF g
<1>2. SumFunctionOnSet(g, S) \in Nat
  BY <1>1, SumTyped
<1>3. SumFunctionOnSet(f, S) = SumFunctionOnSet(g, S) + (f[o] - g[o])
  BY <1>1, SumChanges
<1> QED BY <1>1, <1>2, <1>3

\* A sum of zeros is zero.
LEMMA SumOfZeros ==
    ASSUME NEW S, IsFiniteSet(S), NEW f, \A x \in S : f[x] = 0
    PROVE  SumFunctionOnSet(f, S) = 0
<1> DEFINE good == {s \in SUBSET S : SumFunctionOnSet(f, s) = 0}
<1>1. good \in SUBSET SUBSET S /\ {} \in good
  BY SumOfNone
<1>2. ASSUME NEW s \in SUBSET S, s # {}, \A u \in SUBSET s : u # s => u \in good
      PROVE  s \in good
  <2>1. IsFiniteSet(s)
    BY FS_Subset
  <2>2. First(s) \in s
        /\ SumFunctionOnSet(f, s) = f[First(s)] + SumFunctionOnSet(f, s \ {First(s)})
    BY <1>2, <2>1, SumUnfolds
  <2>3. s \ {First(s)} \in good
    BY <1>2, <2>2
  <2> QED BY <2>2, <2>3
<1>3. good = SUBSET S
  <2>1. Inductive(good, S)
    BY <1>2 DEF Inductive
  <2> HIDE DEF good
  <2> QED BY <1>1, <2>1, SubsetInduction
<1> QED BY <1>3

-----------------------------------------------------------------------------
(***************************************************************************)
(* What createOrder makes of the lines of a cart.                          *)
(***************************************************************************)

LEMMA CartLines ==
    ASSUME NEW cart \in Carts
    PROVE  /\ DOMAIN cart = 1 .. Len(cart) /\ Len(cart) \in Nat /\ 1 \in DOMAIN cart
           /\ \A i \in DOMAIN cart :
                cart[i].product \in Products /\ cart[i].quantity \in Nat \ {0}
<1> DEFINE Line == [product : Products, quantity : Nat \ {0}]
<1>1. cart # <<>> /\ cart \in Seq(Line)
  BY CartsAssumption DEF createOrderSchema
<1>2. \A line \in Line : line.product \in Products /\ line.quantity \in Nat \ {0}
  OBVIOUS
<1> HIDE DEF Line
<1>3. DOMAIN cart = 1 .. Len(cart) /\ Len(cart) \in Nat /\ 1 \in DOMAIN cart
  BY <1>1
<1>4. \A i \in DOMAIN cart : cart[i] \in Line
  BY <1>1
<1> QED BY <1>2, <1>3, <1>4

\* A cart asks for a natural number of units of each product, and of each
\* product in one of its lines for at least what that line says.
LEMMA MergedCovers ==
    ASSUME NEW cart \in Carts
    PROVE  /\ Merged(cart) \in Quantities
           /\ \A i \in DOMAIN cart : cart[i].quantity <= Merged(cart)[cart[i].product]
<1> DEFINE quantities == [i \in DOMAIN cart |-> cart[i].quantity]
           lines(p) == {i \in DOMAIN cart : cart[i].product = p}
<1>2. \A i \in DOMAIN cart : cart[i].product \in Products /\ cart[i].quantity \in Nat
  BY CartLines
<1>3. ASSUME NEW p \in Products
      PROVE  IsFiniteSet(lines(p)) /\ \A i \in lines(p) : quantities[i] \in Nat
  <2>1. DOMAIN cart = 1 .. Len(cart) /\ Len(cart) \in Nat
    BY CartLines
  <2>2. IsFiniteSet(DOMAIN cart)
    BY <2>1, FS_Interval
  <2> QED BY <2>2, <1>2, FS_Subset
<1>4. Merged(cart) = [p \in Products |-> SumFunctionOnSet(quantities, lines(p))]
  BY DEF Merged
<1>5. Merged(cart) \in Quantities
  <2>1. \A p \in Products : SumFunctionOnSet(quantities, lines(p)) \in Nat
    <3> HIDE DEF quantities, lines
    <3> QED BY <1>3, SumTyped
  <2> QED BY <1>4, <2>1 DEF Quantities
<1>6. ASSUME NEW i \in DOMAIN cart
      PROVE  cart[i].quantity <= Merged(cart)[cart[i].product]
  <2> DEFINE p == cart[i].product
  <2>1. p \in Products /\ i \in lines(p) /\ quantities[i] = cart[i].quantity
    BY <1>2
  <2>2. quantities[i] <= SumFunctionOnSet(quantities, lines(p))
    <3> HIDE DEF quantities, lines, p
    <3> QED BY <1>3, <2>1, SumBounds
  <2> QED BY <1>4, <2>1, <2>2
<1> QED BY <1>5, <1>6

LEMMA BasketsTyped == Baskets \subseteq Quantities
  BY MergedCovers DEF Baskets

-----------------------------------------------------------------------------
(***************************************************************************)
(* What a step of r may disturb of another transaction: nothing.           *)
(***************************************************************************)

LocksKept(q) ==
    /\ \A p \in Products : plock'[p] = q <=> plock[p] = q
    /\ \A o \in Orders : olock'[o] = q <=> olock[o] = q

\* The rows q has locked are as they were, and an unused id stays unused.
RowsKept(q) ==
    /\ \A p \in Products : plock[p] = q => stock'[p] = stock[p]
    /\ \A o \in Orders : olock[o] = q /\ orders[o] # NoOrder => orders'[o] = orders[o]
    /\ q \in Creates /\ orders[q] = NoOrder => orders'[q] = NoOrder

\* The invariant of a request holds on if the request does not move and others
\* leave its locks and its rows alone.
LEMMA OtherRequest ==
    ASSUME IInv, NEW q \in Requests, req'[q] = req[q], LocksKept(q), RowsKept(q)
    PROVE  RequestInv(q)'
<1>1. Held(q)' = Held(q)
  BY DEF Held, LocksKept
<1>2. RequestInv(q) /\ req[q] \in Request
  BY DEF IInv, Typed
<1>3. LockingInv(q) => LockingInv(q)'
  BY <1>1, <1>2 DEF LockingInv, ItemIds
<1>4. ASSUME q \in Creates PROVE CreateInv(q)'
  <2>1. CreateInv(q)
    BY <1>2, <1>4 DEF RequestInv
  <2> QED
    BY <2>1, <1>2, <1>3, <1>4 DEF CreateInv, LocksKept, RowsKept, Working
<1>5. ASSUME q \in Changes PROVE ChangeInv(q)' /\ (q \in Deletes => DeleteInv(q)')
  <2>1. ChangeInv(q) /\ (q \in Deletes => DeleteInv(q))
    BY <1>2, <1>5 DEF RequestInv
  <2>2. req[q].pc \in Working =>
          /\ req[q].order \in Orders /\ olock[req[q].order] = q
          /\ orders'[req[q].order] = orders[req[q].order]
          /\ olock'[req[q].order] = q
    BY <2>1 DEF ChangeInv, Working, RowsKept, LocksKept
  <2>3. ChangeInv(q)'
    BY <2>1, <2>2 DEF ChangeInv, Working, NoOrder, Nothing
  <2>4. q \in Deletes => DeleteInv(q)'
    BY <2>1, <2>2, <1>3 DEF DeleteInv
  <2> QED BY <2>3, <2>4
<1> QED
  BY <1>2, <1>4, <1>5 DEF RequestInv, Changes

\* So a step of r keeps the invariant if it does for r and for the rows.
LEMMA Framed ==
    ASSUME IInv, NEW r \in Requests, Typed', RequestInv(r)',
           \A o \in Orders : OrderInv(o)',
           \A q \in Requests \ {r} : req'[q] = req[q] /\ LocksKept(q) /\ RowsKept(q)
    PROVE  IInv'
  BY OtherRequest DEF IInv

LEMMA RowsUnchanged ==
    ASSUME IInv, stock' = stock, orders' = orders
    PROVE  /\ stock' \in Quantities /\ orders' \in [Orders -> Row]
           /\ \A o \in Orders : OrderInv(o)'
           /\ \A q \in Requests : RowsKept(q)
  BY DEF IInv, Typed, OrderInv, RowsKept

-----------------------------------------------------------------------------
(***************************************************************************)
(* The transactions' common steps.                                         *)
(***************************************************************************)

LEMMA NothingTyped == Nothing \in Quantities
  BY DEF Nothing, Quantities

\* An end releases what r holds and nothing else, and leaves r nothing to keep.
LEMMA EndsFrame ==
    ASSUME IInv, NEW r \in Requests,
           NEW reply \in {"ok", "notFound", "conflict", "error"}, Ends(r, reply)
    PROVE  /\ plock' \in [Products -> Requests \cup {Nobody}]
           /\ olock' \in [Orders -> Requests \cup {Nobody}]
           /\ req' \in [Requests -> Request]
           /\ req'[r].pc = "done" /\ req'[r].reply = reply
           /\ RequestInv(r)'
           /\ \A q \in Requests \ {r} : req'[q] = req[q] /\ LocksKept(q)
<1>1. Typed /\ Nobody \notin Requests
  BY RequestKindsAssumption DEF IInv
<1> DEFINE end == [Fresh EXCEPT !.pc = "done", !.reply = reply]
<1>2. Fresh \in Request /\ Fresh.order = Nobody
  BY NothingTyped DEF Fresh, Request, Status
<1>3. end \in Request
  BY <1>2 DEF Request
<1>4. req' = [req EXCEPT ![r] = end]
  BY DEF Ends
<1>5. end.pc = "done" /\ end.order = Nobody /\ end.reply = reply
  BY <1>2 DEF Request
<1> HIDE DEF end
<1>6. req'[r] = end /\ req' \in [Requests -> Request]
      /\ \A q \in Requests \ {r} : req'[q] = req[q]
  BY <1>1, <1>3, <1>4 DEF Typed
<1>7. /\ plock' \in [Products -> Requests \cup {Nobody}]
      /\ olock' \in [Orders -> Requests \cup {Nobody}]
      /\ \A p \in Products : plock'[p] # r
      /\ \A q \in Requests \ {r} : LocksKept(q)
  BY <1>1 DEF Typed, Ends, LocksKept
<1>8. RequestInv(r)'
  <2>1. req'[r].pc = "done" /\ req'[r].order = Nobody
    BY <1>5, <1>6
  <2>2. LockingInv(r)'
    BY <2>1 DEF LockingInv
  <2>3. CreateInv(r)'
    BY <2>1, <2>2, <1>7 DEF CreateInv, Working
  <2>4. ChangeInv(r)' /\ DeleteInv(r)'
    BY <2>1, <2>2 DEF ChangeInv, DeleteInv, Working
  <2> QED BY <2>1, <2>3, <2>4 DEF RequestInv
<1> QED BY <1>5, <1>6, <1>7, <1>8

\* A rollback or a refusal keeps the invariant.
LEMMA EndsWithoutWrites ==
    ASSUME IInv, NEW r \in Requests,
           NEW reply \in {"ok", "notFound", "conflict", "error"}, Ends(r, reply),
           stock' = stock, orders' = orders
    PROVE  IInv'
<1>1. Typed'
  BY EndsFrame, RowsUnchanged DEF Typed
<1> QED BY <1>1, EndsFrame, RowsUnchanged, Framed

\* Where a transaction goes that needs the locks of some products.
LEMMA AfterLocksNext ==
    ASSUME NEW state \in Request, NEW need \in SUBSET Products,
           NEW next \in LocksNext(state, need)
    PROVE  /\ next \in Request /\ next.pc \in Working
           /\ next.pc = "locking" => next.wants \in need
           /\ next.pc = "ready" => need = {}
           /\ next.order = state.order /\ next.items = state.items
           /\ next.status = state.status /\ next.read = state.read
           /\ next.seen = state.seen /\ next.reply = state.reply
<1>1. CASE need = {}
  <2>1. next = [state EXCEPT !.pc = "ready", !.wants = Nobody]
    BY <1>1 DEF LocksNext
  <2> QED BY <1>1, <2>1 DEF Request, Working
<1>2. CASE need # {}
  <2>1. PICK p \in need : next = [state EXCEPT !.pc = "locking", !.wants = p]
    BY <1>2 DEF LocksNext
  <2> QED BY <2>1 DEF Request, Working
<1> QED BY <1>1, <1>2

LEMMA ItemIdsTyped == \A items : ItemIds(items) \subseteq Products
  BY CatalogAssumption DEF ItemIds

\* The lock of a product is taken from nobody, and the row is read under it.
LEMMA LocksProductKeeps ==
    ASSUME IInv, NEW r \in Creates \cup Deletes, LocksProduct(r)
    PROVE  IInv'
<1> DEFINE p == req[r].wants
           state == [req[r] EXCEPT !.seen[p] = stock[p]]
           rest == ItemIds(req[r].items) \ (Held(r) \cup {p})
<1>1. /\ Typed /\ Nobody \notin Requests /\ r \in Requests
      /\ RequestInv(r) /\ LockingInv(r)
  BY RequestKindsAssumption
     DEF IInv, Requests, RequestInv, CreateInv, DeleteInv
<1>2. req[r] \in Request /\ req[r].pc = "locking" /\ p \in ItemIds(req[r].items)
      /\ p \in Products
  BY <1>1, ItemIdsTyped DEF Typed, LocksProduct, LockingInv
<1>3. plock[p] = Nobody
  BY <1>2 DEF LocksProduct, Waiting
<1>4. state \in Request
  BY <1>1, <1>2 DEF Request, Typed, Quantities
<1>5. /\ state.order = req[r].order /\ state.items = req[r].items
      /\ state.read = req[r].read /\ state.reply = req[r].reply
      /\ state.seen = [req[r].seen EXCEPT ![p] = stock[p]]
  BY <1>2 DEF Request
<1>6. rest \in SUBSET Products
  BY ItemIdsTyped
<1>7. PICK next \in LocksNext(state, rest) : req' = [req EXCEPT ![r] = next]
  BY DEF LocksProduct
<1>8. plock' = [plock EXCEPT ![p] = r] /\ stock' = stock /\ orders' = orders /\ olock' = olock
  BY DEF LocksProduct
<1> HIDE DEF state, rest
<1>9. /\ next \in Request /\ next.pc \in Working
      /\ next.pc = "locking" => next.wants \in rest
      /\ next.pc = "ready" => rest = {}
      /\ next.order = req[r].order /\ next.items = req[r].items
      /\ next.read = req[r].read /\ next.reply = req[r].reply
      /\ next.seen = [req[r].seen EXCEPT ![p] = stock[p]]
  BY <1>4, <1>5, <1>6, AfterLocksNext
<1>10. req'[r] = next /\ req' \in [Requests -> Request]
       /\ \A q \in Requests \ {r} : req'[q] = req[q]
  BY <1>1, <1>7, <1>9 DEF Typed
<1>11. plock' \in [Products -> Requests \cup {Nobody}] /\ Held(r)' = Held(r) \cup {p}
       /\ \A q \in Requests \ {r} : LocksKept(q)
  BY <1>1, <1>2, <1>3, <1>8 DEF Typed, Held, LocksKept
<1>12. Typed'
  BY <1>1, <1>8, <1>10, <1>11 DEF Typed
<1>13. LockingInv(r)'
  <2>1. ItemIds(req'[r].items) = ItemIds(req[r].items)
    BY <1>9, <1>10
  <2>2. req'[r].pc = "locking" => req'[r].wants \in ItemIds(req[r].items)
    BY <1>9, <1>10 DEF rest
  <2>3. req'[r].pc = "ready" => ItemIds(req[r].items) \subseteq Held(r)'
    BY <1>9, <1>10, <1>11 DEF rest
  <2> QED BY <2>1, <2>2, <2>3 DEF LockingInv, ItemIds
<1>14. ASSUME r \in Creates PROVE CreateInv(r)'
  <2>1. CreateInv(r)
    BY <1>1, <1>14 DEF RequestInv
  <2>2. \A q \in Products : plock'[q] = r => req'[r].seen[q] = stock'[q]
    <3> SUFFICES ASSUME NEW q \in Products, plock'[q] = r
                 PROVE  req'[r].seen[q] = stock[q]
      BY <1>8
    <3>1. req[r].seen \in Quantities
      BY <1>2 DEF Request
    <3>2. CASE q = p
      BY <3>1, <3>2, <1>2, <1>9, <1>10 DEF Quantities
    <3>3. CASE q # p
      <4>1. plock[q] = r
        BY <3>3, <1>1, <1>8 DEF Typed
      <4> QED BY <3>1, <3>3, <4>1, <2>1, <1>9, <1>10 DEF Quantities, CreateInv
    <3> QED BY <3>2, <3>3
  <2> QED BY <2>1, <2>2, <1>2, <1>8, <1>9, <1>10, <1>13 DEF CreateInv, Working
<1>15. ASSUME r \in Deletes PROVE ChangeInv(r)' /\ DeleteInv(r)'
  <2>1. ChangeInv(r) /\ DeleteInv(r)
    BY <1>1, <1>15 DEF RequestInv, Changes
  <2> QED BY <2>1, <1>2, <1>8, <1>9, <1>10, <1>13 DEF ChangeInv, DeleteInv, Working
<1>16. RequestInv(r)'
  BY <1>14, <1>15, RequestKindsAssumption DEF RequestInv, Changes
<1> QED BY <1>1, <1>8, <1>10, <1>11, <1>12, <1>16, RowsUnchanged, Framed

-----------------------------------------------------------------------------
(***************************************************************************)
(* The other steps, one lemma for each kind.                               *)
(***************************************************************************)

\* A request moves on, and may take the lock of one order, which was free.
LEMMA MovesOn ==
    ASSUME IInv, NEW r \in Requests, NEW next \in Request,
           req' = [req EXCEPT ![r] = next], RequestInv(r)',
           stock' = stock, orders' = orders, plock' = plock,
           \/ olock' = olock
           \/ \E o \in Orders : olock[o] = Nobody /\ olock' = [olock EXCEPT ![o] = r]
    PROVE  IInv'
<1>1. Typed /\ Nobody \notin Requests
  BY RequestKindsAssumption DEF IInv
<1>2. req' \in [Requests -> Request] /\ \A q \in Requests \ {r} : req'[q] = req[q]
  BY <1>1 DEF Typed
<1>3. olock' \in [Orders -> Requests \cup {Nobody}]
      /\ \A q \in Requests \ {r} : LocksKept(q)
  BY <1>1 DEF Typed, LocksKept
<1>4. Typed'
  BY <1>1, <1>2, <1>3 DEF Typed
<1> QED BY <1>2, <1>3, <1>4, RowsUnchanged, Framed

LEMMA CreateBeginsKeeps ==
    ASSUME IInv, NEW r \in Creates, CreateBegins(r)
    PROVE  IInv'
<1>1. /\ r \in Requests /\ req[r] \in Request /\ CreateInv(r) /\ req[r].pc = "sent"
      /\ stock' = stock /\ orders' = orders
  BY DEF Requests, IInv, Typed, RequestInv, CreateBegins
<1>2. CASE Ends(r, "notFound")
  BY <1>1, <1>2, EndsWithoutWrites
<1>3. ASSUME NEW cart \in Carts, plock' = plock, olock' = olock,
             NEW next \in LocksNext([req[r] EXCEPT !.items = Merged(cart)],
                                    ItemIds(Merged(cart))),
             req' = [req EXCEPT ![r] = next]
      PROVE  IInv'
  <2> DEFINE state == [req[r] EXCEPT !.items = Merged(cart)]
             need == ItemIds(Merged(cart))
  <2>1. Merged(cart) \in Baskets /\ Merged(cart) \in Quantities
    BY <1>3, BasketsTyped DEF Baskets
  <2>2. /\ state \in Request /\ state.order = req[r].order
        /\ state.items = Merged(cart) /\ state.reply = req[r].reply
        /\ state.seen = req[r].seen
    BY <1>1, <2>1 DEF Request
  <2>3. need \in SUBSET Products
    BY ItemIdsTyped
  <2>4. next \in LocksNext(state, need)
    BY <1>3
  <2> HIDE DEF state, need
  <2>5. /\ next \in Request /\ next.pc \in Working
        /\ next.pc = "locking" => next.wants \in need
        /\ next.pc = "ready" => need = {}
        /\ next.order = req[r].order /\ next.items = Merged(cart)
        /\ next.reply = req[r].reply /\ next.seen = req[r].seen
    BY <2>2, <2>3, <2>4, AfterLocksNext
  <2>6. req'[r] = next
    BY <1>1, <1>3 DEF IInv, Typed
  <2>7. LockingInv(r)'
    BY <2>5, <2>6 DEF LockingInv, need, ItemIds
  <2>8. CreateInv(r)'
    BY <1>1, <1>3, <2>1, <2>5, <2>6, <2>7 DEF CreateInv, Working
  <2>9. RequestInv(r)'
    BY <2>8, RequestKindsAssumption DEF RequestInv, Changes
  <2> QED BY <1>1, <1>3, <2>5, <2>9, MovesOn
<1> QED BY <1>2, <1>3 DEF CreateBegins

LEMMA QueuesKeeps ==
    ASSUME IInv, NEW r \in Changes, NEW o \in Orders, NEW s \in Status, Queues(r, o, s)
    PROVE  IInv'
<1> DEFINE next == [Fresh EXCEPT !.pc = "queued", !.order = o, !.status = s]
<1>1. Fresh \in Request
  BY NothingTyped DEF Fresh, Request, Status
<1>2. next \in Request /\ next.pc = "queued" /\ next.order = o
  BY <1>1 DEF Request
<1>3. r \in Requests /\ req' = [req EXCEPT ![r] = next] /\ stock' = stock
      /\ orders' = orders /\ plock' = plock /\ olock' = olock
  BY DEF Queues, Requests, Changes
<1> HIDE DEF next
<1>4. req'[r] = next
  BY <1>3 DEF IInv, Typed
<1>5. RequestInv(r)'
  BY <1>2, <1>4, RequestKindsAssumption
     DEF RequestInv, ChangeInv, DeleteInv, LockingInv, Working, Changes
<1> QED BY <1>2, <1>3, <1>5, MovesOn

\* The order a queued request names, once the row is granted.
LEMMA GrantedOrder ==
    ASSUME IInv, NEW r \in Changes, Granted(r)
    PROVE  /\ r \in Requests /\ req[r] \in Request /\ ChangeInv(r)
           /\ req[r].order \in Orders /\ olock[req[r].order] = Nobody
           /\ orders[req[r].order] \in Row /\ OrderInv(req[r].order)
<1>1. r \in Requests /\ req[r] \in Request /\ ChangeInv(r) /\ req[r].pc = "queued"
  BY DEF IInv, Typed, Requests, Changes, RequestInv, Granted
<1>2. req[r].order \in Orders
  BY <1>1 DEF ChangeInv
<1> QED BY <1>1, <1>2 DEF Granted, IInv, Typed

LEMMA PatchLocksKeeps ==
    ASSUME IInv, NEW r \in Patches, PatchLocks(r)
    PROVE  IInv'
<1> DEFINE o == req[r].order
           next == [req[r] EXCEPT !.pc = "ready", !.read = orders[o].status]
<1>1. /\ r \in Requests /\ req[r] \in Request /\ o \in Orders
      /\ olock[o] = Nobody /\ orders[o] \in Row /\ orders[o] # NoOrder
  BY GrantedOrder DEF PatchLocks, Changes
<1>2. next \in Request /\ next.pc = "ready" /\ next.order = o
      /\ next.read = orders[o].status
  BY <1>1 DEF Request, Row
<1>3. req' = [req EXCEPT ![r] = next] /\ stock' = stock /\ orders' = orders
      /\ plock' = plock /\ olock' = [olock EXCEPT ![o] = r]
  BY DEF PatchLocks
<1> HIDE DEF next
<1>4. req'[r] = next /\ olock'[o] = r
  BY <1>1, <1>3 DEF IInv, Typed
<1>5. ChangeInv(r)'
  BY <1>1, <1>2, <1>3, <1>4 DEF ChangeInv, Working, NoOrder, Nothing
<1>6. RequestInv(r)'
  BY <1>2, <1>4, <1>5, RequestKindsAssumption DEF RequestInv, Changes
<1> QED BY <1>1, <1>2, <1>3, <1>6, MovesOn

LEMMA DeleteLocksKeeps ==
    ASSUME IInv, NEW r \in Deletes, DeleteLocks(r)
    PROVE  IInv'
<1> DEFINE o == req[r].order
           items == orders[o].items
           state == [req[r] EXCEPT !.read = "pending", !.items = items]
<1>1. /\ r \in Requests /\ req[r] \in Request /\ o \in Orders
      /\ olock[o] = Nobody /\ orders[o] \in Row /\ orders[o].status = "pending"
  BY GrantedOrder DEF DeleteLocks, Changes
<1>2. /\ state \in Request /\ state.order = o /\ state.items = items
      /\ state.read = "pending"
  BY <1>1 DEF Request, Row, Status, OrderStatus
<1>3. ItemIds(items) \in SUBSET Products
  BY ItemIdsTyped
<1>4. PICK next \in LocksNext(state, ItemIds(items)) : req' = [req EXCEPT ![r] = next]
  BY DEF DeleteLocks
<1>5. stock' = stock /\ orders' = orders /\ plock' = plock
      /\ olock' = [olock EXCEPT ![o] = r]
  BY DEF DeleteLocks
<1> HIDE DEF state
<1>6. /\ next \in Request /\ next.pc \in Working
      /\ next.pc = "locking" => next.wants \in ItemIds(items)
      /\ next.pc = "ready" => ItemIds(items) = {}
      /\ next.order = o /\ next.items = items /\ next.read = "pending"
  BY <1>2, <1>3, <1>4, AfterLocksNext
<1>7. req'[r] = next /\ olock'[o] = r
  BY <1>1, <1>4, <1>5 DEF IInv, Typed
<1>8. LockingInv(r)'
  BY <1>6, <1>7 DEF LockingInv, ItemIds
<1>9. orders[o] # NoOrder
  BY <1>1 DEF NoOrder
<1>10. ChangeInv(r)' /\ DeleteInv(r)'
  BY <1>1, <1>5, <1>6, <1>7, <1>8, <1>9
     DEF ChangeInv, DeleteInv, Working, NoOrder, Nothing
<1>11. RequestInv(r)'
  BY <1>10, RequestKindsAssumption DEF RequestInv, Changes
<1> QED BY <1>1, <1>4, <1>5, <1>6, <1>11, MovesOn

-----------------------------------------------------------------------------
(***************************************************************************)
(* The commits.                                                            *)
(***************************************************************************)

\* A transaction ready to change the stock holds every product it changes.
LEMMA HoldsWhatItChanges ==
    ASSUME IInv, NEW r \in Creates \cup Deletes, req[r].pc = "ready",
           ~Unknown(req[r].items)
    PROVE  \A p \in Products : plock[p] # r => req[r].items[p] = 0
<1>1. r \in Requests /\ LockingInv(r) /\ req[r].items \in Quantities
  BY DEF IInv, Typed, Requests, RequestInv, CreateInv, DeleteInv, Request
<1>2. ItemIds(req[r].items) \subseteq Held(r)
  BY <1>1 DEF LockingInv
<1> QED BY <1>1, <1>2 DEF ItemIds, Held, Unknown, Quantities

\* The CHECK constraint and the 404 for unknown ids: the stock covers the order.
LEMMA CreateIsCovered ==
    ASSUME IInv, NEW r \in Creates, CreateCommits(r)
    PROVE  /\ req[r].items \in Baskets /\ req[r].items \in Quantities
           /\ \A p \in Products : req[r].items[p] <= stock[p]
           /\ orders[r] = NoOrder
<1>1. CreateInv(r) /\ req[r] \in Request /\ stock \in Quantities
  BY DEF IInv, Typed, Requests, RequestInv
<1>2. req[r].items \in Baskets /\ req[r].items \in Quantities /\ orders[r] = NoOrder
  BY <1>1 DEF CreateInv, CreateCommits, Request, Working
<1>3. \A p \in Products : req[r].items[p] <= stock[p]
  BY <1>1, <1>2, CatalogAssumption DEF CreateCommits, Covered, Unknown, Quantities
<1> QED BY <1>2, <1>3

LEMMA CreateCommitsKeeps ==
    ASSUME IInv, NEW r \in Creates, CreateCommits(r)
    PROVE  IInv'
<1> DEFINE items == req[r].items
           row == [status |-> "pending", items |-> items]
<1>1. /\ r \in Requests /\ r \in Orders /\ Typed /\ Ends(r, "ok")
      /\ req[r].pc = "ready" /\ ~Unknown(items)
      /\ stock' = [p \in Products |-> stock[p] - items[p]]
      /\ orders' = [orders EXCEPT ![r] = row]
  BY DEF CreateCommits, Requests, Orders, IInv
<1>2. /\ items \in Baskets /\ items \in Quantities /\ orders[r] = NoOrder
      /\ \A p \in Products : items[p] <= stock[p]
  BY CreateIsCovered
<1>3. \A p \in Products : plock[p] # r => items[p] = 0
  BY <1>1, HoldsWhatItChanges
<1>4. row \in Row /\ row.status \in OrderStatus /\ row.items = items
  BY <1>2 DEF Row, Status, OrderStatus
<1> HIDE DEF items, row
<1>5. stock' \in Quantities
  BY <1>1, <1>2 DEF Typed, Quantities
<1>6. orders' \in [Orders -> Row] /\ orders'[r] = row
      /\ \A o \in Orders \ {r} : orders'[o] = orders[o]
  BY <1>1, <1>4 DEF Typed
<1>7. ASSUME NEW o \in Orders PROVE OrderInv(o)'
  <2>1. CASE o = r
    BY <2>1, <1>1, <1>2, <1>4, <1>6 DEF OrderInv, Unknown
  <2>2. CASE o # r
    <3>1. OrderInv(o)
      BY DEF IInv
    <3> QED BY <3>1, <2>2, <1>6 DEF OrderInv, Unknown
  <2> QED BY <2>1, <2>2
<1>8. ASSUME NEW q \in Requests \ {r} PROVE RowsKept(q)
  <2>1. \A p \in Products : plock[p] = q => stock'[p] = stock[p]
    BY <1>1, <1>3 DEF Typed, Quantities
  <2>2. \A o \in Orders : orders[o] # NoOrder => orders'[o] = orders[o]
    BY <1>2, <1>6
  <2>3. q \in Creates => orders'[q] = orders[q]
    BY <1>6 DEF Orders
  <2> QED BY <2>1, <2>2, <2>3 DEF RowsKept
<1>9. Typed'
  BY <1>1, <1>5, <1>6, EndsFrame DEF Typed
<1> QED BY <1>1, <1>7, <1>8, <1>9, EndsFrame, Framed

\* What a PATCH or DELETE that is ready has locked.
LEMMA ReadyOrder ==
    ASSUME IInv, NEW r \in Changes, req[r].pc = "ready"
    PROVE  /\ r \in Requests /\ req[r] \in Request
           /\ req[r].order \in Orders /\ olock[req[r].order] = r
           /\ orders[req[r].order] \in Row
           /\ orders[req[r].order].status = req[r].read
           /\ req[r].read \in OrderStatus
           /\ orders[req[r].order].items \in Baskets
           /\ ~Unknown(orders[req[r].order].items)
<1>1. r \in Requests /\ req[r] \in Request /\ ChangeInv(r)
  BY DEF IInv, Typed, Requests, Changes, RequestInv
<1>2. /\ req[r].order \in Orders /\ olock[req[r].order] = r
      /\ orders[req[r].order] # NoOrder /\ orders[req[r].order].status = req[r].read
  BY <1>1 DEF ChangeInv, Working
<1>3. OrderInv(req[r].order) /\ orders[req[r].order] \in Row
  BY <1>2 DEF IInv, Typed
<1> QED BY <1>1, <1>2, <1>3 DEF OrderInv

LEMMA TransitionsTyped ==
    \A s \in OrderStatus : ALLOWED_TRANSITIONS[s] \subseteq OrderStatus
  BY DEF OrderStatus, ALLOWED_TRANSITIONS

LEMMA PatchCommitsKeeps ==
    ASSUME IInv, NEW r \in Patches, PatchCommits(r)
    PROVE  IInv'
<1> DEFINE o == req[r].order
           row == [orders[o] EXCEPT !.status = req[r].status]
<1>1. /\ Typed /\ r \in Requests /\ o \in Orders /\ olock[o] = r /\ orders[o] \in Row
      /\ orders[o].status \in OrderStatus /\ req[r].read \in OrderStatus
      /\ orders[o].items \in Baskets /\ ~Unknown(orders[o].items)
  BY ReadyOrder DEF PatchCommits, Changes, IInv
<1>2. /\ Ends(r, "ok") /\ stock' = stock /\ orders' = [orders EXCEPT ![o] = row]
      /\ req[r].status \in OrderStatus
  BY <1>1, TransitionsTyped DEF PatchCommits
<1>3. /\ row \in Row /\ row.status \in OrderStatus /\ row.items = orders[o].items
  BY <1>1, <1>2 DEF Row, Status
<1>4. orders[o] # NoOrder /\ Nobody \notin Requests
  BY <1>1, RequestKindsAssumption DEF NoOrder, OrderStatus
<1> HIDE DEF row
<1>5. orders' \in [Orders -> Row] /\ orders'[o] = row
      /\ \A k \in Orders \ {o} : orders'[k] = orders[k]
  BY <1>1, <1>2, <1>3 DEF Typed
<1>6. ASSUME NEW k \in Orders PROVE OrderInv(k)'
  <2>1. CASE k = o
    BY <2>1, <1>1, <1>3, <1>5 DEF OrderInv, Unknown
  <2>2. CASE k # o
    <3>1. OrderInv(k)
      BY DEF IInv
    <3> QED BY <3>1, <2>2, <1>5 DEF OrderInv, Unknown
  <2> QED BY <2>1, <2>2
<1>7. ASSUME NEW q \in Requests \ {r} PROVE RowsKept(q)
  BY <1>1, <1>2, <1>4, <1>5 DEF RowsKept, Orders
<1>8. Typed'
  BY <1>1, <1>2, <1>5, EndsFrame DEF Typed
<1> QED BY <1>1, <1>2, <1>6, <1>7, <1>8, EndsFrame, Framed

\* The restock is of the order as it is, and the deleter holds its products.
LEMMA DeleteReads ==
    ASSUME IInv, NEW r \in Deletes, DeleteCommits(r)
    PROVE  /\ req[r].items = orders[req[r].order].items
           /\ orders[req[r].order].status = "pending"
           /\ req[r].items \in Quantities /\ ~Unknown(req[r].items)
<1>1. req[r].pc = "ready" /\ DeleteInv(r)
  BY DEF DeleteCommits, IInv, RequestInv, Requests
<1>2. req[r].items = orders[req[r].order].items /\ req[r].read = "pending"
  BY <1>1 DEF DeleteInv, Working
<1>3. /\ orders[req[r].order].status = req[r].read
      /\ req[r] \in Request /\ ~Unknown(orders[req[r].order].items)
  BY <1>1, ReadyOrder DEF Changes
<1> QED BY <1>2, <1>3 DEF Request

LEMMA DeleteCommitsKeeps ==
    ASSUME IInv, NEW r \in Deletes, DeleteCommits(r)
    PROVE  IInv'
<1> DEFINE o == req[r].order
           items == req[r].items
<1>1. /\ Typed /\ req[r].pc = "ready" /\ Ends(r, "ok")
      /\ stock' = [p \in Products |-> stock[p] + items[p]]
      /\ orders' = [orders EXCEPT ![o] = NoOrder]
  BY DEF DeleteCommits, IInv
<1>2. r \in Requests /\ o \in Orders /\ olock[o] = r
  BY <1>1, ReadyOrder DEF Changes
<1>3. /\ items \in Quantities /\ ~Unknown(items) /\ orders[o].status = "pending"
  BY DeleteReads
<1>4. \A p \in Products : plock[p] # r => items[p] = 0
  BY <1>1, <1>3, HoldsWhatItChanges
<1>5. NoOrder \in Row
  BY NothingTyped DEF NoOrder, Row, Status
<1> HIDE DEF items
<1>6. stock' \in Quantities
  BY <1>1, <1>3 DEF Typed, Quantities
<1>7. orders' \in [Orders -> Row] /\ orders'[o] = NoOrder
      /\ \A k \in Orders \ {o} : orders'[k] = orders[k]
  BY <1>1, <1>2, <1>5 DEF Typed
<1>8. ASSUME NEW k \in Orders PROVE OrderInv(k)'
  <2>1. CASE k = o
    BY <2>1, <1>7 DEF OrderInv, NoOrder, Nothing
  <2>2. CASE k # o
    <3>1. OrderInv(k)
      BY DEF IInv
    <3> QED BY <3>1, <2>2, <1>7 DEF OrderInv, NoOrder, Nothing, Unknown
  <2> QED BY <2>1, <2>2
<1>9. ASSUME NEW q \in Requests \ {r} PROVE RowsKept(q)
  <2>1. \A p \in Products : plock[p] = q => stock'[p] = stock[p]
    BY <1>1, <1>4 DEF Typed, Quantities
  <2>2. \A k \in Orders : olock[k] = q => orders'[k] = orders[k]
    BY <1>2, <1>7
  <2>3. q \in Creates /\ orders[q] = NoOrder => orders'[q] = NoOrder
    BY <1>7 DEF Orders
  <2> QED BY <2>1, <2>2, <2>3 DEF RowsKept
<1>10. Typed'
  BY <1>1, <1>2, <1>6, <1>7, EndsFrame DEF Typed
<1> QED BY <1>1, <1>2, <1>8, <1>9, <1>10, EndsFrame, Framed

-----------------------------------------------------------------------------
(***************************************************************************)
(* The theorems.                                                           *)
(***************************************************************************)

\* A step that only answers.
Answers(r) ==
    \/ CreateRefuses(r) \/ CreateAborts(r) \/ FindsNoOrder(r) \/ PatchRefuses(r)
    \/ DeleteRefuses(r) \/ TransactionFails(r) \/ DeadlockAborts(r)

LEMMA AnswersKeeps ==
    ASSUME IInv, NEW r \in Requests, Answers(r)
    PROVE  IInv' /\ stock' = stock /\ orders' = orders
<1>1. stock' = stock /\ orders' = orders
  BY DEF Answers, CreateRefuses, CreateAborts, FindsNoOrder, PatchRefuses,
         DeleteRefuses, TransactionFails, DeadlockAborts
<1>2. \E reply \in {"ok", "notFound", "conflict", "error"} : Ends(r, reply)
  <2>1. CASE PatchRefuses(r)
    BY <2>1 DEF PatchRefuses
  <2> QED BY <2>1 DEF Answers, CreateRefuses, CreateAborts, FindsNoOrder,
                      DeleteRefuses, TransactionFails, DeadlockAborts
<1> QED BY <1>1, <1>2, EndsWithoutWrites

\* The cases of Next, sorted by what they write.
LEMMA NextCases ==
    ASSUME Next
    PROVE  \/ \E r \in Requests : Answers(r)
           \/ \E r \in Creates : CreateBegins(r) \/ LocksProduct(r) \/ CreateCommits(r)
           \/ \E r \in Patches : PatchBegins(r) \/ PatchLocks(r) \/ PatchCommits(r)
           \/ \E r \in Deletes : \/ DeleteBegins(r) \/ DeleteLocks(r)
                                 \/ LocksProduct(r) \/ DeleteCommits(r)
  BY DEF Next, CreateStep, PatchStep, DeleteStep, Answers, Requests

LEMMA InitKeeps == Init => IInv
<1> SUFFICES ASSUME Init PROVE IInv
  OBVIOUS
<1>1. Fresh \in Request /\ Fresh.pc = "sent" /\ Fresh.order = Nobody
      /\ Fresh.reply = "none"
  BY NothingTyped DEF Fresh, Request, Status
<1>2. NoOrder \in Row
  BY NothingTyped DEF NoOrder, Row, Status
<1>3. Typed
  BY <1>1, <1>2, CatalogAssumption DEF Init, Typed, Quantities
<1>4. \A o \in Orders : OrderInv(o)
  BY DEF Init, OrderInv
<1>5. ASSUME NEW r \in Requests PROVE RequestInv(r)
  <2>1. req[r] = Fresh /\ \A p \in Products : plock[p] # r
    BY RequestKindsAssumption DEF Init
  <2>2. LockingInv(r)
    BY <1>1, <2>1 DEF LockingInv
  <2>3. r \in Creates => CreateInv(r)
    BY <1>1, <2>1, <2>2 DEF CreateInv, Init, Orders, Working
  <2>4. r \in Changes => ChangeInv(r) /\ DeleteInv(r)
    BY <1>1, <2>1, <2>2 DEF ChangeInv, DeleteInv, Working
  <2> QED BY <1>1, <2>1, <2>3, <2>4 DEF RequestInv, Changes
<1> QED BY <1>3, <1>4, <1>5 DEF IInv

LEMMA NextKeeps == IInv /\ [Next]_orderVars => IInv'
<1> SUFFICES ASSUME IInv, [Next]_orderVars PROVE IInv'
  OBVIOUS
<1>1. CASE UNCHANGED orderVars
  BY <1>1 DEF orderVars, IInv, Typed, OrderInv, RequestInv, CreateInv, ChangeInv,
              DeleteInv, LockingInv, Held, ItemIds, Unknown
<1>2. ASSUME NEW r \in Requests, Answers(r) PROVE IInv'
  BY <1>2, AnswersKeeps
<1>3. ASSUME NEW r \in Creates,
             CreateBegins(r) \/ LocksProduct(r) \/ CreateCommits(r)
      PROVE  IInv'
  BY <1>3, CreateBeginsKeeps, LocksProductKeeps, CreateCommitsKeeps
<1>4. ASSUME NEW r \in Patches, PatchBegins(r) \/ PatchLocks(r) \/ PatchCommits(r)
      PROVE  IInv'
  <2>1. CASE PatchBegins(r)
    <3>1. PICK o \in Orders, s \in OrderStatus : Queues(r, o, s)
      BY <2>1 DEF PatchBegins
    <3> QED BY <3>1, QueuesKeeps DEF Changes, Status
  <2> QED BY <1>4, <2>1, PatchLocksKeeps, PatchCommitsKeeps
<1>5. ASSUME NEW r \in Deletes,
             DeleteBegins(r) \/ DeleteLocks(r) \/ LocksProduct(r) \/ DeleteCommits(r)
      PROVE  IInv'
  <2>1. CASE DeleteBegins(r)
    <3>1. PICK o \in Orders : Queues(r, o, "absent")
      BY <2>1 DEF DeleteBegins
    <3> QED BY <3>1, QueuesKeeps DEF Changes, Status
  <2> QED BY <1>5, <2>1, DeleteLocksKeeps, LocksProductKeeps, DeleteCommitsKeeps
<1>6. CASE Next
  BY <1>2, <1>3, <1>4, <1>5, <1>6, NextCases
<1> QED BY <1>1, <1>6

\* Two-phase locking: at every moment a transaction holds the lock of every row
\* it has read and will write, and each such row is as it was read.
THEOREM StateInvariant == Spec => []IInv
  BY InitKeeps, NextKeeps, PTL DEF Spec

LEMMA Current == IInv => ReadsStayTrue
<1> SUFFICES ASSUME IInv, NEW r \in Requests
             PROVE  /\ req[r].pc = "ready" /\ req[r].order = Nobody
                         => \A p \in ItemIds(req[r].items) : req[r].seen[p] = stock[p]
                    /\ req[r].pc \in {"locking", "ready"} /\ req[r].order # Nobody
                         => orders[req[r].order].status = req[r].read
  BY DEF ReadsStayTrue
<1>1. RequestInv(r)
  BY DEF IInv
<1>2. CASE r \in Creates
  <2>1. CreateInv(r)
    BY <1>1, <1>2 DEF RequestInv
  <2> QED BY <2>1, CatalogAssumption DEF CreateInv, LockingInv, Held, ItemIds
<1>3. CASE r \in Changes
  <2>1. ChangeInv(r)
    BY <1>1, <1>3 DEF RequestInv
  <2> QED BY <2>1, RequestKindsAssumption DEF ChangeInv, Working, Orders, Requests
<1> QED BY <1>2, <1>3 DEF Requests, Changes

\* No decision of order.service.ts rests on a row another transaction has since
\* changed.
THEOREM DecisionsAreCurrent == Spec => []ReadsStayTrue
  BY StateInvariant, Current, PTL

\* Every step is the abstract step of the transaction that commits in it, or
\* changes neither stock nor orders.
LEMMA StepIsSerial == IInv /\ [Next]_orderVars => [Serial!Next]_<<stock, orders>>
<1> SUFFICES ASSUME IInv, Next PROVE Serial!Next \/ UNCHANGED <<stock, orders>>
  BY DEF orderVars
<1>1. ASSUME NEW r \in Creates, CreateCommits(r) PROVE Serial!Next
  <2>1. Serial!Place(r)
    BY <1>1, CreateIsCovered DEF Serial!Place, CreateCommits
  <2> QED BY <2>1 DEF Serial!Next, Orders
<1>2. ASSUME NEW r \in Patches, PatchCommits(r) PROVE Serial!Next
  <2>1. /\ req[r].order \in Orders /\ orders[req[r].order].status = req[r].read
        /\ req[r].read \in OrderStatus
    BY <1>2, ReadyOrder DEF PatchCommits, Changes
  <2>2. orders[req[r].order] # NoOrder
    BY <2>1 DEF NoOrder, OrderStatus
  <2>3. Serial!Move(req[r].order)
    BY <1>2, <2>1, <2>2 DEF Serial!Move, PatchCommits
  <2> QED BY <2>1, <2>3 DEF Serial!Next
<1>3. ASSUME NEW r \in Deletes, DeleteCommits(r) PROVE Serial!Next
  <2>1. req[r].order \in Orders
    BY <1>3, ReadyOrder DEF DeleteCommits, Changes
  <2>2. Serial!Remove(req[r].order)
    BY <1>3, DeleteReads DEF Serial!Remove, DeleteCommits
  <2> QED BY <2>1, <2>2 DEF Serial!Next
<1>4. ASSUME NEW r \in Requests, Answers(r) PROVE UNCHANGED <<stock, orders>>
  BY <1>4, AnswersKeeps
<1>5. ASSUME NEW r \in Requests,
             \/ CreateBegins(r) \/ LocksProduct(r) \/ PatchBegins(r) \/ PatchLocks(r)
             \/ DeleteBegins(r) \/ DeleteLocks(r)
      PROVE  UNCHANGED <<stock, orders>>
  BY <1>5 DEF CreateBegins, LocksProduct, PatchBegins, PatchLocks, DeleteBegins,
              DeleteLocks, Queues
<1> QED BY <1>1, <1>2, <1>3, <1>4, <1>5, NextCases DEF Requests

\* The locked, interleaved transactions implement the abstract inventory.
THEOREM Serializable == Spec => ImplementsInventory
<1>1. Init => Serial!Init
  BY DEF Init, Serial!Init
<1>2. IInv /\ [Next]_orderVars => [Serial!Next]_(Serial!inventoryVars)
  BY StepIsSerial DEF Serial!inventoryVars
<1> QED BY <1>1, <1>2, StateInvariant, PTL DEF Spec, ImplementsInventory, Serial!Spec

\* Ordered follows the one row that a write changes.
LEMMA OrderedFollows ==
    ASSUME orders \in [Orders -> Row], orders' \in [Orders -> Row], NEW p \in Products,
           NEW o \in Orders, \A k \in Orders \ {o} : orders'[k] = orders[k]
    PROVE  /\ orders[o].items[p] \in Nat /\ orders'[o].items[p] \in Nat
           /\ Ordered(p) \in Nat
           /\ Ordered(p)' = Ordered(p) + (orders'[o].items[p] - orders[o].items[p])
<1> DEFINE f == [k \in Orders |-> orders[k].items[p]]
           g == [k \in Orders |-> orders'[k].items[p]]
<1>1. IsFiniteSet(Orders)
  BY RequestKindsAssumption DEF Orders
<1>2. \A k \in Orders : f[k] \in Nat /\ g[k] \in Nat /\ (k # o => g[k] = f[k])
  <2> SUFFICES ASSUME NEW k \in Orders
               PROVE  f[k] \in Nat /\ g[k] \in Nat /\ (k # o => g[k] = f[k])
    OBVIOUS
  <2>1. orders[k] \in Row /\ orders'[k] \in Row
    OBVIOUS
  <2> QED BY <2>1 DEF Row, Quantities
<1>3. f[o] = orders[o].items[p] /\ g[o] = orders'[o].items[p]
  OBVIOUS
<1>4. Ordered(p) = SumFunctionOnSet(f, Orders) /\ Ordered(p)' = SumFunctionOnSet(g, Orders)
  BY DEF Ordered, Orders
<1> HIDE DEF f, g
<1> QED BY <1>1, <1>2, <1>3, <1>4, SumTyped, SumChanges

LEMMA InitConserves == Init => StockConserved
<1> SUFFICES ASSUME Init, NEW p \in Products
             PROVE  stock[p] + Ordered(p) = InitialStock[p]
  BY DEF StockConserved
<1> DEFINE f == [o \in Orders |-> orders[o].items[p]]
<1>1. \A o \in Orders : f[o] = 0
  BY DEF Init, NoOrder, Nothing
<1>2. IsFiniteSet(Orders)
  BY RequestKindsAssumption DEF Orders
<1>3. SumFunctionOnSet(f, Orders) = 0
  <2> HIDE DEF f
  <2> QED BY <1>1, <1>2, SumOfZeros
<1>4. stock[p] = InitialStock[p] /\ InitialStock[p] \in Nat
  BY CatalogAssumption DEF Init
<1> QED BY <1>3, <1>4 DEF Ordered

\* Each abstract step moves units between the stock and one order.
LEMMA StepConserves ==
    ASSUME IInv, IInv', StockConserved, Serial!Next
    PROVE  StockConserved'
<1> SUFFICES ASSUME NEW p \in Products
             PROVE  (stock[p] + Ordered(p) = InitialStock[p])'
  BY DEF StockConserved
<1>1. /\ orders \in [Orders -> Row] /\ orders' \in [Orders -> Row]
      /\ stock[p] \in Nat /\ stock'[p] \in Nat /\ InitialStock[p] \in Nat
      /\ stock[p] + Ordered(p) = InitialStock[p]
  BY CatalogAssumption DEF IInv, Typed, Quantities, StockConserved
<1>2. PICK o \in Orders : Serial!Place(o) \/ Serial!Move(o) \/ Serial!Remove(o)
  BY DEF Serial!Next
<1>3. /\ \A k \in Orders \ {o} : orders'[k] = orders[k]
      /\ stock'[p] - stock[p] = orders[o].items[p] - orders'[o].items[p]
  <2>1. orders[o] \in Row /\ orders'[o] \in Row
        /\ orders[o].items[p] \in Nat /\ orders'[o].items[p] \in Nat
    BY <1>1 DEF Row, Quantities
  <2>2. CASE Serial!Place(o)
    <3>1. PICK items \in Baskets :
            /\ stock' = [q \in Products |-> stock[q] - items[q]]
            /\ orders' = [orders EXCEPT ![o] = [status |-> "pending", items |-> items]]
      BY <2>2 DEF Serial!Place
    <3>2. orders[o].items[p] = 0
      BY <2>2 DEF Serial!Place, NoOrder, Nothing
    <3>3. items[p] \in Nat
      BY BasketsTyped DEF Quantities
    <3>4. orders'[o].items = items /\ stock'[p] = stock[p] - items[p]
          /\ \A k \in Orders \ {o} : orders'[k] = orders[k]
      BY <3>1, <1>1
    <3> QED BY <3>2, <3>3, <3>4, <1>1
  <2>3. CASE Serial!Move(o)
    <3>1. PICK s : orders' = [orders EXCEPT ![o].status = s]
      BY <2>3 DEF Serial!Move
    <3>2. orders'[o].items = orders[o].items /\ stock' = stock
          /\ \A k \in Orders \ {o} : orders'[k] = orders[k]
      BY <3>1, <1>1, <2>1, <2>3 DEF Row, Serial!Move
    <3> QED BY <3>2, <2>1, <1>1
  <2>4. CASE Serial!Remove(o)
    <3>1. /\ stock'[p] = stock[p] + orders[o].items[p]
          /\ orders'[o] = NoOrder /\ \A k \in Orders \ {o} : orders'[k] = orders[k]
      BY <2>4, <1>1 DEF Serial!Remove
    <3>2. orders'[o].items[p] = 0
      BY <3>1 DEF NoOrder, Nothing
    <3> QED BY <3>1, <3>2, <2>1, <1>1
  <2> QED BY <1>2, <2>2, <2>3, <2>4
<1>4. /\ orders[o].items[p] \in Nat /\ orders'[o].items[p] \in Nat /\ Ordered(p) \in Nat
      /\ Ordered(p)' = Ordered(p) + (orders'[o].items[p] - orders[o].items[p])
  BY <1>1, <1>3, OrderedFollows
<1> QED BY <1>1, <1>3, <1>4

LEMMA NextConserves == IInv /\ StockConserved /\ [Next]_orderVars => StockConserved'
<1> SUFFICES ASSUME IInv, StockConserved, [Next]_orderVars PROVE StockConserved'
  OBVIOUS
<1>1. IInv' /\ [Serial!Next]_<<stock, orders>>
  BY NextKeeps, StepIsSerial
<1>2. CASE UNCHANGED <<stock, orders>>
  BY <1>2 DEF StockConserved, Ordered
<1> QED BY <1>1, <1>2, StepConserves

\* Nothing is sold twice and nothing gets lost, whatever is ordered, cancelled
\* or rolled back: what is in stock and in the orders is what there was.
THEOREM StockIsConserved == Spec => []StockConserved
  BY InitConserves, NextConserves, StateInvariant, PTL DEF Spec

\* So the stock stays between zero, which the locks see to, and what there was.
LEMMA TypesFollow == IInv /\ StockConserved => OrderTypeOK
<1> SUFFICES ASSUME IInv, StockConserved PROVE OrderTypeOK
  OBVIOUS
<1>1. Typed /\ orders \in [Orders -> Row]
  BY DEF IInv, Typed
<1>2. ASSUME NEW p \in Products PROVE stock[p] \in 0 .. InitialStock[p]
  <2> DEFINE f == [o \in Orders |-> orders[o].items[p]]
  <2>1. \A o \in Orders : f[o] \in Nat
    <3> SUFFICES ASSUME NEW o \in Orders PROVE f[o] \in Nat
      OBVIOUS
    <3>1. orders[o] \in Row
      BY <1>1
    <3> QED BY <3>1 DEF Row, Quantities
  <2>2. IsFiniteSet(Orders)
    BY RequestKindsAssumption DEF Orders
  <2>3. SumFunctionOnSet(f, Orders) \in Nat
    <3> HIDE DEF f
    <3> QED BY <2>1, <2>2, SumTyped
  <2>4. stock[p] \in Nat /\ InitialStock[p] \in Nat
        /\ stock[p] + SumFunctionOnSet(f, Orders) = InitialStock[p]
    BY <1>1, CatalogAssumption DEF Typed, Quantities, StockConserved, Ordered
  <2> QED BY <2>3, <2>4
<1>3. ASSUME NEW o \in Orders
      PROVE  orders[o] \in [status : OrderStatus, items : Baskets] \cup {NoOrder}
  <2>1. orders[o] \in Row /\ OrderInv(o)
    BY <1>1 DEF IInv
  <2> QED BY <2>1 DEF OrderInv, Row
<1>4. ASSUME NEW r \in Requests
      PROVE  req[r].pc \in {"sent", "queued", "locking", "ready", "done"}
  <2>1. req[r] \in Request
    BY <1>1 DEF Typed
  <2> QED BY <2>1 DEF Request
<1> QED BY <1>1, <1>2, <1>3, <1>4 DEF OrderTypeOK, Typed

\* Stock is never negative and never above what there was, and every row is
\* an order of known products in a known status.
THEOREM OrdersTyped == Spec => []OrderTypeOK
  BY StateInvariant, StockIsConserved, TypesFollow, PTL

\* A refusal for lack of stock comes from CreateRefuses, and the stock it saw is
\* the stock.
LEMMA RefusalIsShort ==
    ASSUME IInv, Next, NEW r \in Creates, req[r].pc = "ready",
           req'[r].reply = "conflict"
    PROVE  \E p \in Products : stock[p] < req[r].items[p]
<1>1. /\ r \in Requests /\ CreateInv(r) /\ req[r] \in Request /\ stock \in Quantities
      /\ req \in [Requests -> Request]
  BY DEF IInv, Typed, Requests, RequestInv
<1>2. req[r].reply = "none" /\ ItemIds(req[r].items) \subseteq Held(r)
  BY <1>1 DEF CreateInv, LockingInv
<1>3. ASSUME Short(req[r].seen, req[r].items)
      PROVE  \E p \in Products : stock[p] < req[r].items[p]
  <2>1. PICK p \in Catalog : req[r].seen[p] < req[r].items[p]
    BY <1>3 DEF Short
  <2>2. p \in Products /\ req[r].seen[p] \in Nat /\ req[r].items[p] \in Nat
    BY <1>1, CatalogAssumption DEF Request, Quantities
  <2>3. p \in Held(r)
    BY <1>2, <2>1, <2>2 DEF ItemIds
  <2>4. req[r].seen[p] = stock[p]
    BY <1>1, <2>2, <2>3 DEF CreateInv, Held
  <2> QED BY <2>1, <2>2, <2>4
<1>4. req'[r] # req[r]
  BY <1>2
<1>5. ASSUME NEW q \in Requests, NEW reply, Ends(q, reply)
      PROVE  q = r /\ reply = "conflict"
  <2> DEFINE end == [Fresh EXCEPT !.pc = "done", !.reply = reply]
  <2>1. req' = [req EXCEPT ![q] = end] /\ end.reply = reply
    BY <1>5 DEF Ends, Fresh
  <2> HIDE DEF end
  <2>2. q = r
    BY <2>1, <1>1, <1>4
  <2> QED BY <2>1, <2>2, <1>1
<1>6. ASSUME NEW q \in Creates, CreateStep(q)
      PROVE  Short(req[r].seen, req[r].items)
  <2>1. q \in Requests
    BY DEF Requests
  <2>2. CASE CreateRefuses(q)
    BY <2>1, <2>2, <1>5 DEF CreateRefuses
  <2>3. CASE CreateAborts(q) \/ CreateCommits(q)
    BY <2>1, <2>3, <1>5 DEF CreateAborts, CreateCommits
  <2>4. CASE CreateBegins(q)
    <3>1. q # r
      BY <2>4 DEF CreateBegins
    <3>2. ~Ends(q, "notFound")
      BY <2>1, <1>5
    <3> QED BY <2>4, <3>1, <3>2, <1>1, <1>4 DEF CreateBegins
  <2>5. CASE LocksProduct(q)
    BY <2>5, <1>1, <1>4 DEF LocksProduct
  <2> QED BY <1>6, <2>2, <2>3, <2>4, <2>5 DEF CreateStep
<1>7. ASSUME NEW q \in Changes, PatchStep(q) \/ DeleteStep(q)
      PROVE  FALSE
  <2>1. q \in Requests /\ q # r
    BY RequestKindsAssumption DEF Requests, Changes
  <2>2. \A reply : ~Ends(q, reply)
    BY <2>1, <1>5
  <2>3. CASE FindsNoOrder(q) \/ PatchRefuses(q) \/ PatchCommits(q)
             \/ DeleteRefuses(q) \/ DeleteCommits(q)
    BY <2>2, <2>3 DEF FindsNoOrder, PatchRefuses, PatchCommits, DeleteRefuses,
                      DeleteCommits
  <2>4. CASE PatchBegins(q) \/ PatchLocks(q) \/ DeleteBegins(q)
             \/ DeleteLocks(q) \/ LocksProduct(q)
    BY <2>1, <2>4, <1>1, <1>4
       DEF PatchBegins, PatchLocks, DeleteBegins, DeleteLocks, LocksProduct, Queues
  <2> QED BY <1>7, <2>3, <2>4 DEF PatchStep, DeleteStep
<1>8. ASSUME NEW q \in Requests, TransactionFails(q) \/ DeadlockAborts(q)
      PROVE  FALSE
  BY <1>8, <1>5 DEF TransactionFails, DeadlockAborts
<1> QED BY <1>3, <1>6, <1>7, <1>8 DEF Next, Changes

\* Nobody is turned away because of a race.
THEOREM RefusalsAreJustified == Spec => RefusedOnlyWhenShort
<1>1. IInv /\ [Next]_orderVars =>
        [\A r \in Creates :
           req[r].pc = "ready" /\ req'[r].reply = "conflict"
               => \E p \in Products : stock[p] < req[r].items[p]]_orderVars
  BY RefusalIsShort
<1> QED BY <1>1, StateInvariant, PTL DEF Spec, RefusedOnlyWhenShort

=============================================================================
