----------------------------- MODULE Inventory -----------------------------
(***************************************************************************)
(* What task-1-consumable-api promises of orders and stock: every request  *)
(* takes effect at once and whole, as if there were no other.  An order is *)
(* placed only if the stock covers it, moves along the status machine of   *)
(* the code, and can be removed, its items going back, only while pending. *)
(***************************************************************************)
EXTENDS Integers

CONSTANTS Products, Orders, Baskets, InitialStock, Moves, NoOrder

VARIABLES stock, orders
inventoryVars == <<stock, orders>>

Init ==
    /\ stock = InitialStock
    /\ orders = [o \in Orders |-> NoOrder]

\* An identifier is used once: Place needs one that was never given out, which
\* is for the implementation to see to.
Place(o) ==
    /\ orders[o] = NoOrder
    /\ \E items \in Baskets :
         /\ \A p \in Products : items[p] <= stock[p]
         /\ stock' = [p \in Products |-> stock[p] - items[p]]
         /\ orders' = [orders EXCEPT ![o] = [status |-> "pending", items |-> items]]

Move(o) ==
    /\ orders[o] # NoOrder
    /\ \E s \in Moves[orders[o].status] :
         orders' = [orders EXCEPT ![o].status = s]
    /\ UNCHANGED stock

Remove(o) ==
    /\ orders[o].status = "pending"
    /\ stock' = [p \in Products |-> stock[p] + orders[o].items[p]]
    /\ orders' = [orders EXCEPT ![o] = NoOrder]

Next == \E o \in Orders : Place(o) \/ Move(o) \/ Remove(o)

Spec == Init /\ [][Next]_inventoryVars
=============================================================================
