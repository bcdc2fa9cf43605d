--------------------------- MODULE MCOrderService ---------------------------
(***************************************************************************)
(* OrderService for TLC.  Two products exist, tee with two units and cap   *)
(* with one, and clients know a third id, ghost.  The carts: both          *)
(* products; tee twice, in two lines; the whole stock; the unknown product *)
(* beside a known one.  Only the total of the whole stock is above 5, the  *)
(* MaxInt of the passing run.                                              *)
(***************************************************************************)
EXTENDS OrderService, TLC

CONSTANTS tee, cap, ghost, c1, c2, p1, d1

MCProducts == {tee, cap, ghost}
MCCatalog  == {tee, cap}
MCStock    == tee :> 2 @@ cap :> 1 @@ ghost :> 0
MCPrice    == tee :> 2 @@ cap :> 3 @@ ghost :> 1

Line(p, n) == [product |-> p, quantity |-> n]
MCCarts == {<<Line(tee, 1), Line(cap, 1)>>, <<Line(tee, 1), Line(tee, 1)>>,
            <<Line(cap, 1), Line(tee, 2)>>, <<Line(ghost, 1), Line(tee, 1)>>}
PairCart == {<<Line(tee, 1), Line(cap, 1)>>}

TwoCreates == {c1, c2}
OnePatch   == {p1}
OneDelete  == {d1}
Failures   == {"dbError"}
=============================================================================
