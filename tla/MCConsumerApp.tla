--------------------------- MODULE MCConsumerApp ---------------------------
(***************************************************************************)
(* ConsumerApp for TLC: one category, two sorts, pages of two rows.  The   *)
(* whole catalogue has two pages, each narrower choice a single one, and   *)
(* the narrowest is empty.                                                 *)
(***************************************************************************)
EXTENDS ConsumerApp, TLC

CONSTANTS all, shoes, newest, cheapest, s1, s2

MCCategories == {shoes}
MCSorts == {newest, cheapest}
MCSlots == {s1, s2}
MCTotal == <<all, FALSE>> :> 3 @@ <<all, TRUE>> :> 2
           @@ <<shoes, FALSE>> :> 1 @@ <<shoes, TRUE>> :> 0
SlotSymmetry == Permutations(Slots)
=============================================================================
