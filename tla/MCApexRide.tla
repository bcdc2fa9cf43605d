----------------------------- MODULE MCApexRide -----------------------------
(***************************************************************************)
(* ApexRide for TLC: two of everything, so that every constraint has two   *)
(* rows and two transactions to set against each other.  The vehicles are  *)
(* of one driver, the only case their index can refuse.                    *)
(***************************************************************************)
EXTENDS ApexRide, TLC

CONSTANT d1

MCOwner == [v \in Vehicles |-> d1]

Everyone == Permutations(Clients) \cup Permutations(Trips) \cup Permutations(Riders)
            \cup Permutations(Vehicles)
=============================================================================
