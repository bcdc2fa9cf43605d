--------------------------- MODULE MCDeliveryFee ---------------------------
(***************************************************************************)
(* DeliveryFee for TLC: every sixteenth of a kilometre up to beyond the    *)
(* free ten, on both sides of every threshold.  Fifteen of the distances   *)
(* have a tie that falls short for a car at the peak, 36/16 km the first.  *)
(***************************************************************************)
EXTENDS DeliveryFee

CONSTANTS NaN, Infinity

MCDistances == (-1)..(11 * Km) \cup {NaN, Infinity}
MCSubtotals == {-1, 0, FreeFrom - 1, FreeFrom, Fractional}
=============================================================================
