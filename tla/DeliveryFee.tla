---------------------------- MODULE DeliveryFee ----------------------------
(***************************************************************************)
(* The delivery fee of task-5-pseudocoding, written twice from one         *)
(* pseudocode: by hand (part-b/delivery_fee_manual.ts) and by a model      *)
(* (part-c/delivery_fee_ai.ts), and the comparison of the two on an input  *)
(* (part-c/compare_implementations.ts).                                    *)
(*                                                                         *)
(* A number of the program is an IEEE double.  A distance is a whole       *)
(* number of sixteenths of a kilometre, which doubles hold exactly, or one *)
(* of NonFinite.  Money is in kobo.  What the doubles do to a fee is in    *)
(* FallsShort; everything else here is exact as long as the doubles of a   *)
(* fee have room for their fractions, which is so below 2^40 kobo.  The    *)
(* astronomic distances of the probes lie beyond.                          *)
(***************************************************************************)
EXTENDS Integers

CONSTANTS
    NonFinite,  \* NaN and Infinity
    Fractional, \* a subtotal that is not whole
    Distances, Subtotals, Vehicles

ASSUME FeeAssumption ==
    /\ Distances \subseteq Int \cup NonFinite /\ NonFinite \cap Int = {}
    /\ Subtotals \subseteq Int \cup {Fractional} /\ Fractional \notin Int

VARIABLES
    input,      \* the arguments of the call
    manual, ai  \* what each function returned or threw

feeVars == <<input, manual, ai>>

NotCalled == [status |-> "not called"]
Throws(what) == [status |-> "thrown", what |-> what]
Returns(fee, free, distanceFee) ==
    [status |-> "returned", fee |-> fee, free |-> free, distanceFee |-> distanceFee]

Km == 16
BaseFee == 50000
FreeFrom == 3000000

-----------------------------------------------------------------------------
(* Arithmetic.                                                             *)

\* Mutant: Math.floor.
MathFloor(num, den) == num \div den

\* Math.round of num / den: to the nearest, ties upward.
MathRound(num, den) == (2 * num + den) \div (2 * den)

\* The double 1.4 is 7/5 - 2/5 * 2^-52.  Its product with n is rounded to a
\* multiple of u = 2^(b-52), where 2^b <= 7n/5 < 2^(b+1): E is how far that is
\* above 7n/5, in fifths of u.  The product with 1.25 is rounded once more, and
\* when 7n/4 is a tie it ends below the tie for E as small as this.
FallsShort(n) ==
    LET b == CHOOSE e \in 0..40 : 5 * 2^e <= 7 * n /\ 7 * n < 10 * 2^e
        f == (7 * n * <<1, 2, 4, 3>>[((52 - b) % 4) + 1]) % 5
        E == 5 * MathRound(f * 2^b - 2 * n, 5 * 2^b) - f
    IN  IF 7 * n < 8 * 2^b THEN E <= -3 ELSE E <= -5

\* Math.round(n * tenths/10 * quarters/4), in doubles.
FeeInDoubles(n, tenths, quarters) ==
    MathRound(n * tenths * quarters, 40)
        - IF tenths = 14 /\ quarters = 5 /\ n % 4 = 2 /\ FallsShort(n) THEN 1 ELSE 0

IsNegative(d) == d \in Int /\ d < 0
IsFinite(d) == d \notin NonFinite
IsInteger(s) == s # Fractional

-----------------------------------------------------------------------------
(* calculateDeliveryFeeManual                                              *)

\* Mutant: ten kilometres are too far.
ManualIsFreeBelowTen(d, s) == s >= FreeFrom /\ d < 10 * Km

ManualIsFree(d, s) == s >= FreeFrom /\ d <= 10 * Km

ManualFee(d, vehicle, peak) ==
    LET distanceFee == MathRound(d * 15000, Km)
        tenths == IF vehicle = "bike" THEN 10 ELSE IF vehicle = "car" THEN 14 ELSE 20
    IN  Returns(FeeInDoubles(BaseFee + distanceFee, tenths, IF peak THEN 5 ELSE 4),
                FALSE, distanceFee)

Manual(d, s, vehicle, peak) ==
    IF ~IsFinite(d) \/ IsNegative(d) THEN Throws("distance")
    ELSE IF ~IsInteger(s) \/ s < 0 THEN Throws("subtotal")
    ELSE IF vehicle # "bike" /\ vehicle # "car" /\ vehicle # "van" THEN Throws("vehicle")
    ELSE IF ManualIsFree(d, s) THEN Returns(0, TRUE, 0)
    ELSE ManualFee(d, vehicle, peak)

-----------------------------------------------------------------------------
(* calculateDeliveryFeeAI                                                  *)

Multipliers == [bike |-> 10, car |-> 14, van |-> 20]

AIFee(d, vehicle, peak) ==
    LET distanceFee == MathRound(d * 15000, Km)
    IN  Returns(FeeInDoubles(BaseFee + distanceFee, Multipliers[vehicle], IF peak THEN 5 ELSE 4),
                FALSE, distanceFee)

AI(d, s, vehicle, peak) ==
    IF IsNegative(d) \/ ~IsFinite(d) THEN Throws("distance")
    ELSE IF (s \in Int /\ s < 0) \/ ~IsInteger(s) THEN Throws("subtotal")
    ELSE IF vehicle \notin {"bike", "car", "van"} THEN Throws("vehicle")
    ELSE IF s >= FreeFrom /\ d <= 10 * Km THEN Returns(0, TRUE, 0)
    ELSE AIFee(d, vehicle, peak)

-----------------------------------------------------------------------------
(* The comparison: one function, then the other, on the same arguments.    *)

Inputs == [distance : Distances, subtotal : Subtotals, vehicle : Vehicles, peak : BOOLEAN]

FeeInit == input \in Inputs /\ manual = NotCalled /\ ai = NotCalled

CallManual ==
    /\ manual = NotCalled
    /\ manual' = Manual(input.distance, input.subtotal, input.vehicle, input.peak)
    /\ UNCHANGED <<input, ai>>

CallAI ==
    /\ manual # NotCalled /\ ai = NotCalled
    /\ ai' = AI(input.distance, input.subtotal, input.vehicle, input.peak)
    /\ UNCHANGED <<input, manual>>

FeeNext == CallManual \/ CallAI

FeeSpec == FeeInit /\ [][FeeNext]_feeVars

-----------------------------------------------------------------------------
\* On every input the two functions throw the same error or return the same
\* result: what compare_implementations.ts:98-137 shows of ten inputs.
ImplementationsAgree == ai # NotCalled => ai = manual

\* Within half a kobo of its own product, in fortieths of a kobo, and within a
\* kobo and three quarters of the price without any rounding, although the fee
\* is rounded twice and 1.4 is not a double.
NearThePrice(d, fee, distanceFee, tenths, quarters) ==
    LET off == 40 * fee - (BaseFee + distanceFee) * tenths * quarters
        all == 80 * fee - (2 * BaseFee + 1875 * d) * tenths * quarters
    IN  /\ -20 <= off /\ off <= 20
        /\ -140 <= all /\ all <= 140

\* What is charged: nothing for a large order nearby; else a fee near the price,
\* and never more for the shorter way, wherever the roundings fall
\* (delivery_fee_manual.ts:64-106).
FeeIsFair ==
    manual.status = "returned" =>
        LET d == input.distance
            tenths == Multipliers[input.vehicle]
            quarters == IF input.peak THEN 5 ELSE 4
        IN  /\ manual.free <=> input.subtotal >= FreeFrom /\ d <= 10 * Km
            /\ manual.free => manual.fee = 0
            /\ ~manual.free =>
                 /\ NearThePrice(d, manual.fee, manual.distanceFee, tenths, quarters)
                 /\ manual.fee <= ManualFee(d + 1, input.vehicle, input.peak).fee
=============================================================================
