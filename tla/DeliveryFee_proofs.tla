------------------------- MODULE DeliveryFee_proofs -------------------------
(***************************************************************************)
(* That the two delivery fees agree and are fair, for every distance and   *)
(* subtotal.  Which ties fall short (FallsShort) is not looked into: fees  *)
(* are fair whichever do.                                                  *)
(***************************************************************************)
EXTENDS DeliveryFee, TLAPS

Known == {"bike", "car", "van"}

\* What is known of a call: each result is the function's, or is still to come.
FeeInv ==
    /\ input \in Inputs
    /\ manual \in {NotCalled, Manual(input.distance, input.subtotal, input.vehicle, input.peak)}
    /\ ai \in {NotCalled, AI(input.distance, input.subtotal, input.vehicle, input.peak)}
    /\ ai # NotCalled => manual # NotCalled

LEMMA FeeInvHolds == FeeSpec => []FeeInv
<1>1. FeeInit => FeeInv
  BY DEF FeeInit, FeeInv
<1>2. FeeInv /\ [FeeNext]_feeVars => FeeInv'
  <2> SUFFICES ASSUME FeeInv, [FeeNext]_feeVars PROVE FeeInv'
    OBVIOUS
  <2>1. CASE CallManual
    BY <2>1 DEF FeeInv, CallManual
  <2>2. CASE CallAI
    BY <2>2 DEF FeeInv, CallAI
  <2>3. CASE UNCHANGED feeVars
    BY <2>3 DEF FeeInv, feeVars
  <2> QED BY <2>1, <2>2, <2>3 DEF FeeNext
<1> QED BY <1>1, <1>2, PTL DEF FeeSpec

\* The chain of comparisons and the table have the same multipliers.
LEMMA SameFee ==
    ASSUME NEW d, NEW vehicle \in Known, NEW peak
    PROVE  AIFee(d, vehicle, peak) = ManualFee(d, vehicle, peak)
<1>1. Multipliers[vehicle]
        = IF vehicle = "bike" THEN 10 ELSE IF vehicle = "car" THEN 14 ELSE 20
  BY DEF Multipliers, Known
<1> QED BY <1>1 DEF AIFee, ManualFee

LEMMA SameAnswer ==
    ASSUME NEW d \in Int \cup NonFinite, NEW s \in Int \cup {Fractional}, NEW vehicle, NEW peak
    PROVE  AI(d, s, vehicle, peak) = Manual(d, s, vehicle, peak)
<1>1. s < 0 \/ ~IsInteger(s) <=> (s \in Int /\ s < 0) \/ ~IsInteger(s)
  BY FeeAssumption DEF IsInteger
<1>2. vehicle \in Known <=> ~(vehicle # "bike" /\ vehicle # "car" /\ vehicle # "van")
  BY DEF Known
<1>3. CASE vehicle \in Known
  BY <1>1, <1>2, <1>3, SameFee DEF AI, Manual, ManualIsFree, Known
<1>4. CASE vehicle \notin Known
  BY <1>1, <1>2, <1>4 DEF AI, Manual, Known
<1> QED BY <1>3, <1>4

\* The two implementations agree on every input, not only on the ten of the
\* comparison.
THEOREM FeesAgree == FeeSpec => []ImplementationsAgree
<1>1. FeeInv => ImplementationsAgree
  <2> SUFFICES ASSUME FeeInv PROVE ImplementationsAgree
    OBVIOUS
  <2>1. AI(input.distance, input.subtotal, input.vehicle, input.peak)
          = Manual(input.distance, input.subtotal, input.vehicle, input.peak)
    <3>1. input.distance \in Int \cup NonFinite /\ input.subtotal \in Int \cup {Fractional}
      BY FeeAssumption DEF FeeInv, Inputs
    <3> QED BY <3>1, SameAnswer, Zenon
  <2> QED BY <2>1 DEF FeeInv, ImplementationsAgree
<1> QED BY <1>1, FeeInvHolds, PTL

-----------------------------------------------------------------------------
\* Rounding is off by half a unit at most.
LEMMA RoundIsNear ==
    ASSUME NEW num \in Int, NEW den \in {16, 40}
    PROVE  /\ MathRound(num, den) \in Int
           /\ -den <= 2 * (den * MathRound(num, den) - num)
           /\ 2 * (den * MathRound(num, den) - num) <= den
<1>1. CASE den = 16
  BY <1>1 DEF MathRound
<1>2. CASE den = 40
  BY <1>2 DEF MathRound
<1> QED BY <1>1, <1>2

\* ... and so is the fee, though a tie may fall short.
LEMMA FeeIsNear ==
    ASSUME NEW n \in Int, NEW tenths \in {10, 14, 20}, NEW quarters \in {4, 5}
    PROVE  /\ FeeInDoubles(n, tenths, quarters) \in Int
           /\ -20 <= 40 * FeeInDoubles(n, tenths, quarters) - n * tenths * quarters
           /\ 40 * FeeInDoubles(n, tenths, quarters) - n * tenths * quarters <= 20
<1> DEFINE r == MathRound(n * tenths * quarters, 40)
<1>1. n * tenths * quarters \in Int
  OBVIOUS
<1>2. r \in Int /\ -40 <= 2 * (40 * r - n * tenths * quarters)
                /\ 2 * (40 * r - n * tenths * quarters) <= 40
  BY <1>1, RoundIsNear
<1>3. CASE tenths = 14 /\ quarters = 5 /\ n % 4 = 2 /\ FallsShort(n)
  <2>1. FeeInDoubles(n, tenths, quarters) = r - 1
    BY <1>3 DEF FeeInDoubles
  <2>2. r = (140 * n + 40) \div 80
    BY <1>3 DEF MathRound
  <2>3. PICK k \in Int : n = 4 * k + 2
    BY <1>3
  <2>4. 40 * r - 70 * n = 20
    BY <2>2, <2>3
  <2> QED BY <1>3, <2>1, <2>4, <1>2
<1>4. CASE ~(tenths = 14 /\ quarters = 5 /\ n % 4 = 2 /\ FallsShort(n))
  BY <1>2, <1>4 DEF FeeInDoubles
<1> QED BY <1>3, <1>4

Tenths(vehicle) == IF vehicle = "bike" THEN 10 ELSE IF vehicle = "car" THEN 14 ELSE 20

LEMMA FairFee ==
    ASSUME NEW d \in Int, NEW vehicle \in Known, NEW peak \in BOOLEAN
    PROVE  LET fee == ManualFee(d, vehicle, peak)
               quarters == IF peak THEN 5 ELSE 4
           IN  /\ NearThePrice(d, fee.fee, fee.distanceFee, Tenths(vehicle), quarters)
               /\ fee.fee <= ManualFee(d + 1, vehicle, peak).fee
<1> DEFINE tenths == Tenths(vehicle)
           quarters == IF peak THEN 5 ELSE 4
           km == MathRound(d * 15000, Km)
           further == MathRound((d + 1) * 15000, Km)
           fee == FeeInDoubles(BaseFee + km, tenths, quarters)
           more == FeeInDoubles(BaseFee + further, tenths, quarters)
<1>1. tenths \in {10, 14, 20} /\ quarters \in {4, 5}
  BY DEF Tenths, Known
<1>2. /\ km \in Int /\ -16 <= 2 * (16 * km - d * 15000) /\ 2 * (16 * km - d * 15000) <= 16
      /\ further \in Int /\ -16 <= 2 * (16 * further - (d + 1) * 15000)
  BY RoundIsNear DEF Km
<1>3. BaseFee + km \in Int /\ BaseFee + further \in Int
  BY <1>2 DEF BaseFee
<1> HIDE DEF km, further, fee, more, tenths, quarters
<1>4. /\ fee \in Int
      /\ -20 <= 40 * fee - (BaseFee + km) * tenths * quarters
      /\ 40 * fee - (BaseFee + km) * tenths * quarters <= 20
  BY <1>1, <1>3, FeeIsNear DEF fee
<1>5. more \in Int /\ -20 <= 40 * more - (BaseFee + further) * tenths * quarters
  BY <1>1, <1>3, FeeIsNear DEF more
<1>6. NearThePrice(d, fee, km, tenths, quarters)
  <2>1. ASSUME NEW t \in {10, 14, 20}, NEW q \in {4, 5}, t = tenths, q = quarters
        PROVE  /\ -140 <= 80 * fee - (2 * BaseFee + 1875 * d) * t * q
               /\ 80 * fee - (2 * BaseFee + 1875 * d) * t * q <= 140
    BY <1>2, <1>4, <2>1 DEF BaseFee
  <2> QED BY <1>1, <1>4, <2>1 DEF NearThePrice
<1>7. fee <= more
  BY <1>1, <1>2, <1>4, <1>5 DEF BaseFee
<1>8. /\ ManualFee(d, vehicle, peak).fee = fee
      /\ ManualFee(d, vehicle, peak).distanceFee = km
      /\ ManualFee(d + 1, vehicle, peak).fee = more
  BY DEF ManualFee, Returns, Tenths, fee, more, km, further, tenths, quarters
<1> QED BY <1>6, <1>7, <1>8 DEF tenths, quarters

\* What is charged is fair for every distance and subtotal.
THEOREM FeesAreFair == FeeSpec => []FeeIsFair
<1>1. FeeInv => FeeIsFair
  <2> SUFFICES ASSUME FeeInv, manual.status = "returned" PROVE FeeIsFair
    BY DEF FeeIsFair
  <2> DEFINE d == input.distance
             s == input.subtotal
             vehicle == input.vehicle
             peak == input.peak
  <2>1. manual = Manual(d, s, vehicle, peak) /\ peak \in BOOLEAN
    <3>1. NotCalled.status # "returned"
      BY DEF NotCalled
    <3>2. manual = Manual(d, s, vehicle, peak)
      BY <3>1, Zenon DEF FeeInv
    <3>3. peak \in BOOLEAN
      BY DEF FeeInv, Inputs
    <3> QED BY <3>2, <3>3
  <2>2. d \in Int /\ s \in Int /\ vehicle \in Known
    BY <2>1, FeeAssumption
    DEF FeeInv, Inputs, Manual, Throws, IsFinite, IsInteger, Known
  <2>3. \/ manual = Returns(0, TRUE, 0) /\ ManualIsFree(d, s)
        \/ manual = ManualFee(d, vehicle, peak) /\ ~ManualIsFree(d, s)
    BY <2>1, <2>2 DEF Manual, Throws
  <2>4. Multipliers[vehicle] = Tenths(vehicle)
    BY <2>2 DEF Multipliers, Tenths, Known
  <2>5. CASE manual = Returns(0, TRUE, 0) /\ ManualIsFree(d, s)
    BY <2>5 DEF FeeIsFair, Returns, ManualIsFree
  <2>6. CASE manual = ManualFee(d, vehicle, peak) /\ ~ManualIsFree(d, s)
    <3>1. manual.free = FALSE
      BY <2>6 DEF ManualFee, Returns
    <3> QED BY <2>1, <2>2, <2>4, <2>6, <3>1, FairFee DEF FeeIsFair, ManualIsFree
  <2> QED BY <2>3, <2>5, <2>6
<1> QED BY <1>1, FeeInvHolds, PTL
=============================================================================
