CONSTANTS
    NaN = NaN
    Infinity = Infinity
    NonFinite = {NaN, Infinity}
    Fractional = Fractional
    Distances <- MCDistances
    Subtotals <- MCSubtotals
    Vehicles = {"bike", "car", "van", "drone"}
SPECIFICATION FeeSpec
INVARIANTS
    ImplementationsAgree
    FeeIsFair
CHECK_DEADLOCK FALSE
