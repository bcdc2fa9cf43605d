CONSTANTS
    tee = tee
    cap = cap
    ghost = ghost
    c1 = c1
    c2 = c2
    p1 = p1
    d1 = d1
    Nobody = Nobody
    Products <- MCProducts
    Catalog <- MCCatalog
    InitialStock <- MCStock
    Price <- MCPrice
    Carts <- PairCart
    MaxInt = 9
    Creates <- TwoCreates
    Patches = {}
    Deletes = {}
    Faults <- Failures
    MaxFaults = 0
CHECK_DEADLOCK FALSE
SPECIFICATION Spec
INVARIANTS
    CompetitorsWaitInLine
