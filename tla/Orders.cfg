CONSTANTS
    tee = tee
    cap = cap
    ghost = ghost
    c1 = c1
    c2 = c2
    p1 = p1
    d1 = d1
    Nobody = Nobody
    Products <- MCProducts
    Catalog <- MCCatalog
    InitialStock <- MCStock
    Price <- MCPrice
    Carts <- MCCarts
    MaxInt = 5
    Creates <- TwoCreates
    Patches <- OnePatch
    Deletes <- OneDelete
    Faults <- Failures
    MaxFaults = 1
CHECK_DEADLOCK FALSE
SPECIFICATION FairSpec
INVARIANTS
    OrderTypeOK
    StockConserved
    ReadsStayTrue
PROPERTIES
    ImplementsInventory
    RefusedOnlyWhenShort
    EveryRequestAnswered
