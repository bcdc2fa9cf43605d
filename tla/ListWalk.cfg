CONSTANTS
    shirts = shirts
    shoes = shoes
    Rows = {1, 2, 3}
    CategoryOf <- MCCategoryOf
    PriceOf <- MCPriceOf
    MaxStock = 2
    Queries <- MCQueries
    MaxChanges = 3
CHECK_DEADLOCK FALSE
SPECIFICATION WalkSpec
INVARIANTS
    WalkTypeOK
    RepeatsOnlyAfterEntry
    MissedOnlyAfterExit
    PromisedPageExists
