CONSTANTS
    all = all
    shoes = shoes
    newest = newest
    cheapest = cheapest
    s1 = s1
    s2 = s2
    Idle = Idle
    All = all
    Categories <- MCCategories
    Sorts <- MCSorts
    Newest = newest
    Total <- MCTotal
    PAGE_LIMIT = 2
    MaxOffset = 2
    Slots <- MCSlots
    MaxChecks = 1
SYMMETRY SlotSymmetry
SPECIFICATION ConsumerSpec
PROPERTIES
    NextStaysInData
