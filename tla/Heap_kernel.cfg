SPECIFICATION Spec
CONSTANTS
    Start = 2
    Size = 6
    BUDDY_ORDER_MAX = 3
    Caches = {1, 2, 3}
    Custom = {3}
    SlabOrder <- MCSlabOrder
    ObjCount <- MCObjCount
    LargeOrders = {1, 2}
    MaxLive = 4
INVARIANTS
    PagesPartitioned
    ObjectsOwned
    FreeListsExact
    SlabListsExact
    FreesSafe
CHECK_DEADLOCK FALSE
