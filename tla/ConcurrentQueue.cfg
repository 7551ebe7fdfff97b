SPECIFICATION Spec
CONSTANTS
    Components = {"bulk", "race", "single", "implicit", "wrap", "pool", "tokens"}
    c1 = c1
    c2 = c2
    b1 = b1
    b2 = b2
    t1 = t1
    t2 = t2
    t3 = t3
SYMMETRY Symmetry
CHECK_DEADLOCK FALSE
INVARIANTS
    ReadsOwnItems
    DestroysItemsOnly
    NoBlockLost
    OnePlace
    FailsAfterAll
