SPECIFICATION Spec
CONSTANTS
    Components = {"hash", "hash_exit", "tokens_live", "blocking", "blocking_live",
                  "group", "wakeups", "worker"}
CHECK_DEADLOCK FALSE
INVARIANTS
    PermitsAreItems
    GroupOutlives
PROPERTIES
    OwnProducer
    ItemsWake
    CallsReturn
