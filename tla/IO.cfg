SPECIFICATION Spec
CONSTANTS
    Components = {"text", "record", "indexed", "shuffled", "threaded", "cached", "s3_read",
                  "s3_read_steady", "s3_write", "s3_list"}
CONSTRAINT Bounded
CHECK_DEADLOCK FALSE
INVARIANTS
    Delivered
    InPlace
    ObjectWhole
    ListsAll
PROPERTY CallsReturn
