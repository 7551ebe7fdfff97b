SPECIFICATION Spec
CONSTANTS
    Components = {"fail"}
    c1 = c1
    c2 = c2
    b1 = b1
    b2 = b2
    t1 = t1
    t2 = t2
    t3 = t3
CHECK_DEADLOCK FALSE
INVARIANT ReadsAfterFailure
