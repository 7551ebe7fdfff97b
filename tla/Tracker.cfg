SPECIFICATION Spec
CONSTANTS
    Components = {"rabit", "rabit_live", "yarn", "yarn_live", "link_map"}
    MaxSlaves = 15
    None = None
CHECK_DEADLOCK FALSE
INVARIANTS
    RanksAndLinks
    TreeAndRing
PROPERTIES
    TasksAccounted
    JobEnds
