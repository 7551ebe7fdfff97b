SPECIFICATION Spec
CONSTANTS
    Components = {"config", "config_text", "strtonum", "net", "rate", "json", "recordio", "recordio_torn"}
    kMagic = 101
CHECK_DEADLOCK FALSE
INVARIANTS
    ConfigReadsBack
    NumbersExact
    InitMeaning
    JSONReadsBack
    RecordsReadBack
