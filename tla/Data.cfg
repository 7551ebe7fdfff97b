SPECIFICATION Spec
CONSTANTS
    Components = {"block", "libsvm", "counted", "libfm", "csv", "csv_labels", "parquet", "row_iter"}
CHECK_DEADLOCK FALSE
INVARIANTS
    ReadBack
    RowsKept
    WholeFile
    OwnEpoch
