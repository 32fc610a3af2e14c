SPECIFICATION FairSpec
CONSTANTS
    MaxOffset = 2
    Vendors = {"edr", "aws"}
    VendorOf <- MCVendorOf
    BatchSize = 2
    MaxRuns = 2
    MaxFaults = 1
INVARIANTS
    TypeOK
    Accounted
    OncePerRun
    RowsSurvive
PROPERTIES
    AgedRowsLeave
CHECK_DEADLOCK FALSE
