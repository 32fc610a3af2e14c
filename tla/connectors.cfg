SPECIFICATION FairSpec
CONSTANTS
    Vendors = {"wazuh", "sentinelone", "office365"}
    Events = {"e1", "e2", "e3"}
    EventsOf <- MCEventsOf
    Stamp <- MCStamp
    Desc <- OwnDesc
    Pullers = {"scheduler", "request"}
    Dispatcher = "scheduler"
    PageSize = 1
    Lookback = 1
    Span = 1
    MaxClock = 1
    MaxWindows = 2
    MaxFaults = 1
INVARIANTS
    TypeOK
    NothingSkipped
    OncePerWindow
PROPERTIES
    EventuallyListed
