SPECIFICATION FairSpec
CONSTANTS
    h1 = h1
    h2 = h2
    None = None
    Machines = {"a", "b"}
    Names = {"x"}
    Uuids = {"u", "v"}
    Handlers = {h1, h2}
    MaxUses = 0
    MaxOps = 2
    MaxFaults = 0
PROPERTIES
    SelfHeals
CHECK_DEADLOCK FALSE
