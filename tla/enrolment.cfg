SPECIFICATION FirstNamed
CONSTANTS
    h1 = h1
    h2 = h2
    None = None
    Machines = {"a", "b"}
    Names = {"x", "y"}
    Uuids = {"u"}
    Handlers = {h1, h2}
    MaxUses = 1
    MaxOps = 3
    MaxFaults = 1
INVARIANTS
    TypeOK
    OverrunBounded
    RowsPaid
    TokenHeld
PROPERTIES
    CallsEnd
CHECK_DEADLOCK FALSE
