SPECIFICATION FairSpec
CONSTANTS
    g1 = g1
    g2 = g2
    k1 = k1
    k2 = k2
    k3 = k3
    p1 = p1
    p2 = p2
    e1 = e1
    e2 = e2
    x = x
    y = y
    None = None
    Agents = {g1}
    Commands = {k1, k2}
    Polls = {p1, p2}
    Editors = {e1}
    Configs = {x, y}
    DefaultConfig = x
    Reaching = {x, y}
    Actions = {"ISOLATE", "UNISOLATE", "BLOCK_HASH", "OTHER"}
    PageSize = 1
    MaxOps = 2
    MaxFaults = 1
PROPERTIES
    CommandsLeaveQueue
    CommandsReported
