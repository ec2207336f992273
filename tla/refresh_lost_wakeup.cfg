SPECIFICATION FairSpec
CONSTANTS
    Ops <- TwoOps
    Countries = {CA}
    Kinds = {"promotion"}
    None = None
    MaxFaults = 0
    MaxDrops = 0
PROPERTIES QueuedIsRefreshed
CHECK_DEADLOCK FALSE
