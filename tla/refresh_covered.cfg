SPECIFICATION FairSpec
CONSTANTS
    Ops <- TwoOps
    Countries = {CA, US}
    Kinds = {"promotion", "retraction", "manual"}
    None = None
    MaxFaults = 1
    MaxDrops = 1
INVARIANTS TypeOK CompletedIsCovered
PROPERTIES HolderDrains
CONSTRAINT Scenarios
CHECK_DEADLOCK FALSE
