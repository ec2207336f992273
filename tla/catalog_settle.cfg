\* Liveness, without symmetry.
SPECIFICATION FairSpec
CONSTANTS
    Ops = {o1, o2}
    Items = {i1, i2}
    Versions = {v1}
    MaxEdits = 0
    MaxFaults = 1
    MaxExpiries = 0
    None = None
PROPERTIES
    RunsSettle
CONSTRAINT Settling
CHECK_DEADLOCK FALSE
