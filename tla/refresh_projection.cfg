SPECIFICATION Spec
CONSTANTS
    Ops <- ThreeOps
    Countries = {CA}
    Kinds = {"promotion", "retraction"}
    None = None
    MaxFaults = 1
    MaxDrops = 0
INVARIANTS HealthyMeansFresh
PROPERTIES ImplementsProjection
CHECK_DEADLOCK FALSE
