\* Three requests for an item; a fault, an edit, a reservation that ages out.
SPECIFICATION Spec
CONSTANTS
    Ops = {o1, o2, o3}
    Items = {i1}
    Versions = {v1, v2}
    MaxEdits = 1
    MaxFaults = 1
    MaxExpiries = 1
    None = None
SYMMETRY Symmetry
CONSTRAINT Scenarios
INVARIANTS
    TypeOK
    RetryLinkSound
    SkipMatchesRun
    ReservationExclusive
    RetriedAttemptIsOver
    BusyPreparationHasRun
PROPERTIES
    NoResurrection
CHECK_DEADLOCK FALSE
