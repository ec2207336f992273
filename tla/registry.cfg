\* Two discoveries, one after the other or taking over from it, and a removal; two
\* spellings of an address, one of which the seed list has.
SPECIFICATION Spec
CONSTANTS
    Sources = {s1, s2}
    Seeds = {s2}
    Fold <- OneAddress
    Discoveries = {d1, d2}
    Removals = {x1}
    None = None
    MaxExpiries = 1
    s1 = s1 s2 = s2
SYMMETRY Symmetry
CONSTRAINT Scenarios
INVARIANTS TypeOK
PROPERTIES RemovedStaysOut LeavesForAReason CollectedIsActive
CHECK_DEADLOCK FALSE
