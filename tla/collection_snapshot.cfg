SPECIFICATION Spec
CONSTANTS
    Runs = {r1, r2, r3}
    Targets = {s1}
    Supporting = {}
    Companions = {}
    Contents = {A, B}
    MaxRounds = 0
    MaxChanges = 2
    MaxFaults = 0
    None = None
    A = A B = B
SYMMETRY Symmetry
INVARIANT ParsesOwnSnapshot
CHECK_DEADLOCK FALSE
