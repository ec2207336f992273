SPECIFICATION FairSpec
CONSTANTS
    Runs = {r1}
    Targets = {s1}
    Supporting = {s2}
    Companions = {s3}
    Contents = {A}
    MaxRounds = 2
    MaxChanges = 0
    MaxFaults = 1
    None = None
    A = A B = B
INVARIANTS TypeOK CleanRunIsComplete ResearchKeepsEvidence
PROPERTY RunsSettle
CHECK_DEADLOCK FALSE
