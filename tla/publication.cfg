\* A former product or review, three candidates of two runs on two pages, the CLI, a retraction.
SPECIFICATION Spec
CONSTANTS
    Candidates <- FourCandidates
    RunOf <- FormerTwoAndOne
    Runs = {r1, r2}
    Clis = {c1}
    Retractions = {x1}
    Sources = {s1, s2}
    Names = {n1, n2}
    MaxListed = 2
    None = None
    r1 = r1 r2 = r2 c1 = c1 x1 = x1 s1 = s1 s2 = s2 n1 = n1 n2 = n2
SYMMETRY Symmetry
INVARIANTS TypeOK OneCurrentVersion ServedIsApproved WithdrawnByRetraction AcceptedIsDecided
PROPERTIES SupersededByApproval
CONSTRAINT Scenarios
CHECK_DEADLOCK FALSE
