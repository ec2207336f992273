\* Three requests for a product or for all, two snapshots, a cache of two entries.
SPECIFICATION FairSpec
CONSTANTS
    Callers = {c1, c2, c3}
    Products = {p1}
    All = All
    Ttl = 1
    MaxEntries = 2
    MaxLoad = 1
    MaxSnapshots = 2
    MaxClock = 2
INVARIANTS
    TypeOK
    OneLoadPerKey
    PublicationSeenAtOnce
    ServedRowsAreRecent
PROPERTIES
    RequestsEnd
CONSTRAINT Scenarios
CHECK_DEADLOCK FALSE
