\* Three requests, two countries, two sessions that are open at first.
SPECIFICATION FairSpec
CONSTANTS
    Ops = {o1, o2, o3}
    Former = {s1, s2}
    Countries = {CA, US}
    Logins = {l1}
    None = None
INVARIANTS
    TypeOK
    LastCountryStays
    SignupsAgree
PROPERTIES
    ClosedSessionStays
    RequestsEnd
CONSTRAINT Scenarios
CHECK_DEADLOCK FALSE
