\* Two keys, a quota of one entry and a disk that may fail, under the fairness of
\* the deadlines.
SPECIFICATION FairSpec
CHECK_DEADLOCK FALSE
CONSTANTS
    c1 = c1  c2 = c2  c3 = c3
    p1 = p1  p2 = p2
    h1 = h1  h2 = h2
    Proc = {p1, p2}
    Args = {h1, h2}
    NoArgs = NoArgs
    NoCall = NoCall
    NoPayload = NoCall
    Call = {c1, c2}
    Payload = {c1, c2}
    Key = {k1, k2}
    Ttl = 1
    MaxTime = 2
    MaxEntries = 1
    DiskMayFail = TRUE
INVARIANTS
    ReservationStands
    AtMostOneMutation
    ReplayIsOwnResult
PROPERTIES
    ShutUntilReconciled
    KeepsPromise
    LeaseComesBack
