\* Two keys and a quota of one entry, on a disk that does not fail.
SPECIFICATION Spec
CHECK_DEADLOCK FALSE
CONSTANTS
    c1 = c1  c2 = c2  c3 = c3
    p1 = p1  p2 = p2
    h1 = h1  h2 = h2
    Proc = {p1, p2}
    Args = {h1, h2}
    NoArgs = NoArgs
    NoCall = NoCall
    NoPayload = NoCall
    Call = {c1, c2}
    Payload = {c1, c2}
    Key = {k1, k2}
    Ttl = 1
    MaxTime = 1
    MaxEntries = 1
    DiskMayFail = FALSE
PROPERTY
    NeverForgotten
