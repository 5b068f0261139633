\* Two proposals of one key, two processes, two confirmations, and an approval
\* that is taken in the last tick of its time to live.
SPECIFICATION Spec
SYMMETRY Symmetry
CONSTRAINT AllKeyed
CHECK_DEADLOCK FALSE
CONSTANTS
    a1 = a1  a2 = a2  f1 = f1  f2 = f2  f3 = f3  x1 = x1
    p1 = p1  p2 = p2  h1 = h1  h2 = h2
    Proc = {p1, p2}
    Key = {k1}
    NoKey = NoKey
    Args = {h1}
    NoArgs = NoArgs
    NoCall = NoCall
    Payload <- MCPayload
    NoPayload = NoPayload
    Action = {a1, a2}
    Confirmation = {f1, f2}
    Cancellation = {}
    Call = {a1, a2, f1, f2}
    Ttl = 3
    PendingTtl = 1
    MaxTime = 2
    MaxEntries = 2
    MaxActions = 2
    MaxAttempts = 1
    DiskMayFail = FALSE
INVARIANT
    AtMostOneMutation
