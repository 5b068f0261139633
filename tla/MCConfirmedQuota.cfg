\* One process, two proposals of two keys and a confirmation: quotas of one entry and
\* one action, approvals that expire, a disk that may fail, the fairness of the deadlines.
SPECIFICATION FairSpec
CONSTRAINT Canonical
CHECK_DEADLOCK FALSE
CONSTANTS
    a1 = a1  a2 = a2  f1 = f1  f2 = f2  f3 = f3  x1 = x1
    p1 = p1  p2 = p2  h1 = h1  h2 = h2
    Proc = {p1}
    Key = {k1, k2}
    NoKey = NoKey
    Args = {h1, h2}
    NoArgs = NoArgs
    NoCall = NoCall
    Payload <- MCPayload
    NoPayload = NoPayload
    Action = {a1, a2}
    Confirmation = {f1}
    Cancellation = {}
    Call = {a1, a2, f1}
    Ttl = 1
    PendingTtl = 1
    MaxTime = 2
    MaxEntries = 1
    MaxActions = 1
    MaxAttempts = 1
    DiskMayFail = TRUE
INVARIANTS
    RunsUnderClaim
PROPERTIES
    LeasesComeBack
