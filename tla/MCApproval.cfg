\* One proposal without a key, three confirmations and a cancellation:
\* approvals expire and the disk may fail.
SPECIFICATION Spec
SYMMETRY Symmetry
CONSTRAINT NoneKeyed
CHECK_DEADLOCK FALSE
CONSTANTS
    a1 = a1  a2 = a2  f1 = f1  f2 = f2  f3 = f3  x1 = x1
    p1 = p1  p2 = p2  h1 = h1  h2 = h2
    Proc = {p1, p2}
    Key = {k1}
    NoKey = NoKey
    Args = {h1}
    NoArgs = NoArgs
    NoCall = NoCall
    Payload <- MCPayload
    NoPayload = NoPayload
    Action = {a1}
    Confirmation = {f1, f2, f3}
    Cancellation = {x1}
    Call = {a1, f1, f2, f3, x1}
    Ttl = 1
    PendingTtl = 1
    MaxTime = 2
    MaxEntries = 2
    MaxActions = 1
    MaxAttempts = 2
    DiskMayFail = TRUE
INVARIANTS
    OneExecution
    RefusedNeverRuns
    LockoutHolds
