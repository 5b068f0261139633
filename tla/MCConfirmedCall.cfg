\* Two proposals of one key and two confirmations: approvals outlive the run,
\* results lapse, the disk does not fail.
SPECIFICATION Spec
SYMMETRY Symmetry
CONSTRAINT AllKeyed
CHECK_DEADLOCK FALSE
CONSTANTS
    a1 = a1  a2 = a2  f1 = f1  f2 = f2  f3 = f3  x1 = x1
    p1 = p1  p2 = p2  h1 = h1  h2 = h2
    Proc = {p1, p2}
    Key = {k1}
    NoKey = NoKey
    Args = {h1}
    NoArgs = NoArgs
    NoCall = NoCall
    Payload <- MCPayload
    NoPayload = NoPayload
    Action = {a1, a2}
    Confirmation = {f1, f2}
    Cancellation = {}
    Call = {a1, a2, f1, f2}
    Ttl = 1
    PendingTtl = 5
    MaxTime = 2
    MaxEntries = 2
    MaxActions = 2
    MaxAttempts = 1
    DiskMayFail = FALSE
INVARIANTS
    AtMostOneMutation
PROPERTIES
    ClaimOutlivesDoubt
    KeyClosedWhileClaimed
    HeldUntilReconciled
