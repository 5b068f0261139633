\* Two processes that may hang before their marker is there, and one that died;
\* one of the two waits without a deadline.
SPECIFICATION FairSpec
CHECK_DEADLOCK FALSE
CONSTANTS
    p1 = p1  p2 = p2  d1 = d1  d2 = d2
    Proc = {p1, p2, d1}
    Gone = {d1}
    Nobody = Nobody
    NoDir = NoDir
    Ino = {1, 2}
    NoIno = 0
    Leftovers <- OrdinaryLeftovers
    Stalls = {"stat", "open"}
    Patient = {p1}
INVARIANTS
    MutualExclusion
    LeaseStands
    LeavesNoLease
PROPERTY
    LoneWaiterServed
