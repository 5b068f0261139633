\* Two processes at a directory that carries no single marker.
SPECIFICATION Spec
CHECK_DEADLOCK FALSE
CONSTANTS
    p1 = p1  p2 = p2  d1 = d1  d2 = d2
    Proc = {p1, p2, d1, d2}
    Gone = {d1, d2}
    Nobody = Nobody
    NoDir = NoDir
    Ino = {1, 2}
    NoIno = 0
    Leftovers <- OddLeftovers
    Stalls = {}
    Patient = {}
INVARIANT
    MutualExclusion
