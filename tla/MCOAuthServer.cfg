\* Two clients for the room of one, two issuers, a grant that may be there from before,
\* two requests at the token endpoint: what they race for, what expires, what a crash loses.
SPECIFICATION Spec
SYMMETRY Symmetry
CONSTANTS
    c1 = c1  c2 = c2  t1 = t1  t2 = t2  a1 = a1  a2 = a2  a3 = a3  i1 = i1  i2 = i2
    r1 = r1  r2 = r2
    Client = {c1, c2}
    NoClient = NoClient
    Txn = {t1, t2}
    Pair = {a1, a2, a3}
    Issuer = {i1, i2}
    NoIssuer = NoIssuer
    Req = {r1, r2}
    MaxClients = 1
    MaxConsents = 1
    MaxCodes = 1
    MaxTokens = 2
    ConsentTtl = 1
    CodeTtl = 1
    AccessTtl = 1
    RefreshTtl = 2
    ClientTtl = 2
    InactiveTtl = 1
    MaxTime = 3
    DiskMayFail = TRUE
INVARIANTS
    WithdrawnForGood
    QuietMeansSaved
    IssuedHere
PROPERTIES
    ActiveClientKept
    FamiliesNeverFork
