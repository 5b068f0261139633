\* Two requests of one process and one of another, of the same account or not.
SPECIFICATION Spec
SYMMETRY Symmetry
CHECK_DEADLOCK FALSE
CONSTANTS
    p1 = p1  p2 = p2
    c1 = c1  c2 = c2  c3 = c3
    a1 = a1  a2 = a2
    Proc = {p1, p2}
    Account = {a1, a2}
    Accounts <- OneOrTwoAccounts
    Call = {c1, c2, c3}
    Home <- Homes
    MaxTokens = 2
    NoToken = NoToken
    Nobody = Nobody
    DiskMayFail = TRUE
INVARIANTS
    NoNeedlessFetch
    AccountsApart
    RejectedOffDisk
    NobodyWaitsInVain
PROPERTY
    WritesNewest
