\* One agent account, two requests at a time, two rounds of signing out.
SPECIFICATION SessionSpec
CONSTANTS
    Users = {"bot"}
    Agents = {"bot"}
    Sessions = {s1, s2}
    Tokens = {t1, t2, t3}
    Requests = {r1, r2}
    MaxEpoch = 2
SYMMETRY SessionSymmetry
INVARIANTS
    SignedOut
    OneLiveToken
    SessionInvariant
PROPERTIES
    RevokedIsOver
CHECK_DEADLOCK FALSE
