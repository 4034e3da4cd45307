SPECIFICATION MCSpec
CONSTANTS
    Users = {u1, u2}
    Logins = {l1}
    Requests = {r1, r2}
    NoUser = NoUser
    TokenLifetime = 1
    RevocationTTL = 2
    MaxClock = 3
    MaxChanges = 2
INVARIANT NoStaleGrants
SYMMETRY Symmetry
CHECK_DEADLOCK FALSE
