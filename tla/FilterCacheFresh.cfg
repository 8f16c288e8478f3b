\* Two concurrent calls of two users, an expiry within the clock's range, one edit.
CONSTANTS
    Calls = {c1, c2}
    Users = {alice, root}
    Admins = {root}
    Keys = {k1}
    Values = {v1}
    TTL = 2
    MaxClock = 4
    MaxEdits = 1
    UsersMayFail = TRUE
    Nobody = Nobody
SPECIFICATION Spec
INVARIANTS
    TypeOK
    ServedIsFresh
