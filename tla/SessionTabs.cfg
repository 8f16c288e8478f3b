\* Two tabs of one browser, one account, one change of account or secret.  When
\* the clock and the changes are used up and the account is gone, nothing is left.
CONSTANTS
    Tabs = {t1, t2}
    Users = {alice}
    Backends = {"file", "db"}
    TTL = 2
    MaxClock = 3
    MaxEdits = 1
    NoToken = NoToken
CHECK_DEADLOCK FALSE
SPECIFICATION FairSpec
INVARIANTS
    TypeOK
    AcceptedIsRecent
PROPERTIES
    EarlyEndHasCause
    SessionEnds
