SPECIFICATION FairSpec
CONSTANTS
    Screen = {d1}
    Code = {p1}
    Request = {r1, r2}
    NoCode = NoCode
    NoRow = NoRow
    NoCall = NoCall
    MaxAccount = 2
    MaxSecret = 2
    MaxTime = 2
    MaxLost = 1
    PairingTTL = 1
    Retention = 0
    IdleLimit = 1
    TokenLife = 1
CHECK_DEADLOCK FALSE
INVARIANTS SecretsStayValid TokensEndSoon
PROPERTIES RemovedScreensReturn
