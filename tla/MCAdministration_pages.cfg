CONSTANTS
    Worker = {w1, w2}
    home = home
    shop = shop
    till = till
    Domain = {home, shop, till}
    Below <- Tree
    Env <- NoEnv
    Form <- Forms
    None = None
    TTL = 1
    ann = ann
    bob = bob
    admin = admin
    aide = aide
    User = {ann, bob}
    First = ann
    Role = {admin, aide}
    AdminRole = admin
    Seeded <- AllToAdmin
    Request = {r1, r2}
    MaxTurns = 2
    MaxTime = 1
    MaxSaves = 2
    MaxRequests = 2
    MaxFaults = 1
SPECIFICATION PartSpec
INVARIANTS SavesArriveInTime SavedSettingsFit RestartsAreCounted
PROPERTIES RestartReaches OnlyAStaleHandCloses
CONSTRAINT Few
CHECK_DEADLOCK FALSE
