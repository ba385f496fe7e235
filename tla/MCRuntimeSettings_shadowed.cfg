CONSTANTS
    Worker = {w1, w2}
    home = home
    shop = shop
    till = till
    Domain = {home, shop, till}
    Below <- Tree
    Env <- HomeEnv
    Form <- AnyForm
    None = None
    TTL = 1
    MaxTime = 1
    MaxSaves = 1
    MaxRequests = 1
    MaxFaults = 1
SPECIFICATION Spec
INVARIANT BrokenIsNotSaved
