SPECIFICATION Spec
CONSTANTS
    Request = {r1, r2}
    Device = {d1}
    Challenge = {c1}
    Link = {l1}
    None = None
    MaxFailures = 2
    Window = 1
    LockTime = 1
    ChallengeTTL = 1
    LinkTTL = 1
    TemporaryTTL = 1
    TokenLife = 2
    MaxTime = 2
    MaxSecret = 2
    MaxTurns = 6
CHECK_DEADLOCK FALSE
SYMMETRY Symmetry
INVARIANTS UsedOnce TemporaryReaches GuessesBounded NobodyIsShutOut
