SPECIFICATION FairSpec
CONSTANTS
    Ledger = {l1, l2}
    Worker = {w1, w2}
    Parent = {p1}
    MaxDay = 3
    MaxCatchUp = 2
    MaxEdits = 2
    MaxCrashes = 1
CHECK_DEADLOCK FALSE
INVARIANTS OnePerDay SettledDays RestoreRepeatsNothing
PROPERTIES NothingAfterStop BonusArrives
