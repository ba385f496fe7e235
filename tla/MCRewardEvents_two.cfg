SPECIFICATION WatchedSpec
CONSTANTS
    Event = {c1}
    Goal <- ThreeSquares
    Request = {r1, r2, r3}
    MaxDay = 1
    NoDeadline = NoDeadline
SYMMETRY Symmetry
CHECK_DEADLOCK FALSE
INVARIANTS AwardedWhenFull OnlyCrossingMakesGaps
PROPERTIES AwardsOutliveCards OnlyCrossingBreaksCards
