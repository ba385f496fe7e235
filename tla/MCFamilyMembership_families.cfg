SPECIFICATION BoundedSpec
CONSTANTS
    Family = {f1, f2}
    Account = {a1, a2, a3}
    Adult = {a1, a2}
    Code = {c1, c2}
    Request = {r1, r2}
    MaxId = 3
    NoFamily = NoFamily
    NoAccount = NoAccount
    NoCode = NoCode
SYMMETRY Symmetry
CHECK_DEADLOCK FALSE
INVARIANTS OnlyOverlapLosesOwners NothingDangles OfferedIsServed
PROPERTIES CodesWorkOnce OnlyOverlapSweepsAway
