SPECIFICATION InstanceSpec
CONSTANTS
    s1 = s1
    s2 = s2
    ann = ann
    bob = bob
    t2 = t2
    r2 = r2
    w2 = w2
    None = None
    Subject = {s1, s2}
    User = {ann, bob}
    Home <- HomeOf
    Adopted <- AdoptedSubjects
    Local <- LocalUsers
    Browser = {b1}
    Trip = {t1, t2}
    Request = {r1, r2}
    Worker = {w1, w2}
    TripTTL = 1
    TicketTTL = 1
    TokenLife = 1
    MaxTime = 1
    MaxTurns = 1
CHECK_DEADLOCK FALSE
INVARIANTS OneSessionPerTrip EnterOnlyLinked StopsArrive KeepsAnEntrance
PROPERTIES GoneAreUnlinked
