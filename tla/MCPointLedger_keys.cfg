CONSTANTS
    l1 = l1  l2 = l2
    k1 = k1  k2 = k2  k3 = k3  k4 = k4
    r1 = r1  r2 = r2  r3 = r3
    Ledger = {l1, l2}
    Key = {k1, k2, k3, k4}
    Request = {r1, r2, r3}
    Intent <- AnyKeys
    Habit <- Habits
    Sends <- HabitIntents
    MaxId = 7
    MaxMembers = 3
    MaxTransactions = 9
SPECIFICATION ClientSpec
SYMMETRY Symmetry
INVARIANTS SuccessesHold CorrectionsArePaired ReversalsCancel ExportsComeBack
PROPERTY ImplementsAbstractLedger
