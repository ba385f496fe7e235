CONSTANTS
    Tab = {t1, t2}
    Person = {ann, bob}
    None = None
    MaxOutages = 1
SPECIFICATION BrowserSpec
SYMMETRY Symmetry
INVARIANT ScreenKeepsItsPerson
PROPERTY RenewalsDoNotClash
CONSTRAINT InOrder
