\* Two tabs, of which one is suspended and one acts on a page it has not updated.
SPECIFICATION Spec
CONSTANTS
    a = a
    b = b
    Tabs = {a, b}
    Gone = Gone
    Nobody = Nobody
    Funds = 2
    MaxPayments = 1
    MaxTxs = 3
    Allowed <- StaleTabs
SYMMETRY TabSymmetry
INVARIANTS
    TakesEffectOnce
CHECK_DEADLOCK FALSE
