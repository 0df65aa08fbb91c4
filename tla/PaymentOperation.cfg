\* Two tabs, two payments, four transactions, one failure.
SPECIFICATION Spec
CONSTANTS
    a = a
    b = b
    Tabs = {a, b}
    Gone = Gone
    Nobody = Nobody
    Funds = 2
    MaxPayments = 2
    MaxTxs = 4
    Allowed <- OneFailure
SYMMETRY TabSymmetry
INVARIANTS
    TypeOK
    NoLostEscrow
    WaitInsteadOfResending
    OneTabRuns
    ReceiptsCiteLanded
CHECK_DEADLOCK FALSE
