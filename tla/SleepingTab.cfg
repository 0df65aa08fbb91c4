\* Two tabs of which one is suspended once, one payment, no failure and no late
\* event: what the lease itself guarantees.
SPECIFICATION Spec
CONSTANTS
    a = a
    b = b
    Tabs = {a, b}
    Gone = Gone
    Nobody = Nobody
    Funds = 2
    MaxPayments = 1
    MaxTxs = 4
    Allowed <- OneSuspension
INVARIANTS
    WaitInsteadOfResending
CHECK_DEADLOCK FALSE
