\* One tab, one payment of half the balance, no mishap.
SPECIFICATION FairSpec
CONSTANTS
    a = a
    b = b
    Tabs = {a}
    Gone = Gone
    Nobody = Nobody
    Funds = 2
    MaxPayments = 1
    MaxTxs = 2
    Allowed <- NoMishap
PROPERTIES
    OpenedPaymentIsReported
CHECK_DEADLOCK FALSE
