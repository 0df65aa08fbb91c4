\* One tab, one payment that takes the whole balance, one failure.
SPECIFICATION FairSpec
CONSTANTS
    a = a
    b = b
    Tabs = {a}
    Gone = Gone
    Nobody = Nobody
    Funds = 1
    MaxPayments = 1
    MaxTxs = 2
    Allowed <- OneFailure
PROPERTIES
    OpenedPaymentIsReported
CHECK_DEADLOCK FALSE
