\* One tab, one operation, one payment that moves the balance meanwhile.
SPECIFICATION FairFundedSpec
CONSTANTS
    a = a
    b = b
    Tabs = {a}
    Savings = 1
    Funding = 1
    MaxMoves = 1
    MaxOps = 1
    Allowed <- NoMishap
    MaxMishaps = 0
PROPERTIES
    ReturnedBalanceIsReprotected
CHECK_DEADLOCK FALSE
