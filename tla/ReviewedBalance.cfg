\* Two tabs, two operations, nothing else.
SPECIFICATION FundedSpec
CONSTANTS
    a = a
    b = b
    Tabs = {a, b}
    Savings = 1
    Funding = 1
    MaxMoves = 0
    MaxOps = 2
    Allowed <- NoMishap
    MaxMishaps = 0
SYMMETRY TabSymmetry
PROPERTIES
    MutatesFromReviewedBalance
CHECK_DEADLOCK FALSE
