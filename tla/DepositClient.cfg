\* One tab from before its first funding: one balance operation, one payment,
\* and one failure or one overtaken transaction.
SPECIFICATION FairSpec
CONSTANTS
    a = a
    b = b
    Tabs = {a}
    Savings = 2
    Funding = 1
    MaxMoves = 1
    MaxOps = 1
    Allowed <- OneOfEach
    MaxMishaps = 1
INVARIANTS
    TypeOK
    PermissionedWhileDelegated
    FundedOnce
    OneMutationPerOperation
    WaitsForSavedTransaction
    CompletionMoved
    CompletionIsFinal
PROPERTIES
    FundedBalanceIsProtected
    QuietOperationEnds
    PaidWalletIsOnboarded
    ImplementsCustody
CHECK_DEADLOCK FALSE
