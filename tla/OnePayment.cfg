\* Four calls reach a claim window of 3, as the six deployed ones reach the deployed 5.
SPECIFICATION FairSpec
CONSTANTS
    alice = alice
    bob = bob
    p1 = p1
    p2 = p2
    Users = {alice, bob}
    NoUser = NoUser
    Payments = {p1}
    Endowment <- AliceOne
    Amounts = {0, 1}
    Windows = {0, 1, 2, 3}
    MaxU64 = 1
    MaxI64 = 4
    CrankInterval = 1
    CrankIterations = 4
INVARIANTS
    TypeOK
    SealedIffPaidOut
    UndoWindow
    LayersAgree
    PublicCopyHidesTerms
    CrankOutlivesPayment
PROPERTIES
    TermsNeverChange
    StatusMovesForward
    ImplementsPromise
    ImplementsCustody
    ScheduledPaymentEnds
