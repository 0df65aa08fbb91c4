SPECIFICATION Spec
CONSTANTS
    alice = alice
    bob = bob
    p1 = p1
    p2 = p2
    Users = {alice, bob}
    NoUser = NoUser
    Payments = {p1}
    Endowment <- AliceOne
    Amounts = {1}
    Windows = {1, 5, 6}
    MaxU64 = 1
    MaxI64 = 6
    CrankInterval = 1
    CrankIterations = 6
INVARIANTS
    CrankOutlivesPayment
