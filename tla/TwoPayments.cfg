SPECIFICATION Spec
CONSTANTS
    alice = alice
    bob = bob
    p1 = p1
    p2 = p2
    Users = {alice, bob}
    NoUser = NoUser
    Payments = {p1, p2}
    Endowment <- AliceOnly
    Amounts = {1, 2}
    Windows = {1, 2}
    MaxU64 = 2
    MaxI64 = 2
    CrankInterval = 1
    CrankIterations = 3
SYMMETRY Symmetry
INVARIANTS
    Conservation
    AccountsBalance
    EveryoneCanBePaid
