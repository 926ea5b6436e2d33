SPECIFICATION Spec
CONSTANTS
    r1 = r1
    r2 = r2
    r3 = r3
    p1 = p1
    p2 = p2
    p3 = p3
    a1 = a1
    a2 = a2
    a3 = a3
    m1 = m1
    m2 = m2
    c1 = c1
    c2 = c2
    x1 = x1
    nobody = nobody
CHECK_DEADLOCK FALSE
INVARIANTS
    ComponentsTypeOK
    StoresKeepTheirWord
    WithdrawalsStick
    PlacementIsSound
    AddressesResolve
    PeopleAreCounted
    SecretsAreKept
    ResetsAreComplete
    ReplicasAgree
    NodeStaysConnected
