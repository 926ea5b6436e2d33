SPECIFICATION PartsSpec
CONSTANTS
    r1 = r1
    r2 = r2
    q1 = q1
    q2 = q2
    q3 = q3
    Readers = {r1, r2}
    d1 = d1
    d2 = d2
    p1 = p1
    Devices = {d1, d2}
    Serving = {d1, d2}
    Peers = {p1}
    Credit <- Tapered
    ReaderCap = 2
    MinReaders = 2
    MinSettle = 2
    MaxReceipts = 2
    MaxPeriod = 1
    MaxSigned = 4
    MaxReloads = 1
    Providers = {q1, q2, q3}
    Hosts = {q1, q2, q3}
    DeviceOf <- OwnDevice
    Owner = "owner"
    Root = "root"
    Parts <- NoParts
    Pushed = {"root"}
    MinReplicas = 2
    Target = 2
    HotTarget = 3
    ReleaseHysteresis = 0
    FailuresBeforeEviction = 2
    Longstanding = {}
    Budgets <- EachEvent
    MaxProofs = 1
SYMMETRY Symmetry
CHECK_DEADLOCK FALSE
INVARIANTS
    EconomyInv
    PaidIsAttested
    SameChainSameBaselines
    FreezesHaveCauses
    IssuedBlocksAccepted
    RootNeverLost
    CountedHoldersHold
